------------------------------ MODULE PinLedger -------------------------------
(* What action-locker promises of action-lock.json: a ledger of pins.  A     *)
(* command changes it once, as a whole, and in no way but its own, or leaves *)
(* it alone; killed while it saves, it loses the ledger, never a part of it. *)
(* Whoever pins a commit has seen it under a tag, and old enough.            *)
CONSTANTS
    Actions, Repos, RepoOf, Tags, Shas,
    Trusted,        \* actions the age floor is waived for
    Invocations,    \* the commands that may run
    None

VARIABLES
    ledger,     \* for each key that is pinned [resolved, selected, integrity]
    run,        \* the command that is running, or None
    phase,      \* "idle", "running", or "saved": it has changed the ledger
    published,  \* what tags have named
    aged        \* the commits that clear the age floor

vars == <<ledger, run, phase, published, aged>>

Keys  == Actions \X (Tags \cup Shas)
Blank == [k \in {} |-> None]

Init == /\ ledger = Blank
        /\ run = None
        /\ phase = "idle"
        /\ published \subseteq Repos \X Tags \X Shas
        /\ aged \subseteq Shas

(* The tag that is shown beside a pin has named its commit; a key that is a  *)
(* commit is pinned to itself.                                               *)
Shown(k, e) == IF e.selected = None THEN k[2] ELSE e.selected
Attested(k, e) == IF k[2] \in Tags
                  THEN <<RepoOf[k[1]], Shown(k, e), e.resolved>> \in published
                  ELSE e.resolved = k[2]

Quarantined(k, e) == run.fresh \/ k[1] \in Trusted \/ e.resolved \in aged

(* What a command may make of a key.                                         *)
Enter(k, new) == /\ Attested(k, new) /\ Quarantined(k, new)
                 /\ new.integrity = None
Renew(k, old, new) == /\ Attested(k, new) /\ Quarantined(k, new)
                      /\ new.integrity = IF new.resolved = old.resolved
                                         THEN old.integrity ELSE None
Move(k, old, new) == /\ new.resolved # old.resolved
                     /\ Enter(k, new)
Vouch(k, old, new) == new = [old EXCEPT !.integrity = <<k[1], old.resolved>>]

Business(k, old, new) ==
    \/ run.cmd = "lock" /\ run.force /\ Renew(k, old, new)
    \/ run.cmd = "update" /\ run.apply /\ k[2] \in Tags /\ Move(k, old, new)
    \/ run.cmd = "vendor" /\ Vouch(k, old, new)

-----------------------------------------------------------------------------
Begin == /\ phase = "idle"
         /\ run' \in Invocations
         /\ phase' = "running"
         /\ UNCHANGED <<ledger, published, aged>>

Save == /\ phase = "running"
        /\ phase' = "saved"
        /\ DOMAIN ledger \subseteq DOMAIN ledger' /\ DOMAIN ledger' \subseteq Keys
        /\ \A k \in DOMAIN ledger' :
             IF k \in DOMAIN ledger
             THEN ledger'[k] = ledger[k] \/ Business(k, ledger[k], ledger'[k])
             ELSE run.cmd = "lock" /\ Enter(k, ledger'[k])
        /\ UNCHANGED <<run, published, aged>>

(* A command that has not saved yet ends without a trace; one that is saving *)
(* may be killed.                                                            *)
End == /\ phase # "idle"
       /\ phase' = "idle"
       /\ run' = None
       /\ \/ ledger' = ledger
          \/ phase = "saved" /\ ledger' = Blank
       /\ UNCHANGED <<published, aged>>

(* Tags name other commits, and commits grow old, at any time.               *)
Pass == /\ published \subseteq published' /\ aged \subseteq aged'
        /\ UNCHANGED <<ledger, run, phase>>

Next == Begin \/ Save \/ End \/ Pass

Spec == Init /\ [][Next]_vars
=============================================================================
