------------------------------- MODULE PinFiles -------------------------------
(* What rewriting promises of the workflow files: a file changes only as a   *)
(* whole, to a pinned form of a text it had while the command ran, or back   *)
(* to that text; and a command that reports success has pinned every file it *)
(* meant to.  Other processes may write the files at any time.               *)
CONSTANTS
    Files,      \* the workflow files
    Texts,      \* what a file may hold
    Gone,       \* no such file
    Unseen,     \* a file the command does not mean to change
    None,       \* no exit code: still running, or killed
    Pinned      \* the forms each text may be pinned to

VARIABLES
    text,       \* what each file holds
    seen,       \* the text it had when the command took it on
    pinned,     \* the files changed and not changed back
    exit        \* how the last command ended

vars == <<text, seen, pinned, exit>>

Init == /\ text \in [Files -> Texts \cup {Gone}]
        /\ seen = [f \in Files |-> Unseen]
        /\ pinned = {}
        /\ exit = None

TakeOn(f) == /\ seen[f] = Unseen
             /\ text[f] # Gone
             /\ seen' = [seen EXCEPT ![f] = text[f]]
             /\ UNCHANGED <<text, pinned, exit>>

Pin(f) == /\ seen[f] # Unseen
          /\ f \notin pinned
          /\ text'[f] \in Pinned[seen[f]]
          /\ text' = [text EXCEPT ![f] = text'[f]]
          /\ pinned' = pinned \cup {f}
          /\ UNCHANGED <<seen, exit>>

(* Changing back may fail.                                                   *)
ChangeBack(f) == /\ f \in pinned
                 /\ text' \in {text, [text EXCEPT ![f] = seen[f]]}
                 /\ pinned' = pinned \ {f}
                 /\ UNCHANGED <<seen, exit>>

(* Success means everything taken on is pinned; a refusal means nothing is,  *)
(* or could not be changed back; a crash may come at any time.               *)
End(code) == /\ code = 0 => pinned = {f \in Files : seen[f] # Unseen}
             /\ code = 1 => pinned = {}
             /\ seen' = [f \in Files |-> Unseen]
             /\ pinned' = {}
             /\ exit' = code
             /\ UNCHANGED text

Begin == exit' = None /\ UNCHANGED <<text, seen, pinned>>

Edit(f) == /\ text'[f] \in Texts \cup {Gone}
           /\ text' = [text EXCEPT ![f] = text'[f]]
           /\ UNCHANGED <<seen, pinned, exit>>

Next == \/ \E f \in Files : TakeOn(f) \/ Pin(f) \/ ChangeBack(f) \/ Edit(f)
        \/ \E code \in {None, 0, 1} : End(code)
        \/ Begin

Spec == Init /\ [][Next]_vars
=============================================================================
