----------------------------- MODULE AtomicFile -----------------------------
(***************************************************************************)
(* What a file written by write_text_file_atomic promises: a reader sees   *)
(* the old text or the new one, whole, and so does the machine that comes  *)
(* back from a power loss, which may only go back to a text that was       *)
(* current before.                                                         *)
(***************************************************************************)
CONSTANTS Wholes, NoFile

VARIABLES
    wanted,     \* {} or {the text being written}
    current,    \* what the file reads
    durable     \* what it will read after a power loss

vars == <<wanted, current, durable>>

TypeOK ==
    /\ wanted = {} \/ \E t \in Wholes : wanted = {t}
    /\ {current, durable} \subseteq Wholes \cup {NoFile}

Init ==
    /\ wanted = {}
    /\ current \in Wholes \cup {NoFile}
    /\ durable = current

Ask == wanted = {} /\ (\E t \in Wholes : wanted' = {t}) /\ UNCHANGED <<current, durable>>

Replace == current' \in wanted /\ wanted' = {} /\ UNCHANGED durable

\* The write failed, or its process is gone.
GiveUp == wanted' = {} /\ UNCHANGED <<current, durable>>

Flush == durable' = current /\ UNCHANGED <<wanted, current>>

PowerLoss == current' = durable /\ wanted' = {} /\ UNCHANGED durable

Next == Ask \/ Replace \/ GiveUp \/ Flush \/ PowerLoss

Spec == Init /\ [][Next]_vars
=============================================================================
