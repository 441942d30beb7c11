------------------------------ MODULE Mailbox ------------------------------
(***************************************************************************)
(* What the outbox promises of each message, without clocks, settings,      *)
(* passes, failing databases and crashes: a message is queued once, is      *)
(* tried only while its record is pending and no earlier try is under way,  *)
(* reaches the receiver at most once per try, is settled once and for a     *)
(* reason, and only then may its record go. Outbox implements this.         *)
(***************************************************************************)
EXTENDS Naturals

CONSTANTS Message, MaxAttempts

VARIABLES
    record,     \* what the table says of each message
    queued,     \* the messages queued so far
    tries,      \* how often each was tried, counted up to MaxAttempts
    out,        \* the messages with a try under way
    received,   \* the messages that reached the receiver
    excused     \* messages that need not arrive: their channel was disabled

vars == <<record, queued, tries, out, received, excused>>

Init ==
    /\ record = [m \in Message |-> "absent"]
    /\ queued = {} /\ out = {} /\ received = {} /\ excused = {}
    /\ tries = [m \in Message |-> 0]

\* The messages of one alert are queued together.
Queue ==
    \E new \in SUBSET (Message \ queued) :
        /\ queued' = queued \cup new
        /\ record' = [m \in Message |->
                        IF m \in new THEN "pending" ELSE record[m]]
        /\ UNCHANGED <<tries, out, received, excused>>

Try(m) ==
    /\ record[m] = "pending" /\ m \notin out
    /\ tries' = [tries EXCEPT ![m] = IF @ < MaxAttempts THEN @ + 1 ELSE @]
    /\ out' = out \cup {m}
    /\ UNCHANGED <<record, queued, received, excused>>

\* A try ends: the message arrives or it does not.
Arrive(m) ==
    /\ m \in out
    /\ out' = out \ {m}
    /\ received' = received \cup {m}
    /\ UNCHANGED <<record, queued, tries, excused>>

Miss(m) ==
    /\ m \in out
    /\ out' = out \ {m}
    /\ UNCHANGED <<record, queued, tries, received, excused>>

Excuse(m) ==
    /\ record[m] = "pending"
    /\ excused' = excused \cup {m}
    /\ UNCHANGED <<record, queued, tries, out, received>>

Settle(m, outcome) ==
    /\ record[m] = "pending" /\ m \notin out
    /\ outcome = "sent" => m \in received \cup excused
    /\ outcome = "abandoned" => tries[m] = MaxAttempts
    /\ record' = [record EXCEPT ![m] = outcome]
    /\ UNCHANGED <<queued, tries, out, received, excused>>

Remove ==
    /\ \E old \in SUBSET {m \in Message : record[m] \in {"sent", "abandoned"}} :
          record' = [m \in Message |->
                        IF m \in old THEN "absent" ELSE record[m]]
    /\ UNCHANGED <<queued, tries, out, received, excused>>

Next ==
    \/ Queue \/ Remove
    \/ \E m \in Message :
          \/ Try(m) \/ Arrive(m) \/ Miss(m) \/ Excuse(m)
          \/ \E outcome \in {"sent", "abandoned"} : Settle(m, outcome)

Spec == Init /\ [][Next]_vars

-----------------------------------------------------------------------------
\* Every variable stays in its domain.
TypeOK ==
    /\ record \in [Message -> {"absent", "pending", "sent", "abandoned"}]
    /\ queued \in SUBSET Message /\ excused \in SUBSET Message
    /\ out \in SUBSET Message /\ received \in SUBSET Message
    /\ tries \in [Message -> 0..MaxAttempts]

\* A message whose record is no longer pending was received, excused, or tried
\* as often as it is to be tried.
NothingForgotten ==
    \A m \in queued : record[m] # "pending" =>
        m \in received \cup excused \/ tries[m] = MaxAttempts

\* Only what was queued has a record or a past, what is under way is pending,
\* and nothing arrives that was not tried.
Accounted ==
    \A m \in Message :
        /\ m \in out => record[m] = "pending"
        /\ m \in out \cup received => tries[m] > 0
        /\ m \notin queued => record[m] = "absent" /\ tries[m] = 0

\* The life of a message ends once: its record is never pending again, and it
\* is neither tried nor received again.
Over(m) == m \in queued /\ record[m] # "pending"

EndsOnce ==
    [][\A m \in Message : Over(m) =>
            /\ Over(m)'
            /\ m \notin out'
            /\ tries'[m] = tries[m]
            /\ m \in received' <=> m \in received]_vars
=============================================================================
