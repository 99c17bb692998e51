------------------------------ MODULE Accounting ------------------------------
(***************************************************************************)
(* lesson_11, the accounting service: it consumes the topic of orders and  *)
(* writes each to the database.  The consumer commits its position by      *)
(* itself, from time to time, when a message has been handed out, not when *)
(* it is saved; and one DbContext serves all messages: what could not be   *)
(* saved stays in it and is part of every later SaveChanges.               *)
(***************************************************************************)
EXTENDS Naturals, Sequences, FiniteSets

CONSTANTS Orders, None

VARIABLES
    topic,      \* the messages of the topic
    position,   \* messages consumed
    committed,  \* the position the broker knows
    current,    \* the order in ProcessMessage, or None
    pending,    \* orders added to the DbContext and not saved
    tracked,    \* orders the DbContext has saved
    db,         \* orders in the database
    restarted,  \* history: the service has been killed and started again
    unsure      \* history: a SaveChanges has failed after its commit

accountVars == <<position, committed, current, pending, tracked, db, restarted, unsure>>

AccountInit ==
    /\ position = 0 /\ committed = 0
    /\ current = None
    /\ pending = {} /\ tracked = {} /\ db = {}
    /\ restarted = FALSE /\ unsure = FALSE

Consume ==
    /\ current = None /\ position < Len(topic)
    /\ position' = position + 1
    /\ current' = topic[position + 1]
    /\ UNCHANGED <<committed, pending, tracked, db, restarted, unsure>>

\* Adding an entity with a key the context knows throws.
Known == current \in pending \cup tracked

Refuse ==
    /\ current # None /\ Known
    /\ current' = None
    /\ UNCHANGED <<position, committed, pending, tracked, db, restarted, unsure>>

\* Fault: an order that could not be saved is forgotten.
SaveFailsCleared ==
    /\ current # None /\ ~Known
    /\ current' = None
    /\ pending' = {}
    /\ UNCHANGED <<position, committed, tracked, db, restarted, unsure>>

\* The database does not answer, or refuses a key it has: nothing is saved.
SaveFails ==
    /\ current # None /\ ~Known
    /\ current' = None
    /\ pending' = pending \cup {current}
    /\ UNCHANGED <<position, committed, tracked, db, restarted, unsure>>

\* Fault: a saved order stays pending.
SaveUntracked ==
    /\ current # None /\ ~Known /\ (pending \cup {current}) \cap db = {}
    /\ current' = None
    /\ db' = db \cup pending \cup {current}
    /\ pending' = pending \cup {current}
    /\ UNCHANGED <<position, committed, restarted, tracked, unsure>>

\* The transaction commits; if the answer is lost, the context does not know.
Save ==
    /\ current # None /\ ~Known /\ (pending \cup {current}) \cap db = {}
    /\ current' = None
    /\ db' = db \cup pending \cup {current}
    /\ \/ pending' = {} /\ tracked' = tracked \cup pending \cup {current} /\ UNCHANGED unsure
       \/ pending' = pending \cup {current} /\ unsure' = TRUE /\ UNCHANGED tracked
    /\ UNCHANGED <<position, committed, restarted>>

AutoCommit ==
    /\ committed < position
    /\ committed' = position
    /\ UNCHANGED <<position, current, pending, tracked, db, restarted, unsure>>

\* Fault: a started service reads the topic from its beginning.
RestartFromStart ==
    /\ ~restarted
    /\ restarted' = TRUE
    /\ position' = 0
    /\ current' = None
    /\ pending' = {} /\ tracked' = {}
    /\ UNCHANGED <<committed, db, unsure>>

\* Killed and started again: the context is empty, the position is the committed one.
Restart ==
    /\ ~restarted
    /\ restarted' = TRUE
    /\ position' = committed
    /\ current' = None
    /\ pending' = {} /\ tracked' = {}
    /\ UNCHANGED <<committed, db, unsure>>

Account == (Consume \/ Refuse \/ SaveFails \/ Save \/ AutoCommit \/ Restart) /\ UNCHANGED topic

AccountTypeOK ==
    /\ committed \in 0..position /\ position \in 0..Len(topic)
    /\ current \in Orders \cup {None}
    /\ pending \cup tracked \cup db \subseteq Orders
    /\ restarted \in BOOLEAN /\ unsure \in BOOLEAN

-----------------------------------------------------------------------------
(* Properties. *)

Handled == {topic[i] : i \in 1..position} \ {current}

(***************************************************************************)
(* As long as the service is not killed, no order is forgotten: one it has *)
(* consumed is in the database or waits to be saved with the next          *)
(* (Consumer.cs, lines 79-131).  A kill loses what was committed and not   *)
(* saved, since commits follow consumption (line 141).                     *)
(***************************************************************************)
ForgottenNeedsRestart == Handled \subseteq db \cup pending \/ restarted

(***************************************************************************)
(* No order in the database waits to be saved: one that does makes every   *)
(* later SaveChanges fail, until the service is started again.  It takes a *)
(* redelivery after a restart or a commit whose answer was lost            *)
(* (Consumer.cs, lines 95 and 125).                                        *)
(***************************************************************************)
StuckNeedsCause == pending \cap db # {} => restarted \/ unsure

=============================================================================
