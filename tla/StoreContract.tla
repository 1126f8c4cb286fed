---------------------------- MODULE StoreContract ----------------------------
(***************************************************************************)
(* What the Cache expects of a Store (store.go), and MemoryStore does under*)
(* one mutex: each call takes effect at one moment between its beginning   *)
(* and its answer, or fails without effect; a crash loses the calls under  *)
(* way and nothing else (a MemoryStore does not outlive one).  Calls may   *)
(* overlap: readers fetch blobs beside whatever handler holds the Cache's  *)
(* mutex, and the interface asks for more than that.                       *)
(*                                                                         *)
(* A listing is the one call that need not be atomic.  It is bound to      *)
(* report every object that did not change while it ran.                   *)
(***************************************************************************)
EXTENDS StoreInterface

VARIABLES
  objects,  \* the object of each name
  calls,    \* the call each caller is in
  answers,  \* and its answer
  touched   \* a listing: the objects that changed since it began

contractVars == <<objects, calls, answers, touched>>

Waiting(p, op) == calls[p].op = op /\ answers[p] = Pending

Answer(p, a) == answers' = [answers EXCEPT ![p] = a]

NoteChanges ==
  touched' = [q \in Callers |->
                IF calls[q].op = "list" THEN touched[q] \cup {n \in Names : objects'[n] # objects[n]}
                ELSE touched[q]]

Init ==
  /\ objects \in [Names -> Contents \cup {Absent}]
  /\ \A n \in Names : objects[n] \in Holds(n)
  /\ calls = [p \in Callers |-> NoCall]
  /\ answers = [p \in Callers |-> Pending]
  /\ touched = [p \in Callers |-> {}]

Begin(p, c) ==
  /\ calls[p] = NoCall
  /\ calls' = [calls EXCEPT ![p] = c]
  /\ touched' = [touched EXCEPT ![p] = {}]
  /\ UNCHANGED <<objects, answers>>

Put(p) ==
  /\ Waiting(p, "put")
  /\ LET c == calls[p]
     IN  IF Allowed(c, objects[c.name])
         THEN objects' = [objects EXCEPT ![c.name] = c.value] /\ Answer(p, Done)
         ELSE UNCHANGED objects /\ Answer(p, ConditionFailed)
  /\ NoteChanges
  /\ UNCHANGED calls

\* Deleting what is not there succeeds.
Delete(p) ==
  /\ Waiting(p, "delete")
  /\ objects' = [objects EXCEPT ![calls[p].name] = Absent]
  /\ Answer(p, Done)
  /\ NoteChanges
  /\ UNCHANGED calls

Get(p) ==
  /\ Waiting(p, "get")
  /\ Answer(p, Found(objects[calls[p].name]))
  /\ UNCHANGED <<objects, calls, touched>>

List(p) ==
  /\ Waiting(p, "list")
  /\ \E contents \in [In(calls[p].collection) -> Contents \cup {Absent}] :
       /\ \A n \in In(calls[p].collection) \ touched[p] : contents[n] = objects[n]
       /\ Answer(p, Listed(contents))
  /\ UNCHANGED <<objects, calls, touched>>

\* A call that fails has changed nothing.
Fail(p) ==
  /\ calls[p] # NoCall
  /\ answers[p] = Pending
  /\ Answer(p, Failed)
  /\ UNCHANGED <<objects, calls, touched>>

Return(p) ==
  /\ answers[p] # Pending
  /\ calls' = [calls EXCEPT ![p] = NoCall]
  /\ Answer(p, Pending)
  /\ UNCHANGED <<objects, touched>>

Crash ==
  /\ calls' = [p \in Callers |-> NoCall]
  /\ answers' = [p \in Callers |-> Pending]
  /\ UNCHANGED <<objects, touched>>

Next ==
  \/ \E p \in Callers :
       \/ \E c \in ClientCalls : Begin(p, c)
       \/ Put(p) \/ Delete(p) \/ Get(p) \/ List(p) \/ Fail(p) \/ Return(p)
  \/ Crash

Spec == Init /\ [][Next]_contractVars
=============================================================================
