------------------------------ MODULE DataViews ------------------------------
(***************************************************************************)
(* What a DataAccessor promises, whatever is behind it.                    *)
(*                                                                         *)
(* An accessor is a view: a range of cells of one store.  It never moves.  *)
(* Taking a part of a view narrows it; nothing is copied, so that parts    *)
(* and wholes see each other's writes.  Writing through a view changes     *)
(* cells of that view only, and nothing but a write changes a buffer.      *)
(***************************************************************************)
EXTENDS Naturals

CONSTANTS
  Accessors,  \* views that can be made
  Outside,    \* stores that others change too: the debuggee's memory, registers
  Nobody,     \* not one of the accessors
  None        \* not made yet

VARIABLES
  content,    \* content[s][i]: cell i of store s
  view,       \* view[a]: store, begin and length
  actor       \* the accessor called last, or Nobody

vars == <<content, view, actor>>

Cell(a, s, i) ==
  /\ s = view[a].store
  /\ view[a].begin <= i /\ i < view[a].begin + view[a].length

Init == view = [a \in Accessors |-> None] /\ actor = Nobody

(* A view of something new; what is there already stays as it is, except a *)
(* buffer that is made for it.                                             *)
Make(a) ==
  /\ view[a] = None
  /\ \A b \in Accessors \ {a} : view'[b] = view[b]
  /\ \A s \in DOMAIN content \ {a} : content'[s] = content[s]
  /\ actor' = Nobody

(* A part of the view b: the n cells from start on.                        *)
Narrow(a, b) ==
  /\ view[a] = None /\ view[b] # None
  /\ \E start, n \in 0..view[b].length :
       /\ start + n <= view[b].length
       /\ view' = [view EXCEPT ![a] =
            [store |-> view[b].store, begin |-> view[b].begin + start, length |-> n]]
  /\ UNCHANGED content
  /\ actor' = b

Write(a) ==
  /\ view[a] # None
  /\ \A s \in DOMAIN content : \A i \in DOMAIN content[s] :
       ~Cell(a, s, i) => content'[s][i] = content[s][i]
  /\ UNCHANGED view
  /\ actor' = a

(* The debuggee runs, the thread changes.                                  *)
Happen ==
  /\ \A s \in DOMAIN content \ Outside : content'[s] = content[s]
  /\ UNCHANGED view
  /\ actor' = Nobody

Next ==
  \/ Happen
  \/ \E a \in Accessors : Make(a) \/ Write(a) \/ \E b \in Accessors : Narrow(a, b)

Spec == Init /\ [][Next]_vars
=============================================================================
