------------------------------ MODULE Shipping ------------------------------
(***************************************************************************)
(* The shipments (apps/shipments) that bring the goods of one purchase     *)
(* order, and the requests that every module of apps/purchases is made of. *)
(*                                                                         *)
(* A request first reads rows without a lock (get_object and the           *)
(* serializer's validation) and acts on them later, in a read-committed    *)
(* transaction that waits only where it meets a row another one has locked *)
(* or changed.  What a worker remembers between its steps is in job[w].    *)
(*                                                                         *)
(* Items of a shipment, its carrier and its tracking log are left out:     *)
(* receipts look at its status, its inspection and its receiver alone.     *)
(***************************************************************************)
EXTENDS Integers, FiniteSets, FiniteSetsExt, Functions

CONSTANTS
  Workers,           \* web processes
  Shipments,         \* shipments that clients may create; ids are numbers
  ShipmentStatuses,  \* statuses that clients write to a shipment
  Inspections,       \* qc statuses that clients write to a shipment
  Starts             \* what a behaviour starts from, and what its clients send

VARIABLES
  clients,    \* the request kinds that clients send in this behaviour
  order,      \* PurchaseOrder.status
  shipments,  \* Shipment rows
  job         \* what each worker is doing

Arrival == {"RECEIVED", "COMPLETED"}
Inspected == {"PASSED", "PASSED_WITH_REJECTIONS"}

ShipmentRows == [status : ShipmentStatuses, qc : Inspections, receiver : BOOLEAN]
NoShipment == [status |-> "ABSENT", qc |-> "PENDING", receiver |-> FALSE]

ASSUME ShippingAssumption ==
  /\ Shipments \subseteq Nat /\ IsFiniteSet(Shipments)
  /\ "ABSENT" \notin ShipmentStatuses
  /\ \A s \in Starts : s.shipments \in [Shipments -> ShipmentRows \union {NoShipment}]

ReceivableStatuses == {"APPROVED", "PARTIALLY_RECEIVED"}

----------------------------------------------------------------------------
(* Requests. *)

Idle == [step |-> "idle"]

\* Worker w takes a request of one of the kinds.
Takes(w, kind) == job[w].step = "idle" /\ kind \in clients
At(w, step) == job[w].step = step
Others(w) == Workers \ {w}

Becomes(w, next) == job' = [job EXCEPT ![w] = next]
Respond(w) == Becomes(w, Idle)

\* What holds when clients send none of the given kinds of request.
Without(kinds, P) == clients \intersect kinds = {} => P

----------------------------------------------------------------------------
(* Shipments. *)

Sent(s) == shipments[s].status # "ABSENT"

\* GRNSerializer.validate: some shipment has arrived.
HasArrived == \E s \in Shipments : shipments[s].status \in Arrival

\* The latest shipment that has arrived and passed inspection tells who
\* received the goods; received dates follow the ids.
Passed == {s \in Shipments : shipments[s].status \in Arrival /\ shipments[s].qc \in Inspected}
ReceivedBySomeone == Passed # {} /\ shipments[Max(Passed)].receiver

\* A new shipment of an approved order; its key is new.
CreateShipment(w) ==
  /\ Takes(w, "create_shipment")
  /\ order \in ReceivableStatuses
  /\ \E s \in Shipments, row \in ShipmentRows :
       /\ ~Sent(s)
       /\ \A v \in Workers : ~(At(v, "shipment_save") /\ job[v].shipment = s)
       /\ shipments' = [shipments EXCEPT ![s] = row]
  /\ UNCHANGED <<clients, order, job>>

\* PATCH reads the shipment, whatever its status, and may write any field.
ShipmentEditLoad(w) ==
  /\ Takes(w, "edit_shipment")
  /\ \E s \in Shipments, row \in ShipmentRows :
       /\ Sent(s)
       /\ Becomes(w, [step |-> "shipment_save", shipment |-> s, row |-> row])
  /\ UNCHANGED <<clients, order, shipments>>

\* A shipment in another status; one that arrives has a receiver, the user who
\* says so when nobody was selected.
Moved(row, status) ==
  [row EXCEPT !.status = status, !.receiver = @ \/ status \in Arrival]

\* update_status takes any status.
ShipmentStatusLoad(w) ==
  /\ Takes(w, "shipment_status")
  /\ \E s \in Shipments, status \in ShipmentStatuses :
       /\ Sent(s)
       /\ Becomes(w, [step |-> "shipment_save", shipment |-> s,
                      row |-> Moved(shipments[s], status)])
  /\ UNCHANGED <<clients, order, shipments>>

\* Both save the whole row that they read and changed.
ShipmentSave(w) ==
  /\ At(w, "shipment_save")
  /\ shipments' = [shipments EXCEPT ![job[w].shipment] = job[w].row]
  /\ Respond(w)
  /\ UNCHANGED <<clients, order>>

DeleteShipment(w) ==
  /\ Takes(w, "delete_shipment")
  /\ \E s \in Shipments :
       /\ Sent(s)
       /\ shipments' = [shipments EXCEPT ![s] = NoShipment]
  /\ UNCHANGED <<clients, order, job>>

ShippingStep(w) ==
  \/ CreateShipment(w) \/ ShipmentEditLoad(w) \/ ShipmentStatusLoad(w)
  \/ ShipmentSave(w) \/ DeleteShipment(w)

=============================================================================
