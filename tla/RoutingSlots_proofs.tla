------------------------ MODULE RoutingSlots_proofs ------------------------
(***************************************************************************)
(* The slot table as the double-booking guard, for every flow, every set   *)
(* of routes and agents, every capacity and every timing: a slot follows   *)
(* the reservation it is held for, a live reservation keeps its slot, and  *)
(* so an agent never serves more than the channel's capacity.  With that,  *)
(* the engine implements Assignment.                                       *)
(*                                                                         *)
(* A handler changes the reservations of a route, then the slots, and then *)
(* runs the flow, which may do both again.  Between two of these the       *)
(* tables are those of no state, so the invariant is stated of a table of  *)
(* reservations R and a table of slots T.                                  *)
(***************************************************************************)
EXTENDS RoutingEngine_proofs, RoutingRefinement, WellFoundedInduction, FiniteSetTheorems

-----------------------------------------------------------------------------
(* The inductive invariant *)

Reservations == [Routes -> Seq(Reservation)]

\* Slot row x of agent a is held for a reservation of a's: pending while it is on
\* offer, with the offer's expiry, or confirmed and accepted.
Fits(R, a, x) ==
    \A r \in Routes, n \in Nat : x.holder = <<r, n>> =>
        /\ n \in 1..Len(R[r])
        /\ R[r][n].agent = a
        /\ x.hold = Null => R[r][n].state = "accepted"
        /\ x.hold # Null => /\ R[r][n].state = "offered"
                            /\ R[r][n].ttl = IF Past(x.hold) THEN 0 ELSE x.hold

\* A reservation that must find its slot: accepted, or on offer and in time.
Serves(x) == x.state = "accepted" \/ (x.state = "offered" /\ Ahead(x.ttl))

Keeping(R, T) ==
    \A r \in Routes : \A n \in 1..Len(R[r]) :
        Serves(R[r][n]) => \E k \in SlotNos : T[R[r][n].agent][k].holder = <<r, n>>

OneSlot(T) ==
    \A a \in Agents, j, k \in SlotNos :
        T[a][j].holder # Null /\ T[a][j].holder = T[a][k].holder => j = k

OffersRing(R) ==
    \A r \in Routes : \A n \in 1..Len(R[r]) :
        R[r][n].state = "offered" => R[r][n].ttl \in Countdown(OfferTimeout)

SlotsAgree(R, T) ==
    /\ \A a \in Agents, k \in SlotNos : Fits(R, a, T[a][k])
    /\ Keeping(R, T)
    /\ OneSlot(T)
    /\ OffersRing(R)

-----------------------------------------------------------------------------
(* What the transactions do to the two tables *)

LEMMA NullIsNoHolder ==
    ASSUME NEW r \in Routes, NEW n \in Nat
    PROVE  <<r, n>> # Null
BY NullAssumption

LEMMA ReservedAgent ==
    ASSUME NEW R \in Reservations, NEW r \in Routes, NEW n \in 1..Len(R[r])
    PROVE  R[r][n].agent \in Agents
<1>1. R[r] \in Seq(Reservation)
  BY DEF Reservations
<1>2. R[r][n] \in Reservation
  BY <1>1
<1> QED
  BY <1>2 DEF Reservation

\* A set of numbers has a least one.
LEMMA LeastOne ==
    ASSUME NEW S \in SUBSET Nat, S # {}
    PROVE  \E k \in S : \A j \in S : k <= j
<1>1. PICK R : /\ IsWellFoundedOn(R, Nat)
               /\ \A x, y \in Nat : <<y, x>> \in R <=> y < x
  <2>1. \A x, y \in Nat : <<y, x>> \in OpToRel(<, Nat) <=> y < x
    BY Zenon DEF OpToRel
  <2> QED
    BY <2>1, NatLessThanWellFounded
<1>2. PICK x \in S : \A y \in S : ~ (<<y, x>> \in R)
  BY <1>1, WFMin, Zenon
<1>3. \A y \in S : ~ (y < x)
  BY <1>1, <1>2
<1> QED
  BY <1>3

\* Resolving an attempt changes that attempt only.
LEMMA ResolveOne ==
    ASSUME TypeOK, NEW r \in Routes, NEW n \in Attempts(r),
           NEW state \in Active \cup Resolved
    PROVE  /\ \A i \in Attempts(r) : i # n => Resolve(r, n, state)[i] = resv[r][i]
           /\ DOMAIN Resolve(r, n, state) = 1..Len(resv[r])
<1>1. resv[r] \in Seq(Reservation) /\ DOMAIN resv[r] = 1..Len(resv[r])
  BY DEF TypeOK
<1> QED
  BY <1>1 DEF Resolve, Attempts

\* Rejecting, missing or completing a reservation releases its slot.
LEMMA ReleaseAgrees ==
    ASSUME NEW R \in Reservations, NEW T \in SlotTable, SlotsAgree(R, T),
           NEW r \in Routes, NEW n \in 1..Len(R[r]), NEW Q \in Reservations,
           \A q \in Routes \ {r} : Q[q] = R[q],
           Len(Q[r]) = Len(R[r]),
           \A i \in 1..Len(R[r]) : i # n => Q[r][i] = R[r][i],
           Q[r][n].agent = R[r][n].agent,
           Q[r][n].state \in {"rejected", "timeout", "completed"}
    PROVE  SlotsAgree(Q, Release(T, <<r, n>>))
<1> DEFINE U == Release(T, <<r, n>>)
<1>1. n \in Nat /\ Len(R[r]) \in Nat
  BY DEF Reservations
<1>2. ASSUME NEW a \in Agents, NEW k \in SlotNos
      PROVE  /\ T[a][k].holder = <<r, n>> => U[a][k].holder = Null
             /\ T[a][k].holder # <<r, n>> => U[a][k] = T[a][k]
  BY DEF Release, FreeSlot
<1> HIDE DEF U
<1>3. ASSUME NEW a \in Agents, NEW k \in SlotNos PROVE Fits(Q, a, U[a][k])
  <2> SUFFICES ASSUME NEW q \in Routes, NEW m \in Nat, U[a][k].holder = <<q, m>>
               PROVE  /\ m \in 1..Len(Q[q])
                      /\ Q[q][m] = R[q][m]
                      /\ Fits(R, a, U[a][k])
    BY DEF Fits
  <2>1. U[a][k] = T[a][k] /\ <<q, m>> # <<r, n>>
    BY <1>1, <1>2, NullIsNoHolder
  <2>2. Fits(R, a, U[a][k])
    BY <2>1 DEF SlotsAgree
  <2>3. m \in 1..Len(R[q])
    BY <2>2 DEF Fits
  <2> QED
    BY <2>1, <2>2, <2>3
<1>4. Keeping(Q, U)
  <2> SUFFICES ASSUME NEW q \in Routes, NEW m \in 1..Len(Q[q]), Serves(Q[q][m])
               PROVE  \E k \in SlotNos : U[Q[q][m].agent][k].holder = <<q, m>>
    BY DEF Keeping
  <2>1. <<q, m>> # <<r, n>>
    BY DEF Serves
  <2>2. m \in 1..Len(R[q]) /\ Q[q][m] = R[q][m]
    BY <2>1
  <2>3. PICK k \in SlotNos : T[R[q][m].agent][k].holder = <<q, m>>
    BY <2>2 DEF SlotsAgree, Keeping
  <2> DEFINE b == R[q][m].agent
  <2>4. b \in Agents
    BY <2>2, ReservedAgent
  <2>5. T[b][k].holder = <<q, m>> /\ Q[q][m].agent = b
    BY <2>2, <2>3
  <2> HIDE DEF b
  <2>6. U[b][k] = T[b][k]
    BY <1>2, <2>1, <2>4, <2>5
  <2>7. U[b][k].holder = <<q, m>>
    BY <2>5, <2>6
  <2> QED
    BY <2>5, <2>7
<1>5. OneSlot(U)
  <2> SUFFICES ASSUME NEW a \in Agents, NEW j \in SlotNos, NEW k \in SlotNos,
                      U[a][j].holder # Null, U[a][j].holder = U[a][k].holder
               PROVE  j = k
    BY DEF OneSlot
  <2>1. U[a][j] = T[a][j] /\ U[a][k] = T[a][k]
    BY <1>2
  <2> QED
    BY <2>1 DEF SlotsAgree, OneSlot
<1>6. OffersRing(Q)
  <2> SUFFICES ASSUME NEW q \in Routes, NEW m \in 1..Len(Q[q]), Q[q][m].state = "offered"
               PROVE  Q[q][m].ttl \in Countdown(OfferTimeout)
    BY DEF OffersRing
  <2>1. m \in 1..Len(R[q]) /\ Q[q][m] = R[q][m]
    OBVIOUS
  <2> QED
    BY <2>1 DEF SlotsAgree, OffersRing
<1> QED
  BY <1>3, <1>4, <1>5, <1>6 DEF SlotsAgree, U

\* Accepting an offer whose hold is still there confirms it.
LEMMA ConfirmAgrees ==
    ASSUME NEW R \in Reservations, NEW T \in SlotTable, SlotsAgree(R, T),
           NEW r \in Routes, NEW n \in 1..Len(R[r]), NEW Q \in Reservations,
           \A q \in Routes \ {r} : Q[q] = R[q],
           Len(Q[r]) = Len(R[r]),
           \A i \in 1..Len(R[r]) : i # n => Q[r][i] = R[r][i],
           Q[r][n].agent = R[r][n].agent,
           Q[r][n].state = "accepted",
           \E k \in SlotNos : T[R[r][n].agent][k].holder = <<r, n>>
    PROVE  SlotsAgree(Q, Confirm(T, <<r, n>>))
<1> DEFINE U == Confirm(T, <<r, n>>)
<1>1. n \in Nat /\ Len(R[r]) \in Nat
  BY DEF Reservations
<1>2. ASSUME NEW a \in Agents, NEW k \in SlotNos
      PROVE  /\ T[a][k].holder = <<r, n>> => U[a][k].hold = Null
             /\ T[a][k].holder # <<r, n>> => U[a][k] = T[a][k]
             /\ U[a][k].holder = T[a][k].holder
  <2>1. T[a][k] \in SlotRow
    BY DEF SlotTable
  <2>2. [T[a][k] EXCEPT !.hold = Null].hold = Null /\ [T[a][k] EXCEPT !.hold = Null].holder = T[a][k].holder
    BY <2>1 DEF SlotRow
  <2> QED
    BY <2>2 DEF Confirm
<1> HIDE DEF U
<1>3. ASSUME NEW a \in Agents, NEW k \in SlotNos PROVE Fits(Q, a, U[a][k])
  <2> SUFFICES ASSUME NEW q \in Routes, NEW m \in Nat, U[a][k].holder = <<q, m>>
               PROVE  /\ m \in 1..Len(Q[q])
                      /\ Q[q][m].agent = a
                      /\ U[a][k].hold = Null => Q[q][m].state = "accepted"
                      /\ U[a][k].hold # Null =>
                             /\ Q[q][m].state = "offered"
                             /\ Q[q][m].ttl = IF Past(U[a][k].hold) THEN 0 ELSE U[a][k].hold
    BY DEF Fits
  <2>1. T[a][k].holder = <<q, m>> /\ Fits(R, a, T[a][k])
    BY <1>2 DEF SlotsAgree
  <2>2. /\ m \in 1..Len(R[q])
        /\ R[q][m].agent = a
    BY <2>1 DEF Fits
  <2>3. CASE <<q, m>> = <<r, n>>
    <3>1. q = r /\ m = n
      BY <2>3
    <3>2. U[a][k].hold = Null
      <4>1. T[a][k].holder = <<r, n>>
        BY <2>1, <2>3, Zenon
      <4> QED
        BY <1>2, <4>1
    <3> QED
      BY <2>2, <3>1, <3>2
  <2>4. CASE <<q, m>> # <<r, n>>
    <3>1. U[a][k] = T[a][k] /\ Q[q][m] = R[q][m] /\ m \in 1..Len(Q[q])
      BY <1>2, <2>1, <2>2, <2>4
    <3>2. /\ T[a][k].hold = Null => R[q][m].state = "accepted"
          /\ T[a][k].hold # Null =>
                 /\ R[q][m].state = "offered"
                 /\ R[q][m].ttl = IF Past(T[a][k].hold) THEN 0 ELSE T[a][k].hold
      BY <2>1 DEF Fits
    <3> QED
      BY <2>2, <3>1, <3>2
  <2> QED
    BY <2>3, <2>4
<1>4. Keeping(Q, U)
  <2> SUFFICES ASSUME NEW q \in Routes, NEW m \in 1..Len(Q[q]), Serves(Q[q][m])
               PROVE  \E k \in SlotNos : U[Q[q][m].agent][k].holder = <<q, m>>
    BY DEF Keeping
  <2>1. R[q][m].agent \in Agents /\ m \in 1..Len(R[q]) /\ Q[q][m].agent = R[q][m].agent
    BY ReservedAgent
  <2>2. CASE <<q, m>> = <<r, n>>
    <3>1. q = r /\ m = n
      BY <2>2
    <3>2. PICK k \in SlotNos : T[R[q][m].agent][k].holder = <<q, m>>
      BY <3>1
    <3>3. U[R[q][m].agent][k].holder = T[R[q][m].agent][k].holder
      BY <1>2, <2>1, Zenon
    <3> QED
      BY <2>1, <3>2, <3>3, Zenon
  <2>3. CASE <<q, m>> # <<r, n>>
    <3>1. Q[q][m] = R[q][m]
      BY <2>3
    <3>2. PICK k \in SlotNos : T[R[q][m].agent][k].holder = <<q, m>>
      BY <2>1, <3>1 DEF SlotsAgree, Keeping
    <3>3. U[R[q][m].agent][k].holder = T[R[q][m].agent][k].holder
      BY <1>2, <2>1, Zenon
    <3> QED
      BY <2>1, <3>2, <3>3, Zenon
  <2> QED
    BY <2>2, <2>3
<1>5. OneSlot(U)
  BY <1>2, SMTT(30) DEF SlotsAgree, OneSlot
<1>6. OffersRing(Q)
  <2> SUFFICES ASSUME NEW q \in Routes, NEW m \in 1..Len(Q[q]), Q[q][m].state = "offered"
               PROVE  Q[q][m].ttl \in Countdown(OfferTimeout)
    BY DEF OffersRing
  <2>1. m \in 1..Len(R[q]) /\ Q[q][m] = R[q][m]
    OBVIOUS
  <2> QED
    BY <2>1 DEF SlotsAgree, OffersRing
<1> QED
  BY <1>3, <1>4, <1>5, <1>6 DEF SlotsAgree, U

\* A new offer takes a free slot, with its own expiry.
LEMMA AcquireAgrees ==
    ASSUME NEW R \in Reservations, NEW T \in SlotTable, SlotsAgree(R, T),
           NEW r \in Routes, NEW a \in Agents, NEW ttl \in Countdown(OfferTimeout),
           FreeSlots(T, a) # {}
    PROVE  SlotsAgree([R EXCEPT ![r] = Append(R[r], Offer(a, ttl))],
                      Acquire(T, a, <<r, Len(R[r]) + 1>>, ttl))
<1> DEFINE n == Len(R[r]) + 1
           new == Append(R[r], Offer(a, ttl))
           Q == [R EXCEPT ![r] = new]
           k0 == CHOOSE k \in FreeSlots(T, a) : \A j \in FreeSlots(T, a) : k <= j
           row == [holder |-> <<r, n>>, hold |-> ttl]
           U == Acquire(T, a, <<r, n>>, ttl)
<1>1. /\ k0 \in SlotNos
      /\ T[a][k0].holder = Null
  <2>1. FreeSlots(T, a) \in SUBSET Nat
    BY DEF FreeSlots, SlotNos
  <2>2. k0 \in FreeSlots(T, a)
    BY <2>1, LeastOne
  <2> QED
    BY <2>2 DEF FreeSlots
<1>2. /\ R[r] \in Seq(Reservation)
      /\ Len(R[r]) \in Nat
      /\ n \in Nat
  BY DEF Reservations
<1>3. ttl \in 0..OfferTimeout /\ ttl # Null /\ ~Past(ttl)
  BY NullAssumption, EngineAssumption DEF Countdown, Past
<1>4. /\ new \in Seq(Reservation)
      /\ Len(new) = n
      /\ \A i \in 1..Len(R[r]) : new[i] = R[r][i]
      /\ new[n].agent = a
      /\ new[n].state = "offered"
  BY <1>2, <1>3, AppendedOffer
<1>5. new[n].ttl = ttl
  BY <1>2, AppendProperties DEF Offer
<1>6. row.holder = <<r, n>> /\ row.hold = ttl
  OBVIOUS
<1>7. U = [T EXCEPT ![a][k0] = row]
  BY DEF Acquire
<1> HIDE DEF n, new, k0, row, U
<1>8. /\ Q[r] = new
      /\ \A q \in Routes \ {r} : Q[q] = R[q]
  BY DEF Reservations
<1>9. /\ U[a][k0] = row
      /\ \A b \in Agents, k \in SlotNos : <<b, k>> # <<a, k0>> => U[b][k] = T[b][k]
  BY <1>1, <1>7 DEF SlotTable
<1> HIDE DEF Q
\* The attempt is new, so no slot is held for it yet.
<1>10. \A b \in Agents, k \in SlotNos : T[b][k].holder # <<r, n>>
  <2> SUFFICES ASSUME NEW b \in Agents, NEW k \in SlotNos, T[b][k].holder = <<r, n>>
               PROVE  FALSE
    OBVIOUS
  <2>1. Fits(R, b, T[b][k])
    BY DEF SlotsAgree
  <2>2. n \in 1..Len(R[r])
    BY <1>2, <2>1 DEF Fits
  <2> QED
    BY <1>2, <2>2 DEF n
<1>11. \A q \in Routes : \A m \in 1..Len(R[q]) : m \in 1..Len(Q[q]) /\ Q[q][m] = R[q][m]
  BY <1>2, <1>4, <1>8 DEF n
<1>12. \A q \in Routes : \A m \in 1..Len(Q[q]) :
           m \in 1..Len(R[q]) \/ (q = r /\ m = n)
  BY <1>2, <1>4, <1>8 DEF n
<1>13. ASSUME NEW b \in Agents, NEW k \in SlotNos PROVE Fits(Q, b, U[b][k])
  <2>1. CASE <<b, k>> = <<a, k0>>
    <3>1. U[b][k] = row /\ b = a
      BY <1>9, <2>1
    <3>2. n \in 1..Len(Q[r])
      BY <1>2, <1>4, <1>8 DEF n
    <3> SUFFICES ASSUME NEW q \in Routes, NEW m \in Nat, row.holder = <<q, m>>
                 PROVE  q = r /\ m = n
      BY <1>3, <1>4, <1>5, <1>6, <1>8, <3>1, <3>2 DEF Fits
    <3> QED
      BY <1>6
  <2>2. CASE <<b, k>> # <<a, k0>>
    <3>1. U[b][k] = T[b][k]
      BY <1>9, <2>2
    <3>2. Fits(R, b, T[b][k])
      BY DEF SlotsAgree
    <3> QED
      BY <1>11, <3>1, <3>2 DEF Fits
  <2> QED
    BY <2>1, <2>2
<1>14. Keeping(Q, U)
  <2> SUFFICES ASSUME NEW q \in Routes, NEW m \in 1..Len(Q[q]), Serves(Q[q][m])
               PROVE  \E k \in SlotNos : U[Q[q][m].agent][k].holder = <<q, m>>
    BY DEF Keeping
  <2>1. CASE q = r /\ m = n
    BY <1>1, <1>4, <1>6, <1>8, <1>9, <2>1
  <2>2. CASE m \in 1..Len(R[q])
    <3>1. Q[q][m] = R[q][m] /\ R[q][m].agent \in Agents /\ m \in Nat
      BY <1>11, <2>2, ReservedAgent
    <3>2. PICK k \in SlotNos : T[R[q][m].agent][k].holder = <<q, m>>
      BY <2>2, <3>1 DEF SlotsAgree, Keeping
    <3>3. <<R[q][m].agent, k>> # <<a, k0>>
      BY <1>1, <3>1, <3>2, NullIsNoHolder
    <3> QED
      BY <1>9, <3>1, <3>2, <3>3
  <2> QED
    BY <1>12, <2>1, <2>2
<1>15. OneSlot(U)
  <2> SUFFICES ASSUME NEW b \in Agents, NEW j \in SlotNos, NEW k \in SlotNos,
                      U[b][j].holder # Null, U[b][j].holder = U[b][k].holder
               PROVE  j = k
    BY DEF OneSlot
  <2>1. CASE b # a \/ (j # k0 /\ k # k0)
    <3>1. U[b][j] = T[b][j] /\ U[b][k] = T[b][k]
      BY <1>9, <2>1
    <3> QED
      BY <3>1 DEF SlotsAgree, OneSlot
  <2>2. CASE b = a /\ (j = k0 \/ k = k0)
    BY <1>6, <1>9, <1>10, <2>2
  <2> QED
    BY <2>1, <2>2
<1>16. OffersRing(Q)
  <2> SUFFICES ASSUME NEW q \in Routes, NEW m \in 1..Len(Q[q]), Q[q][m].state = "offered"
               PROVE  Q[q][m].ttl \in Countdown(OfferTimeout)
    BY DEF OffersRing
  <2>1. CASE q = r /\ m = n
    BY <1>5, <1>8, <2>1
  <2>2. CASE m \in 1..Len(R[q])
    BY <1>11, <2>2 DEF SlotsAgree, OffersRing
  <2> QED
    BY <1>12, <2>1, <2>2
<1>17. SlotsAgree(Q, U)
  BY <1>13, <1>14, <1>15, <1>16 DEF SlotsAgree
<1> QED
  BY <1>17 DEF Q, U, new, n

-----------------------------------------------------------------------------
(* Every transaction keeps the tables in agreement *)

SlotInv == SlotsAgree(resv, slots)

\* A run of the flow starts from tables that agree and leaves them so.
LEMMA FlowAgrees ==
    ASSUME TypeOK, NEW r \in Routes, NEW signal, NEW scripted,
           NEW rs \in Seq(Reservation), NEW table \in SlotTable, NEW pending,
           SlotsAgree([resv EXCEPT ![r] = rs], table),
           RunFlow(r, signal, scripted, rs, table, pending)
    PROVE  SlotInv'
<1> DEFINE R == [resv EXCEPT ![r] = rs]
<1>1. R \in Reservations /\ R[r] = rs
  BY DEF TypeOK, Reservations
<1>2. CASE resv' = R /\ slots' = table
  BY <1>2 DEF SlotInv
<1>3. ASSUME NEW n, NEW a \in Offerable(rs, table),
             OfferInline(r, n, a, rs, table, pending)
      PROVE  SlotInv'
  <2>1. /\ a \in Agents
        /\ FreeSlots(table, a) # {}
    BY <1>3 DEF Offerable, CandidatePool, TypeOK
  <2>2. OfferTimeout \in Countdown(OfferTimeout)
    BY EngineAssumption DEF Countdown
  <2>3. SlotsAgree([R EXCEPT ![r] = Append(R[r], Offer(a, OfferTimeout))],
                   Acquire(table, a, <<r, Len(R[r]) + 1>>, OfferTimeout))
    BY <1>1, <2>1, <2>2, AcquireAgrees
  <2>4. /\ resv' = [resv EXCEPT ![r] = Append(rs, Offer(a, OfferTimeout))]
        /\ slots' = Acquire(table, a, <<r, Len(rs) + 1>>, OfferTimeout)
    BY <1>3 DEF OfferInline
  <2>5. [R EXCEPT ![r] = Append(R[r], Offer(a, OfferTimeout))] = resv'
    BY <1>1, <2>4 DEF TypeOK
  <2> HIDE DEF R
  <2> QED
    BY <1>1, <2>3, <2>4, <2>5 DEF SlotInv
<1>4. ASSUME NEW status \in Terminal, Finish(r, status, rs, table, pending)
      PROVE  SlotInv'
  BY <1>2, <1>4 DEF Finish
<1>5. ASSUME NEW n, ParkOnTimer(r, n, rs, table, pending) \/ ParkForMatch(r, n, rs, table, pending)
      PROVE  SlotInv'
  BY <1>2, <1>5 DEF ParkOnTimer, ParkForMatch
<1> HIDE DEF R
<1> QED
  BY <1>3, <1>4, <1>5, RunFlowCases, Zenon

\* A run on the reservations as they are.
LEMMA RerunAgrees ==
    ASSUME TypeOK, SlotInv, NEW r \in Routes, NEW signal, NEW scripted, NEW pending,
           RunFlow(r, signal, scripted, resv[r], slots, pending)
    PROVE  SlotInv'
<1>1. resv[r] \in Seq(Reservation) /\ slots \in SlotTable
  BY DEF TypeOK
<1>2. [resv EXCEPT ![r] = resv[r]] = resv
  BY DEF TypeOK
<1> QED
  BY <1>1, <1>2, FlowAgrees DEF SlotInv

\* What resolving attempt n does to the table of reservations.
LEMMA ResolvedTable ==
    ASSUME TypeOK, NEW r \in Routes, NEW n \in Attempts(r),
           NEW state \in Active \cup Resolved
    PROVE  LET rs == Resolve(r, n, state)
               Q == [resv EXCEPT ![r] = rs]
           IN  /\ rs \in Seq(Reservation)
               /\ Q \in Reservations
               /\ \A q \in Routes \ {r} : Q[q] = resv[q]
               /\ Len(Q[r]) = Len(resv[r])
               /\ \A i \in 1..Len(resv[r]) : i # n => Q[r][i] = resv[r][i]
               /\ Q[r][n].agent = resv[r][n].agent
               /\ Q[r][n].state = state
<1> DEFINE rs == Resolve(r, n, state)
           Q == [resv EXCEPT ![r] = rs]
<1>1. /\ rs \in Seq(Reservation)
      /\ Len(rs) = Len(resv[r])
      /\ rs[n].agent = resv[r][n].agent
      /\ rs[n].state = state
  BY ResolveShape
<1>2. \A i \in 1..Len(resv[r]) : i # n => rs[i] = resv[r][i]
  BY ResolveOne DEF Attempts
<1> HIDE DEF rs
<1>3. Q \in Reservations /\ Q[r] = rs /\ \A q \in Routes \ {r} : Q[q] = resv[q]
  BY <1>1 DEF TypeOK, Reservations
<1> HIDE DEF Q
<1> QED
  BY <1>1, <1>2, <1>3 DEF Q, rs

\* Rejecting, missing or completing: the slot goes with the reservation.
LEMMA ReleasedAgrees ==
    ASSUME TypeOK, SlotInv, NEW r \in Routes, NEW n \in Attempts(r),
           NEW state \in {"rejected", "timeout", "completed"}
    PROVE  SlotsAgree([resv EXCEPT ![r] = Resolve(r, n, state)], Release(slots, <<r, n>>))
<1>1. state \in Active \cup Resolved
  BY DEF Active, Resolved
<1>2. n \in 1..Len(resv[r]) /\ resv \in Reservations /\ slots \in SlotTable
  BY DEF Attempts, TypeOK, Reservations
<1> DEFINE Q == [resv EXCEPT ![r] = Resolve(r, n, state)]
<1>3. /\ Q \in Reservations
      /\ \A q \in Routes \ {r} : Q[q] = resv[q]
      /\ Len(Q[r]) = Len(resv[r])
      /\ \A i \in 1..Len(resv[r]) : i # n => Q[r][i] = resv[r][i]
      /\ Q[r][n].agent = resv[r][n].agent
      /\ Q[r][n].state = state
  BY <1>1, ResolvedTable
<1> HIDE DEF Q
<1>4. SlotsAgree(Q, Release(slots, <<r, n>>))
  BY <1>2, <1>3, ReleaseAgrees DEF SlotInv
<1> QED
  BY <1>4 DEF Q

\* Accepting: the hold found by the guard is confirmed.
LEMMA ConfirmedAgrees ==
    ASSUME TypeOK, SlotInv, NEW r \in Routes, NEW n \in Attempts(r),
           Confirmable(resv[r][n].agent, <<r, n>>)
    PROVE  SlotsAgree([resv EXCEPT ![r] = Resolve(r, n, "accepted")], Confirm(slots, <<r, n>>))
<1>1. "accepted" \in Active \cup Resolved
  BY DEF Active
<1>2. n \in 1..Len(resv[r]) /\ resv \in Reservations /\ slots \in SlotTable
  BY DEF Attempts, TypeOK, Reservations
<1> DEFINE Q == [resv EXCEPT ![r] = Resolve(r, n, "accepted")]
<1>3. /\ Q \in Reservations
      /\ \A q \in Routes \ {r} : Q[q] = resv[q]
      /\ Len(Q[r]) = Len(resv[r])
      /\ \A i \in 1..Len(resv[r]) : i # n => Q[r][i] = resv[r][i]
      /\ Q[r][n].agent = resv[r][n].agent
      /\ Q[r][n].state = "accepted"
  BY <1>1, ResolvedTable
<1> HIDE DEF Q
<1>4. SlotsAgree(Q, Confirm(slots, <<r, n>>))
  BY <1>2, <1>3, ConfirmAgrees DEF SlotInv, Confirmable
<1> QED
  BY <1>4 DEF Q

\* The sweeps free only what no live reservation holds: by Fits, an elapsed hold.
LEMMA SweepAgrees ==
    ASSUME TypeOK, SlotInv, SweepCapacity
    PROVE  SlotInv'
<1>1. ASSUME NEW a \in Agents, NEW k \in SlotNos
      PROVE  \/ slots'[a][k] = slots[a][k]
             \/ slots'[a][k].holder = Null /\ Reclaimable(slots[a][k])
  BY DEF SweepCapacity, FreeSlot
<1>2. resv' = resv
  BY DEF SweepCapacity
<1>3. ASSUME NEW a \in Agents, NEW k \in SlotNos PROVE Fits(resv, a, slots'[a][k])
  <2>1. Fits(resv, a, slots[a][k])
    BY DEF SlotInv, SlotsAgree
  <2> QED
    BY <1>1, <2>1, NullIsNoHolder DEF Fits
<1>4. ASSUME NEW r \in Routes, NEW n \in 1..Len(resv[r]), Serves(resv[r][n])
      PROVE  \E k \in SlotNos : slots'[resv[r][n].agent][k].holder = <<r, n>>
  <2> DEFINE a == resv[r][n].agent
  <2>1. resv \in Reservations /\ n \in Nat
    BY DEF TypeOK, Reservations
  <2>2. a \in Agents
    BY <2>1, ReservedAgent
  <2>3. PICK k \in SlotNos : slots[a][k].holder = <<r, n>>
    BY <1>4 DEF SlotInv, SlotsAgree, Keeping
  <2>4. Fits(resv, a, slots[a][k])
    BY <2>2 DEF SlotInv, SlotsAgree
  <2>5. /\ slots[a][k].hold = Null => resv[r][n].state = "accepted"
        /\ slots[a][k].hold # Null =>
               /\ resv[r][n].state = "offered"
               /\ resv[r][n].ttl = IF Past(slots[a][k].hold) THEN 0 ELSE slots[a][k].hold
    BY <2>1, <2>3, <2>4 DEF Fits
  <2>6. ~Reclaimable(slots[a][k])
    <3>1. <<r, n>>[1] = r /\ <<r, n>>[2] = n
      OBVIOUS
    <3>2. resv[r][n].state \in {"offered", "accepted"}
      BY <2>5
    <3>3. ~(slots[a][k].hold # Null /\ Past(slots[a][k].hold))
      BY <1>4, <2>5 DEF Serves, Ahead
    <3> QED
      BY <2>3, <3>1, <3>2, <3>3 DEF Reclaimable
  <2> QED
    BY <1>1, <2>2, <2>3, <2>6
<1>5. ASSUME NEW a \in Agents, NEW j \in SlotNos, NEW k \in SlotNos,
             slots'[a][j].holder # Null, slots'[a][j].holder = slots'[a][k].holder
      PROVE  j = k
  <2>1. slots'[a][j] = slots[a][j] /\ slots'[a][k] = slots[a][k]
    BY <1>1, <1>5
  <2> QED
    BY <1>5, <2>1 DEF SlotInv, SlotsAgree, OneSlot
<1> QED
  BY <1>2, <1>3, <1>4, <1>5 DEF SlotInv, SlotsAgree, Keeping, OneSlot

\* The matcher's claim adds an offer and holds its slot.
LEMMA MatcherAgrees ==
    ASSUME IInv, SlotInv, NEW r \in Routes, NEW a \in Agents, MatcherOffer(r, a)
    PROVE  SlotInv'
<1>1. resv \in Reservations /\ slots \in SlotTable /\ Len(resv[r]) \in Nat
  BY DEF IInv, TypeOK, Reservations
<1>2. OfferWindow(r) \in Countdown(OfferTimeout)
  <2>1. route[r].deadline \in Countdown(MatchDeadline) \cup {Null}
    BY DEF IInv, TypeOK, RouteRow
  <2>2. route[r].deadline # Null
    BY DEF MatcherOffer, Claimable, IInv, RouteInv, QueueRemembers
  <2> QED
    BY <2>1, <2>2, EngineAssumption DEF OfferWindow, Countdown
\* The attempt number it uses is not taken, and so it is the next.
<1>3. NextAttempt(r) = Len(resv[r]) + 1
  <2>1. /\ route[r].match_attempt_seq \in Nat
        /\ route[r].match_attempt_seq <= Len(resv[r])
    BY DEF IInv, TypeOK, RouteRow
  <2>2. NextAttempt(r) \notin 1..Len(resv[r])
    BY DEF MatcherOffer, Insertable, Attempts
  <2> QED
    BY <1>1, <2>1, <2>2 DEF NextAttempt
<1>4. /\ resv' = [resv EXCEPT ![r] = Append(resv[r], Offer(a, OfferWindow(r)))]
      /\ slots' = Acquire(slots, a, <<r, NextAttempt(r)>>, OfferWindow(r))
      /\ FreeSlots(slots, a) # {}
  BY DEF MatcherOffer
<1> QED
  BY <1>1, <1>2, <1>3, <1>4, AcquireAgrees DEF SlotInv

\* Time passes alike for an offer and for its hold.
LEMMA TickAgrees ==
    ASSUME IInv, SlotInv, Tick
    PROVE  SlotInv'
<1>1. ASSUME NEW r \in Routes
      PROVE  /\ Len(resv'[r]) = Len(resv[r])
             /\ \A n \in 1..Len(resv[r]) :
                    /\ resv'[r][n].agent = resv[r][n].agent
                    /\ resv'[r][n].state = resv[r][n].state
                    /\ resv'[r][n].ttl = Pass(resv[r][n].ttl)
  BY TickKeeps, TickRings
<1>2. ASSUME NEW a \in Agents, NEW k \in SlotNos
      PROVE  /\ slots'[a][k].holder = slots[a][k].holder
             /\ slots'[a][k].hold = PassBy(slots[a][k].hold)
             /\ slots[a][k].hold \in (-1..OfferTimeout) \cup {Null}
  <2>1. slots[a][k] \in SlotRow
    BY DEF IInv, TypeOK, SlotTable
  <2>2. slots'[a][k] = [slots[a][k] EXCEPT !.hold = PassBy(slots[a][k].hold)]
    BY DEF Tick
  <2> QED
    BY <2>1, <2>2 DEF SlotRow
<1>3. ASSUME NEW a \in Agents, NEW k \in SlotNos PROVE Fits(resv', a, slots'[a][k])
  <2> SUFFICES ASSUME NEW r \in Routes, NEW n \in Nat, slots'[a][k].holder = <<r, n>>
               PROVE  /\ n \in 1..Len(resv'[r])
                      /\ resv'[r][n].agent = a
                      /\ slots'[a][k].hold = Null => resv'[r][n].state = "accepted"
                      /\ slots'[a][k].hold # Null =>
                             /\ resv'[r][n].state = "offered"
                             /\ resv'[r][n].ttl = IF Past(slots'[a][k].hold)
                                                  THEN 0 ELSE slots'[a][k].hold
    BY DEF Fits
  <2>1. Fits(resv, a, slots[a][k])
    BY DEF SlotInv, SlotsAgree
  <2>2. /\ n \in 1..Len(resv[r])
        /\ resv[r][n].agent = a
        /\ slots[a][k].hold = Null => resv[r][n].state = "accepted"
        /\ slots[a][k].hold # Null =>
               /\ resv[r][n].state = "offered"
               /\ resv[r][n].ttl = IF Past(slots[a][k].hold) THEN 0 ELSE slots[a][k].hold
    BY <1>2, <2>1 DEF Fits
  <2>3. slots'[a][k].hold = Null <=> slots[a][k].hold = Null
    BY <1>2, NullAssumption DEF PassBy
  <2>4. CASE slots[a][k].hold = Null
    BY <1>1, <2>2, <2>3, <2>4
  <2>5. CASE slots[a][k].hold # Null
    <3> DEFINE h == slots[a][k].hold
               l == resv[r][n].ttl
    <3>1. h \in -1..OfferTimeout /\ l = IF Past(h) THEN 0 ELSE h
      BY <1>2, <2>2, <2>5
    <3>2. h # Null /\ l # Null
      BY <3>1, NullAssumption, EngineAssumption DEF Past
    <3> HIDE DEF h, l
    <3>3. Pass(l) = IF Past(PassBy(h)) THEN 0 ELSE PassBy(h)
      BY <3>1, <3>2, EngineAssumption DEF Pass, PassBy, Past
    <3> QED
      BY <1>1, <1>2, <2>2, <2>3, <2>5, <3>3 DEF h, l
  <2> QED
    BY <2>4, <2>5
<1>4. resv \in Reservations
  BY DEF IInv, TypeOK, Reservations
<1>5. ASSUME NEW r \in Routes, NEW n \in 1..Len(resv[r]), resv[r][n].state = "offered"
      PROVE  /\ resv'[r][n].ttl \in Countdown(OfferTimeout)
             /\ Ahead(resv'[r][n].ttl) => Ahead(resv[r][n].ttl)
  <2>1. resv[r][n].ttl \in 0..OfferTimeout
    BY <1>5 DEF SlotInv, SlotsAgree, OffersRing, Countdown
  <2>2. resv'[r][n].ttl = Pass(resv[r][n].ttl)
    BY <1>1, <1>5
  <2> QED
    BY <2>1, <2>2, EngineAssumption DEF Pass, Ahead, Countdown
<1>6. ASSUME NEW r \in Routes, NEW n \in 1..Len(resv'[r]), Serves(resv'[r][n])
      PROVE  \E k \in SlotNos : slots'[resv'[r][n].agent][k].holder = <<r, n>>
  <2>1. /\ n \in 1..Len(resv[r])
        /\ resv'[r][n].agent = resv[r][n].agent
        /\ resv'[r][n].state = resv[r][n].state
    BY <1>1
  <2>2. Serves(resv[r][n])
    BY <1>5, <1>6, <2>1 DEF Serves
  <2>3. PICK k \in SlotNos : slots[resv[r][n].agent][k].holder = <<r, n>>
    BY <2>1, <2>2 DEF SlotInv, SlotsAgree, Keeping
  <2>4. resv[r][n].agent \in Agents
    BY <1>4, <2>1, ReservedAgent
  <2> QED
    BY <1>2, <2>1, <2>3, <2>4
<1>7. OneSlot(slots')
  BY <1>2 DEF SlotInv, SlotsAgree, OneSlot
<1>8. OffersRing(resv')
  BY <1>1, <1>5 DEF OffersRing
<1> QED
  BY <1>3, <1>6, <1>7, <1>8 DEF SlotInv, SlotsAgree, Keeping

\* One case per action of Next.
LEMMA NextAgrees == IInv /\ SlotInv /\ [Next]_vars => SlotInv'
<1> SUFFICES ASSUME IInv, SlotInv, [Next]_vars PROVE SlotInv'
  OBVIOUS
<1>1. TypeOK
  BY DEF IInv
<1>2. ASSUME UNCHANGED <<resv, slots>> PROVE SlotInv'
  BY <1>2 DEF SlotInv
<1>3. ASSUME NEW r \in Routes, CreateRouteRequest(r) PROVE SlotInv'
  BY <1>1, <1>3, RerunAgrees DEF CreateRouteRequest
<1>4. ASSUME NEW r \in Routes, NEW n \in Attempts(r), AcceptReservation(r, n)
      PROVE  SlotInv'
  <2>1. "accepted" \in Active \cup Resolved
    BY DEF Active
  <2>2. Resolve(r, n, "accepted") \in Seq(Reservation)
    BY <1>1, <2>1, ResolveShape
  <2>3. Confirm(slots, <<r, n>>) \in SlotTable
    BY ConfirmTable DEF IInv, TypeOK
  <2>4. SlotsAgree([resv EXCEPT ![r] = Resolve(r, n, "accepted")], Confirm(slots, <<r, n>>))
    BY <1>1, <1>4, ConfirmedAgrees DEF AcceptReservation
  <2> QED
    BY <1>1, <1>4, <2>2, <2>3, <2>4, FlowAgrees DEF AcceptReservation, Resume
<1>5. ASSUME NEW r \in Routes, NEW n \in Attempts(r), RejectReservation(r, n)
      PROVE  SlotInv'
  <2>1. "rejected" \in Active \cup Resolved
    BY DEF Resolved
  <2>2. Resolve(r, n, "rejected") \in Seq(Reservation)
    BY <1>1, <2>1, ResolveShape
  <2>3. Release(slots, <<r, n>>) \in SlotTable
    BY ReleaseTable DEF IInv, TypeOK
  <2>4. SlotsAgree([resv EXCEPT ![r] = Resolve(r, n, "rejected")], Release(slots, <<r, n>>))
    BY <1>1, ReleasedAgrees
  <2> QED
    BY <1>1, <1>5, <2>2, <2>3, <2>4, FlowAgrees DEF RejectReservation, Resume
<1>6. ASSUME NEW r \in Routes, NEW n \in Attempts(r), CompleteReservation(r, n)
      PROVE  SlotInv'
  BY <1>1, <1>6, ReleasedAgrees DEF CompleteReservation, SlotInv
<1>7. ASSUME NEW r \in Routes, SubmitRouteInput(r) PROVE SlotInv'
  BY <1>1, <1>7, RerunAgrees DEF SubmitRouteInput
<1>8. ASSUME NEW t \in timers, FireReservationTimeout(t) PROVE SlotInv'
  <2> DEFINE r == t.route
             n == t.attempt
  <2>1. /\ r \in Routes
        /\ n \in Attempts(r)
    BY <1>8 DEF FireReservationTimeout, IInv, TypeOK, Timer, TimerInv
  <2>2. RunFlow(r, "timeout", FALSE, Resolve(r, n, "timeout"),
                Release(slots, <<r, n>>), timers \ {t})
    BY <1>8 DEF FireReservationTimeout, Resume
  <2> HIDE DEF r, n
  <2>3. "timeout" \in Active \cup Resolved
    BY DEF Resolved
  <2>4. Resolve(r, n, "timeout") \in Seq(Reservation)
    BY <1>1, <2>1, <2>3, ResolveShape
  <2>5. Release(slots, <<r, n>>) \in SlotTable
    BY ReleaseTable DEF IInv, TypeOK
  <2>6. SlotsAgree([resv EXCEPT ![r] = Resolve(r, n, "timeout")], Release(slots, <<r, n>>))
    BY <1>1, <2>1, ReleasedAgrees
  <2> QED
    BY <1>1, <2>1, <2>2, <2>4, <2>5, <2>6, FlowAgrees
<1>9. ASSUME NEW t \in timers, FireWait(t) PROVE SlotInv'
  <2>1. t.route \in Routes
    BY <1>1 DEF TypeOK, Timer
  <2> QED
    BY <1>1, <1>9, <2>1, RerunAgrees DEF FireWait, Resume
<1>10. CASE SweepCapacity
  BY <1>1, <1>10, SweepAgrees
<1>11. ASSUME NEW r \in Routes, NEW a \in Agents, MatcherOffer(r, a) PROVE SlotInv'
  BY <1>11, MatcherAgrees
<1>12. ASSUME NEW r \in Routes, FallbackExpiredRoute(r) PROVE SlotInv'
  BY <1>1, <1>12, RerunAgrees DEF FallbackExpiredRoute, Resume
<1>13. CASE Tick
  BY <1>13, TickAgrees
<1>14. ASSUME \/ \E r \in Routes : CreateUnboundRoute(r)
              \/ \E t \in timers : DropStaleTimer(t)
              \/ \E a \in Agents, to \in Statuses : PatchAgentStatus(a, to)
              \/ \E a \in Agents : ExpireWrapUp(a) \/ Connect(a) \/ Disconnect(a)
              \/ UNCHANGED vars
       PROVE  SlotInv'
  BY <1>2, <1>14 DEF CreateUnboundRoute, DropStaleTimer, PatchAgentStatus, ExpireWrapUp,
                     Connect, Disconnect, vars
<1> QED
  BY <1>3, <1>4, <1>5, <1>6, <1>7, <1>8, <1>9, <1>10, <1>11, <1>12, <1>13, <1>14 DEF Next

\* At first there is no reservation, and no slot is held.
LEMMA InitAgrees == Init => SlotInv
<1> SUFFICES ASSUME Init PROVE SlotInv
  OBVIOUS
<1>1. \A r \in Routes : 1..Len(resv[r]) = {}
  BY DEF Init
<1>2. \A a \in Agents, k \in SlotNos : slots[a][k].holder = Null
  BY DEF Init, FreeSlot
<1> QED
  BY <1>1, <1>2, NullIsNoHolder DEF SlotInv, SlotsAgree, Fits, Keeping, OneSlot, OffersRing

\* The slot table and the reservations agree in every reachable state.
THEOREM SlotInvariance == Spec => []SlotInv
<1> QED
  BY Invariance, InitAgrees, NextAgrees, PTL DEF Spec

-----------------------------------------------------------------------------
(* What the invariant says of the code *)

\* A slot is held for a reservation of its own agent, pending with the offer's own
\* expiry or confirmed and accepted, whatever is answered, missed or swept.
THEOREM SlotsFollowReservations == Spec => []SlotFollowsReservation
<1>1. IInv /\ SlotInv => SlotFollowsReservation
  <2> SUFFICES ASSUME IInv, SlotInv, NEW a \in Agents, NEW k \in SlotNos,
                      slots[a][k].holder # Null
               PROVE  LET r == slots[a][k].holder[1]
                          n == slots[a][k].holder[2]
                      IN  /\ n \in Attempts(r)
                          /\ resv[r][n].agent = a
                          /\ IF slots[a][k].hold = Null
                             THEN resv[r][n].state = "accepted"
                             ELSE /\ resv[r][n].state = "offered"
                                  /\ resv[r][n].ttl =
                                         IF Past(slots[a][k].hold) THEN 0 ELSE slots[a][k].hold
    BY DEF SlotFollowsReservation
  <2>1. slots[a][k] \in SlotRow
    BY DEF IInv, TypeOK, SlotTable
  <2>2. PICK r \in Routes, n \in Nat : slots[a][k].holder = <<r, n>>
    BY <2>1 DEF SlotRow
  <2>3. Fits(resv, a, slots[a][k])
    BY DEF SlotInv, SlotsAgree
  <2> QED
    BY <2>2, <2>3 DEF Fits, Attempts
<1> QED
  BY <1>1, Invariance, SlotInvariance, PTL

\* An accept in time always finds its hold, and a live interaction its slot.
THEOREM LiveReservationsKeepSlots == Spec => []LiveKeepsSlot
<1>1. SlotInv => LiveKeepsSlot
  BY DEF SlotInv, SlotsAgree, Keeping, Serves, LiveKeepsSlot, Holds, Attempts
<1> QED
  BY <1>1, SlotInvariance, PTL

\* No agent has more live interactions than the channel's capacity: each has a
\* slot, and a slot has one holder.
THEOREM CapacityIsRespected == Spec => []CapacityRespected
<1>1. ASSUME IInv, SlotInv, NEW a \in Agents
      PROVE  Cardinality(LiveInteractions(a)) <= Capacity
  <2> DEFINE Live == LiveInteractions(a)
             SlotOf == [x \in Live |-> CHOOSE k \in SlotNos : slots[a][k].holder = x]
  <2>1. ASSUME NEW x \in Live
        PROVE  \E k \in SlotNos : slots[a][k].holder = x
    <3>1. PICK r \in Routes : \E n \in Attempts(r) : /\ x = <<r, n>>
                                                     /\ resv[r][n].agent = a
                                                     /\ resv[r][n].state = "accepted"
      BY <2>1 DEF LiveInteractions
    <3>2. PICK n \in Attempts(r) : /\ x = <<r, n>>
                                   /\ resv[r][n].agent = a
                                   /\ resv[r][n].state = "accepted"
      BY <3>1
    <3> QED
      BY <1>1, <3>1, <3>2 DEF SlotInv, SlotsAgree, Keeping, Serves, Attempts
  <2> HIDE DEF Live
  <2>2. \A x \in Live : SlotOf[x] \in SlotNos /\ slots[a][SlotOf[x]].holder = x
    BY <2>1
  <2>3. SlotOf \in Injection(Live, SlotNos)
    BY <2>2 DEF Injection, IsInjective
  <2>4. IsFiniteSet(SlotNos) /\ Cardinality(SlotNos) = Capacity
    BY FS_Interval, EngineAssumption DEF SlotNos
  <2>5. Cardinality(Live) <= Cardinality(SlotNos)
    BY <2>3, <2>4, FS_Injection
  <2> QED
    BY <2>4, <2>5 DEF Live
<1>2. IInv /\ SlotInv => CapacityRespected
  BY <1>1 DEF CapacityRespected, SlotInv, SlotsAgree, OneSlot
<1> QED
  BY <1>2, Invariance, SlotInvariance, PTL

-----------------------------------------------------------------------------
(* What Assignment sees of a route *)

Won == {"accepted", "completed"}

AgentFrom(rs, states) ==
    IF AgentsIn(rs, states) = {} THEN Null
    ELSE CHOOSE a \in AgentsIn(rs, states) : TRUE

Asking(rs) == AgentFrom(rs, {"offered"})

Winner(rs) == AgentFrom(rs, Won)

Live(rs) == \E n \in 1..Len(rs) : rs[n].state = "accepted"

Ended(row) == row.status \in Terminal

\* Only route r looks different after the step.
OnlyOf(r) ==
    \A q \in Routes \ {r} : /\ resv'[q] = resv[q]
                            /\ Ended(route'[q]) <=> Ended(route[q])

\* The agent of the one reservation in one of the states ...
LEMMA TheAgent ==
    ASSUME NEW rs, NEW states, NEW n \in DOMAIN rs, rs[n].state \in states,
           \A i \in DOMAIN rs : rs[i].state \in states => i = n
    PROVE  AgentFrom(rs, states) = rs[n].agent
<1>1. AgentsIn(rs, states) = {rs[n].agent}
  BY DEF AgentsIn
<1> QED
  BY <1>1 DEF AgentFrom

\* ... or nobody.
LEMMA NoAgent ==
    ASSUME NEW rs, NEW states, \A i \in DOMAIN rs : rs[i].state \notin states
    PROVE  AgentFrom(rs, states) = Null
<1>1. AgentsIn(rs, states) = {}
  BY DEF AgentsIn
<1> QED
  BY <1>1 DEF AgentFrom

\* Reservations that agree on who is in the states have the same agent there.
LEMMA SameAgent ==
    ASSUME NEW rs, NEW new, NEW states, DOMAIN rs \subseteq DOMAIN new,
           \A i \in DOMAIN rs : new[i].agent = rs[i].agent,
           \A i \in DOMAIN new :
               new[i].state \in states <=> i \in DOMAIN rs /\ rs[i].state \in states
    PROVE  AgentFrom(new, states) = AgentFrom(rs, states)
<1>1. AgentsIn(new, states) = AgentsIn(rs, states)
  <2>1. {m \in DOMAIN new : new[m].state \in states} = {m \in DOMAIN rs : rs[m].state \in states}
    OBVIOUS
  <2> QED
    BY <2>1 DEF AgentsIn
<1> QED
  BY <1>1 DEF AgentFrom

\* So have those that only change states none of which is one of them.
LEMMA AgentKept ==
    ASSUME NEW rs, NEW new, NEW states, NEW n, DOMAIN rs = 1..n, DOMAIN new = 1..n,
           \A i \in 1..n : /\ new[i].agent = rs[i].agent
                           /\ new[i].state \in states <=> rs[i].state \in states
    PROVE  AgentFrom(new, states) = AgentFrom(rs, states)
<1>1. DOMAIN rs \subseteq DOMAIN new /\ \A i \in DOMAIN rs : new[i].agent = rs[i].agent
  OBVIOUS
<1>2. \A i \in DOMAIN new :
          new[i].state \in states <=> i \in DOMAIN rs /\ rs[i].state \in states
  OBVIOUS
<1> QED
  BY <1>1, <1>2, SameAgent

\* A route that moves on asks one more agent, or nobody.
LEMMA AdvanceMaps ==
    ASSUME NEW r \in Routes, OnlyOf(r), ~ Ended(route[r]),
           Winner(resv'[r]) = Winner(resv[r]),
           Live(resv'[r]) <=> Live(resv[r]),
           \/ /\ Winner(resv[r]) = Null
              /\ \E a \in Agents \ OfferedAgents(resv[r]) :
                     /\ Asking(resv'[r]) = a
                     /\ OfferedAgents(resv'[r]) = OfferedAgents(resv[r]) \cup {a}
              /\ ~ Ended(route'[r])
           \/ /\ Asking(resv'[r]) = Null
              /\ OfferedAgents(resv'[r]) = OfferedAgents(resv[r])
    PROVE  A!Advance(r)
<1> DEFINE asked  == [q \in Routes |-> OfferedAgents(resv[q])]
           asking == [q \in Routes |-> AgentOf(q, {"offered"})]
           winner == [q \in Routes |-> AgentOf(q, {"accepted", "completed"})]
           serving == {q \in Routes : InState(q, "accepted")}
           ended  == {q \in Routes : route[q].status \in Terminal}
<1>1. \A q \in Routes : /\ asked[q] = OfferedAgents(resv[q])
                        /\ asked'[q] = OfferedAgents(resv'[q])
                        /\ asking[q] = Asking(resv[q])
                        /\ asking'[q] = Asking(resv'[q])
                        /\ winner[q] = Winner(resv[q])
                        /\ winner'[q] = Winner(resv'[q])
                        /\ q \in serving <=> Live(resv[q])
                        /\ q \in serving' <=> Live(resv'[q])
                        /\ q \in ended <=> Ended(route[q])
                        /\ q \in ended' <=> Ended(route'[q])
  BY DEF AgentOf, Asking, Winner, Won, AgentFrom, InState, Attempts, Live, Ended
<1>2. /\ asked = [q \in Routes |-> asked[q]] /\ asked' = [q \in Routes |-> asked'[q]]
      /\ asking = [q \in Routes |-> asking[q]] /\ asking' = [q \in Routes |-> asking'[q]]
      /\ winner = [q \in Routes |-> winner[q]] /\ winner' = [q \in Routes |-> winner'[q]]
      /\ serving \subseteq Routes /\ serving' \subseteq Routes
      /\ ended \subseteq Routes /\ ended' \subseteq Routes
  OBVIOUS
<1>3. A!Advance(r) <=>
        /\ r \notin ended
        /\ \/ /\ winner[r] = Null
              /\ \E a \in Agents \ asked[r] :
                    /\ asking' = [asking EXCEPT ![r] = a]
                    /\ asked' = [asked EXCEPT ![r] = @ \cup {a}]
              /\ ended' = ended
           \/ /\ asking' = [asking EXCEPT ![r] = Null]
              /\ asked' = asked
              /\ ended' \in {ended, ended \cup {r}}
        /\ winner' = winner /\ serving' = serving
  BY DEF A!Advance, A!Ask, A!Rest
<1> HIDE DEF asked, asking, winner, serving, ended
<1>4. r \notin ended /\ winner' = winner /\ serving' = serving
  <2>1. \A q \in Routes : winner'[q] = winner[q] /\ (q \in serving' <=> q \in serving)
    BY <1>1 DEF OnlyOf
  <2> QED
    BY <1>1, <1>2, <2>1
<1>5. CASE /\ Winner(resv[r]) = Null
           /\ \E a \in Agents \ OfferedAgents(resv[r]) :
                  /\ Asking(resv'[r]) = a
                  /\ OfferedAgents(resv'[r]) = OfferedAgents(resv[r]) \cup {a}
           /\ ~ Ended(route'[r])
  <2>1. PICK a \in Agents \ asked[r] :
           asking'[r] = a /\ asked'[r] = asked[r] \cup {a}
    BY <1>1, <1>5
  <2>2. asking' = [asking EXCEPT ![r] = a] /\ asked' = [asked EXCEPT ![r] = @ \cup {a}]
    <3>1. \A q \in Routes : asking'[q] = IF q = r THEN a ELSE asking[q]
      BY <1>1, <2>1 DEF OnlyOf
    <3>2. \A q \in Routes \ {r} : asked'[q] = asked[q]
      BY <1>1 DEF OnlyOf
    <3> DEFINE more == asked[r] \cup {a}
    <3>3. asked'[r] = more
      BY <2>1
    <3> HIDE DEF more
    <3>4. asked' = [asked EXCEPT ![r] = more]
      BY <1>2, <3>2, <3>3
    <3> QED
      BY <1>2, <3>1, <3>4 DEF more
  <2>3. ended' = ended
    <3>1. \A q \in Routes : q \in ended' <=> q \in ended
      BY <1>1, <1>5 DEF OnlyOf
    <3> QED
      BY <1>2, <3>1
  <2> QED
    BY <1>1, <1>3, <1>4, <1>5, <2>1, <2>2, <2>3
<1>6. CASE /\ Asking(resv'[r]) = Null
           /\ OfferedAgents(resv'[r]) = OfferedAgents(resv[r])
  <2>1. asking' = [asking EXCEPT ![r] = Null] /\ asked' = asked
    <3>1. \A q \in Routes : asking'[q] = IF q = r THEN Null ELSE asking[q]
      BY <1>1, <1>6 DEF OnlyOf
    <3>2. \A q \in Routes : asked'[q] = asked[q]
      BY <1>1, <1>6 DEF OnlyOf
    <3> QED
      BY <1>2, <3>1, <3>2
  <2>2. ended' \in {ended, ended \cup {r}}
    <3>1. \A q \in Routes \ {r} : q \in ended' <=> q \in ended
      BY <1>1 DEF OnlyOf
    <3> QED
      BY <1>2, <1>4, <3>1
  <2> QED
    BY <1>3, <1>4, <2>1, <2>2
<1> QED
  BY <1>5, <1>6

\* Both modules mean the same by a cardinality.
LEMMA SameCardinality ==
    ASSUME NEW S
    PROVE  A!Cardinality(S) = Cardinality(S)
BY DEF A!Cardinality, Cardinality

\* An offer that is accepted makes its agent the winner, and its route one that is
\* served, if the agent has room for it.
LEMMA AcceptMaps ==
    ASSUME NEW r \in Routes, OnlyOf(r), ~ Ended(route[r]),
           NEW a, a # Null, Asking(resv[r]) = a, Winner(resv[r]) = Null,
           Cardinality({q \in Routes : Live(resv[q]) /\ Winner(resv[q]) = a}) < Capacity,
           Winner(resv'[r]) = a, Live(resv'[r]), Asking(resv'[r]) = Null,
           OfferedAgents(resv'[r]) = OfferedAgents(resv[r])
    PROVE  A!Accept(r)
<1> DEFINE asked  == [q \in Routes |-> OfferedAgents(resv[q])]
           asking == [q \in Routes |-> AgentOf(q, {"offered"})]
           winner == [q \in Routes |-> AgentOf(q, {"accepted", "completed"})]
           serving == {q \in Routes : InState(q, "accepted")}
           ended  == {q \in Routes : route[q].status \in Terminal}
           load == {q \in serving : winner[q] = asking[r]}
<1>1. \A q \in Routes : /\ asked[q] = OfferedAgents(resv[q])
                        /\ asked'[q] = OfferedAgents(resv'[q])
                        /\ asking[q] = Asking(resv[q])
                        /\ asking'[q] = Asking(resv'[q])
                        /\ winner[q] = Winner(resv[q])
                        /\ winner'[q] = Winner(resv'[q])
                        /\ q \in serving <=> Live(resv[q])
                        /\ q \in serving' <=> Live(resv'[q])
                        /\ q \in ended <=> Ended(route[q])
                        /\ q \in ended' <=> Ended(route'[q])
  BY DEF AgentOf, Asking, Winner, Won, AgentFrom, InState, Attempts, Live, Ended
<1>2. /\ asked = [q \in Routes |-> asked[q]] /\ asked' = [q \in Routes |-> asked'[q]]
      /\ asking = [q \in Routes |-> asking[q]] /\ asking' = [q \in Routes |-> asking'[q]]
      /\ winner = [q \in Routes |-> winner[q]] /\ winner' = [q \in Routes |-> winner'[q]]
      /\ serving \subseteq Routes /\ serving' \subseteq Routes
      /\ ended \subseteq Routes /\ ended' \subseteq Routes
  OBVIOUS
<1>3. A!Accept(r) <=>
        /\ r \notin ended
        /\ asking[r] # Null
        /\ winner[r] = Null
        /\ Cardinality(load) < Capacity
        /\ winner' = [winner EXCEPT ![r] = asking[r]]
        /\ serving' = serving \cup {r}
        /\ asking' = [asking EXCEPT ![r] = Null]
        /\ asked' = asked
        /\ ended' \in {ended, ended \cup {r}}
  <2>1. A!Load(asking[r]) = Cardinality(load)
    BY SameCardinality DEF A!Load
  <2> HIDE DEF load
  <2> QED
    BY <2>1 DEF A!Accept, A!Rest
<1>4. load = {q \in serving : winner[q] = asking[r]}
  OBVIOUS
<1> HIDE DEF asked, asking, winner, serving, ended, load
<1>5. r \notin ended /\ asking[r] = a /\ winner[r] = Null
  BY <1>1
<1>6. load = {q \in Routes : Live(resv[q]) /\ Winner(resv[q]) = a}
  BY <1>1, <1>2, <1>4, <1>5
<1>7. winner' = [winner EXCEPT ![r] = asking[r]]
  <2>1. \A q \in Routes : winner'[q] = IF q = r THEN a ELSE winner[q]
    BY <1>1 DEF OnlyOf
  <2> QED
    BY <1>2, <1>5, <2>1
<1>8. serving' = serving \cup {r}
  <2>1. \A q \in Routes : q \in serving' <=> q \in serving \/ q = r
    BY <1>1 DEF OnlyOf
  <2> QED
    BY <1>2, <2>1
<1>9. asking' = [asking EXCEPT ![r] = Null] /\ asked' = asked
  <2>1. \A q \in Routes : asking'[q] = IF q = r THEN Null ELSE asking[q]
    BY <1>1 DEF OnlyOf
  <2>2. \A q \in Routes : asked'[q] = asked[q]
    BY <1>1 DEF OnlyOf
  <2> QED
    BY <1>2, <2>1, <2>2
<1>10. ended' \in {ended, ended \cup {r}}
  <2>1. \A q \in Routes \ {r} : q \in ended' <=> q \in ended
    BY <1>1 DEF OnlyOf
  <2> QED
    BY <1>2, <1>5, <2>1
<1> QED
  BY <1>3, <1>5, <1>6, <1>7, <1>8, <1>9, <1>10

\* A completion only ends the serving.
LEMMA CompleteMaps ==
    ASSUME NEW r \in Routes, OnlyOf(r), Ended(route'[r]) <=> Ended(route[r]),
           Live(resv[r]), ~ Live(resv'[r]),
           Winner(resv'[r]) = Winner(resv[r]), Asking(resv'[r]) = Asking(resv[r]),
           OfferedAgents(resv'[r]) = OfferedAgents(resv[r])
    PROVE  A!Complete(r)
<1> DEFINE asked  == [q \in Routes |-> OfferedAgents(resv[q])]
           asking == [q \in Routes |-> AgentOf(q, {"offered"})]
           winner == [q \in Routes |-> AgentOf(q, {"accepted", "completed"})]
           serving == {q \in Routes : InState(q, "accepted")}
           ended  == {q \in Routes : route[q].status \in Terminal}
<1>1. \A q \in Routes : /\ OfferedAgents(resv'[q]) = OfferedAgents(resv[q])
                        /\ AgentOf(q, {"offered"})' = AgentOf(q, {"offered"})
                        /\ AgentOf(q, {"accepted", "completed"})' =
                              AgentOf(q, {"accepted", "completed"})
                        /\ route'[q].status \in Terminal <=> route[q].status \in Terminal
                        /\ InState(q, "accepted") <=> Live(resv[q])
                        /\ InState(q, "accepted")' <=> Live(resv'[q])
  <2>1. \A q \in Routes : /\ OfferedAgents(resv'[q]) = OfferedAgents(resv[q])
                          /\ Asking(resv'[q]) = Asking(resv[q])
                          /\ Winner(resv'[q]) = Winner(resv[q])
                          /\ Ended(route'[q]) <=> Ended(route[q])
    BY DEF OnlyOf
  <2> QED
    BY <2>1 DEF AgentOf, Asking, Winner, Won, AgentFrom, InState, Attempts, Live, Ended
<1>2. asked' = asked /\ asking' = asking /\ winner' = winner /\ ended' = ended
  BY <1>1
<1>3. r \in serving /\ serving' = serving \ {r}
  BY <1>1 DEF OnlyOf
<1>4. A!Complete(r) <=>
        /\ r \in serving
        /\ serving' = serving \ {r}
        /\ asked' = asked /\ asking' = asking /\ winner' = winner /\ ended' = ended
  BY DEF A!Complete
<1> QED
  BY <1>2, <1>3, <1>4

\* What is not about routes and reservations is not seen.
LEMMA StutterMaps ==
    ASSUME \A q \in Routes : /\ OfferedAgents(resv'[q]) = OfferedAgents(resv[q])
                             /\ Asking(resv'[q]) = Asking(resv[q])
                             /\ Winner(resv'[q]) = Winner(resv[q])
                             /\ Live(resv'[q]) <=> Live(resv[q])
                             /\ Ended(route'[q]) <=> Ended(route[q])
    PROVE  UNCHANGED A!avars
<1>1. \A q \in Routes : /\ OfferedAgents(resv'[q]) = OfferedAgents(resv[q])
                        /\ AgentOf(q, {"offered"})' = AgentOf(q, {"offered"})
                        /\ AgentOf(q, {"accepted", "completed"})' =
                              AgentOf(q, {"accepted", "completed"})
                        /\ route'[q].status \in Terminal <=> route[q].status \in Terminal
                        /\ InState(q, "accepted")' <=> InState(q, "accepted")
  BY DEF AgentOf, Asking, Winner, Won, AgentFrom, InState, Attempts, Live, Ended
<1> QED
  BY <1>1 DEF A!avars

-----------------------------------------------------------------------------
(* What the engine's steps look like *)

\* An offer to an agent who was not asked, of a route nobody has won.
LEMMA OfferLooks ==
    ASSUME NEW rs, Settled(rs), ~ HasActive(rs), NEW a \in Agents,
           NEW ttl \in 0..OfferTimeout
    PROVE  LET new == Append(rs, Offer(a, ttl))
           IN  /\ Winner(rs) = Null /\ Winner(new) = Null
               /\ ~ Live(rs) /\ ~ Live(new)
               /\ Asking(new) = a
               /\ OfferedAgents(new) = OfferedAgents(rs) \cup {a}
<1> DEFINE new == Append(rs, Offer(a, ttl))
           n == Len(rs) + 1
<1>1. /\ Len(rs) \in Nat /\ Len(new) = n /\ DOMAIN rs = 1..Len(rs)
      /\ new \in Seq(Reservation)
      /\ \A i \in 1..Len(rs) : new[i] = rs[i]
      /\ new[n].agent = a /\ new[n].state = "offered"
  BY AppendedOffer DEF Settled
<1>2. DOMAIN new = 1..n
  BY <1>1
<1>3. \A i \in 1..Len(rs) : rs[i].state \notin Won \cup {"offered"}
  BY <1>1 DEF HasActive, Active, Won
<1> HIDE DEF new
<1>4. \A i \in 1..n : i \in 1..Len(rs) \/ i = n
  BY <1>1
<1>5. Winner(rs) = Null /\ ~ Live(rs)
  BY <1>1, <1>3, NoAgent DEF Winner, Live, Won
<1>6. Winner(new) = Null /\ ~ Live(new)
  <2>1. \A i \in DOMAIN new : new[i].state \notin Won
    BY <1>1, <1>2, <1>3, <1>4 DEF Won
  <2>2. ~ Live(new)
    BY <1>1, <1>2, <2>1 DEF Live, Won
  <2> QED
    BY <2>1, <2>2, NoAgent DEF Winner
<1>7. Asking(new) = a
  <2>1. \A i \in DOMAIN new : new[i].state \in {"offered"} => i = n
    BY <1>1, <1>2, <1>3, <1>4
  <2>2. n \in DOMAIN new
    BY <1>1, <1>2
  <2> QED
    BY <1>1, <2>1, <2>2, TheAgent DEF Asking
<1>8. OfferedAgents(new) = OfferedAgents(rs) \cup {a}
  <2>1. n \in 1..n /\ 1..Len(rs) \subseteq 1..n
    BY <1>1
  <2> QED
    BY <1>1, <1>2, <1>4, <2>1 DEF OfferedAgents
<1> QED
  BY <1>5, <1>6, <1>7, <1>8 DEF new

\* What the handler resolved before the run is not seen, but for the offer.
SameButOffers(rs, new) ==
    /\ Len(new) = Len(rs)
    /\ \A i \in 1..Len(rs) :
          /\ new[i].agent = rs[i].agent
          /\ \/ new[i].state = rs[i].state
             \/ rs[i].state = "offered" /\ new[i].state \in Resolved

LEMMA SettledLooks ==
    ASSUME NEW rs \in Seq(Reservation), NEW new, Settled(new), SameButOffers(rs, new)
    PROVE  /\ Winner(new) = Winner(rs)
           /\ Live(new) <=> Live(rs)
           /\ Asking(new) = Null
           /\ OfferedAgents(new) = OfferedAgents(rs)
<1>1. /\ DOMAIN rs = 1..Len(rs) /\ DOMAIN new = 1..Len(rs) /\ Len(new) = Len(rs)
      /\ \A i \in 1..Len(rs) : /\ new[i].agent = rs[i].agent
                               /\ new[i].state # "offered"
                               /\ \/ new[i].state = rs[i].state
                                  \/ rs[i].state = "offered" /\ new[i].state \in Resolved
  BY DEF Settled, SameButOffers
<1>2. \A i \in 1..Len(rs) : new[i].state \in Won <=> rs[i].state \in Won
  BY <1>1 DEF Won, Resolved
<1>3. Winner(new) = Winner(rs)
  BY <1>1, <1>2, SameAgent DEF Winner
<1>4. Live(new) <=> Live(rs)
  BY <1>1 DEF Live, Resolved
<1>5. Asking(new) = Null
  BY <1>1, NoAgent DEF Asking
<1>6. OfferedAgents(new) = OfferedAgents(rs)
  BY <1>1 DEF OfferedAgents
<1> QED
  BY <1>3, <1>4, <1>5, <1>6

\* A run of the flow of a route that goes on is an advance of Assignment's.
LEMMA FlowMaps ==
    ASSUME IInv, NEW r \in Routes, ~ Ended(route[r]), NEW signal, NEW scripted,
           NEW rs, Settled(rs), SameButOffers(resv[r], rs),
           NEW table, NEW pending, RunFlow(r, signal, scripted, rs, table, pending)
    PROVE  A!Advance(r)
<1>1. /\ resv \in [Routes -> Seq(Reservation)] /\ route \in [Routes -> RouteRow]
      /\ resv[r] \in Seq(Reservation)
  BY DEF IInv, TypeOK
<1>2. /\ Winner(rs) = Winner(resv[r])
      /\ Live(rs) <=> Live(resv[r])
      /\ Asking(rs) = Null
      /\ OfferedAgents(rs) = OfferedAgents(resv[r])
  BY <1>1, SettledLooks
<1>3. ASSUME NEW row, route' = [route EXCEPT ![r] = row], resv' = [resv EXCEPT ![r] = rs]
      PROVE  A!Advance(r)
  <2>1. resv'[r] = rs /\ OnlyOf(r)
    BY <1>1, <1>3 DEF OnlyOf
  <2> QED
    BY <1>2, <2>1, AdvanceMaps
<1>4. ASSUME NEW n \in Offering, NEW a \in Offerable(rs, table),
             OfferInline(r, n, a, rs, table, pending)
      PROVE  A!Advance(r)
  <2> DEFINE attempt == Len(rs) + 1
             row == Suspended(route[r], n, attempt)
             new == Append(rs, Offer(a, OfferTimeout))
  <2>1. a \in Agents /\ a \notin OfferedAgents(rs) /\ ~ HasActive(rs)
    BY DEF Offerable, CandidatePool, IInv, TypeOK
  <2>2. /\ Winner(rs) = Null /\ Winner(new) = Null
        /\ ~ Live(rs) /\ ~ Live(new)
        /\ Asking(new) = a
        /\ OfferedAgents(new) = OfferedAgents(rs) \cup {a}
    BY <2>1, EngineAssumption, OfferLooks
  <2>3. row.status = "waiting"
    <3>1. attempt \in Nat \cup {Null} /\ n \in 0..Len(Flow) /\ route[r] \in RouteRow
      BY <1>1, FlowAssumption DEF Settled, Offering
    <3> QED
      BY <3>1, SuspendedRow
  <2>4. route' = [route EXCEPT ![r] = row] /\ resv' = [resv EXCEPT ![r] = new]
    BY <1>4 DEF OfferInline
  <2> HIDE DEF row, new
  <2>5. resv'[r] = new /\ route'[r] = row /\ OnlyOf(r)
    BY <1>1, <2>4 DEF OnlyOf
  <2>6. ~ Ended(route'[r])
    BY <2>3, <2>5 DEF Ended, Terminal
  <2> QED
    BY <1>2, <2>1, <2>2, <2>5, <2>6, AdvanceMaps
<1> QED
  BY <1>3, <1>4, RunFlowCases DEF Finish, ParkOnTimer, ParkForMatch

\* So is a run that finds nothing on offer.
LEMMA RerunMaps ==
    ASSUME IInv, NEW r \in Routes, ~ Ended(route[r]), NEW signal, NEW scripted,
           route[r].status # "waiting" \/ route[r].current = Null,
           NEW table, NEW pending, RunFlow(r, signal, scripted, resv[r], table, pending)
    PROVE  A!Advance(r)
<1>1. Settled(resv[r]) /\ SameButOffers(resv[r], resv[r])
  BY NothingOffered DEF SameButOffers
<1> QED
  BY <1>1, FlowMaps

\* An agent who rejects or does not answer leaves the route to ask another.
LEMMA ResolvedMaps ==
    ASSUME IInv, NEW r \in Routes, NEW n, OnOffer(r, n), NEW signal,
           NEW state \in {"rejected", "timeout"}, NEW table, NEW pending,
           RunFlow(r, signal, FALSE, Resolve(r, n, state), table, pending)
    PROVE  A!Advance(r)
<1> DEFINE rs == Resolve(r, n, state)
<1>1. Settled(rs) /\ Len(rs) = Len(resv[r])
  BY OfferResolved
<1>2. /\ n \in Attempts(r) /\ resv[r][n].state = "offered" /\ ~ Ended(route[r])
      /\ state \in Active \cup Resolved /\ state \in Resolved
  BY DEF OnOffer, Resolved, Ended, Terminal
<1>3. \A i \in Attempts(r) :
          /\ rs[i].agent = resv[r][i].agent
          /\ rs[i].state = IF i = n THEN state ELSE resv[r][i].state
  BY <1>2, ResolveShape DEF IInv
<1>4. RunFlow(r, signal, FALSE, rs, table, pending)
  OBVIOUS
<1> HIDE DEF rs
<1>5. SameButOffers(resv[r], rs)
  BY <1>1, <1>2, <1>3 DEF SameButOffers, Attempts
<1> QED
  BY <1>1, <1>2, <1>4, <1>5, FlowMaps

\* The matcher asks an agent who is in none of the reservations: those it may not
\* ask again are all there are.
LEMMA MatcherMaps ==
    ASSUME IInv, NEW r \in Routes, NEW a \in Agents, MatcherOffer(r, a)
    PROVE  A!Advance(r)
<1> DEFINE ttl == OfferWindow(r)
           new == Append(resv[r], Offer(a, ttl))
           park == Suspended(route[r], route[r].cursor, NextAttempt(r))
           row == [park EXCEPT !.match_attempt_seq = NextAttempt(r)]
<1>1. /\ resv \in [Routes -> Seq(Reservation)] /\ route \in [Routes -> RouteRow]
      /\ route[r] \in RouteRow
  BY DEF IInv, TypeOK
<1>2. /\ route[r].status = "waiting_match" /\ a \notin route[r].excluded
      /\ ~ HasActive(resv[r])
      /\ route' = [route EXCEPT ![r] = row] /\ resv' = [resv EXCEPT ![r] = new]
  BY DEF MatcherOffer, Claimable, Insertable
<1>3. ttl \in 0..OfferTimeout
  <2>1. route[r].deadline \in Countdown(MatchDeadline) \cup {Null}
    BY <1>1 DEF RouteRow
  <2>2. route[r].deadline # Null
    BY <1>2 DEF IInv, RouteInv, QueueRemembers
  <2> QED
    BY <2>1, <2>2, EngineAssumption DEF OfferWindow, Countdown
<1> HIDE DEF ttl
<1>4. Settled(resv[r]) /\ route[r].excluded = AgentsIn(resv[r], Resolved) /\ ~ Ended(route[r])
  BY <1>2, NothingOffered DEF IInv, RouteInv, QueueRemembers, Ended, Terminal
<1>5. a \notin OfferedAgents(resv[r])
  <2>1. \A i \in DOMAIN resv[r] : resv[r][i].state \in Resolved
    <3>1. \A i \in DOMAIN resv[r] : resv[r][i] \in Reservation
      BY <1>1
    <3>2. \A i \in DOMAIN resv[r] : resv[r][i].state \in Active \cup Resolved
      BY <3>1 DEF Reservation
    <3> QED
      BY <1>2, <3>2 DEF HasActive
  <2>2. AgentsIn(resv[r], Resolved) = OfferedAgents(resv[r])
    BY <2>1 DEF AgentsIn, OfferedAgents
  <2> QED
    BY <1>2, <1>4, <2>2
<1>6. /\ Winner(resv[r]) = Null /\ Winner(new) = Null
      /\ ~ Live(resv[r]) /\ ~ Live(new)
      /\ Asking(new) = a
      /\ OfferedAgents(new) = OfferedAgents(resv[r]) \cup {a}
  BY <1>2, <1>3, <1>4, OfferLooks
<1>7. row.status = "waiting"
  <2>1. /\ NextAttempt(r) \in Nat \cup {Null} /\ route[r].cursor \in 0..Len(Flow)
    BY <1>1 DEF RouteRow, NextAttempt
  <2>2. park \in RouteRow /\ park.status = "waiting"
    BY <1>1, <2>1, SuspendedRow
  <2> HIDE DEF park
  <2> QED
    BY <2>2 DEF RouteRow
<1> HIDE DEF row, new
<1>8. resv'[r] = new /\ route'[r] = row /\ OnlyOf(r)
  BY <1>1, <1>2 DEF OnlyOf
<1>9. ~ Ended(route'[r])
  BY <1>7, <1>8 DEF Ended, Terminal
<1> QED
  BY <1>4, <1>5, <1>6, <1>8, <1>9, AdvanceMaps

\* Who holds a slot for one route more has room for it: every route they serve
\* holds another.
LEMMA Room ==
    ASSUME IInv, SlotInv, NEW r \in Routes, NEW a \in Agents, ~ Live(resv[r]),
           \E k \in SlotNos, n \in Nat : slots[a][k].holder = <<r, n>>
    PROVE  Cardinality({q \in Routes : Live(resv[q]) /\ Winner(resv[q]) = a}) < Capacity
<1> DEFINE S == {q \in Routes : Live(resv[q]) /\ Winner(resv[q]) = a}
           S2 == S \cup {r}
           SlotOf == [q \in S2 |-> CHOOSE k \in SlotNos :
                                       \E n \in Nat : slots[a][k].holder = <<q, n>>]
<1>1. ASSUME NEW q \in S
      PROVE  \E k \in SlotNos, n \in Nat : slots[a][k].holder = <<q, n>>
  <2>1. PICK n \in 1..Len(resv[q]) : resv[q][n].state = "accepted"
    BY DEF Live
  <2>2. OneActive(resv[q]) /\ DOMAIN resv[q] = 1..Len(resv[q]) /\ Len(resv[q]) \in Nat
    BY DEF IInv, RouteInv, TypeOK
  <2>3. \A i \in DOMAIN resv[q] : resv[q][i].state \in Won => i = n
    BY <2>1, <2>2 DEF OneActive, Won, Active
  <2>4. resv[q][n].state \in Won
    BY <2>1 DEF Won
  <2>5. Winner(resv[q]) = resv[q][n].agent
    BY <2>2, <2>3, <2>4, TheAgent DEF Winner
  <2>6. resv[q][n].agent = a
    BY <2>5
  <2>7. PICK k \in SlotNos : slots[resv[q][n].agent][k].holder = <<q, n>>
    BY <2>1 DEF SlotInv, SlotsAgree, Keeping, Serves
  <2> QED
    BY <2>2, <2>6, <2>7
<1>2. r \notin S
  OBVIOUS
<1>3. \A q \in S2 : \E k \in SlotNos : \E n \in Nat : slots[a][k].holder = <<q, n>>
  BY <1>1
<1> HIDE DEF S
<1>4. \A q \in S2 : SlotOf[q] \in SlotNos /\ \E n \in Nat : slots[a][SlotOf[q]].holder = <<q, n>>
  BY <1>3
<1>5. SlotOf \in Injection(S2, SlotNos)
  <2>1. SlotOf \in [S2 -> SlotNos]
    BY <1>4
  <2>2. ASSUME NEW p \in S2, NEW q \in S2, SlotOf[p] = SlotOf[q]
        PROVE  p = q
    <3>1. PICK m \in Nat : slots[a][SlotOf[p]].holder = <<p, m>>
      BY <1>4
    <3>2. PICK n \in Nat : slots[a][SlotOf[q]].holder = <<q, n>>
      BY <1>4
    <3>3. <<p, m>> = <<q, n>>
      BY <2>2, <3>1, <3>2
    <3> QED
      BY <3>3
  <2> HIDE DEF SlotOf
  <2> QED
    BY <2>1, <2>2 DEF Injection, IsInjective
<1> HIDE DEF SlotOf
<1>6. IsFiniteSet(SlotNos) /\ Cardinality(SlotNos) = Capacity /\ Capacity \in Nat
  BY FS_Interval, EngineAssumption DEF SlotNos
<1>7. IsFiniteSet(S2) /\ Cardinality(S2) <= Cardinality(SlotNos)
  BY <1>5, <1>6, FS_Injection, Zenon
<1>8. IsFiniteSet(S)
  BY <1>7, FS_Subset, Zenon
<1>9. Cardinality(S2) = Cardinality(S) + 1
  BY <1>2, <1>8, FS_AddElement, Zenon
<1>10. Cardinality(S) \in Nat
  BY <1>8, FS_CardinalityType, Zenon
<1>11. Cardinality(S) < Capacity
  BY <1>6, <1>7, <1>9, <1>10
<1> QED
  BY <1>11 DEF S

\* An accept: the hold it confirms is the room its agent has.
LEMMA AcceptReservationMaps ==
    ASSUME IInv, SlotInv, NEW r \in Routes, NEW n \in Attempts(r), AcceptReservation(r, n)
    PROVE  A!Accept(r)
<1> DEFINE rs == Resolve(r, n, "accepted")
           table == Confirm(slots, <<r, n>>)
           a == resv[r][n].agent
<1>1. /\ OnOffer(r, n) /\ Confirmable(a, <<r, n>>)
      /\ RunFlow(r, "accepted", FALSE, rs, table, timers)
  BY DEF AcceptReservation, Resume
<1>2. /\ resv \in [Routes -> Seq(Reservation)] /\ route \in [Routes -> RouteRow]
      /\ DOMAIN resv[r] = 1..Len(resv[r]) /\ Len(resv[r]) \in Nat
      /\ OneActive(resv[r]) /\ a \in Agents
  <2>1. resv \in [Routes -> Seq(Reservation)] /\ route \in [Routes -> RouteRow]
    BY DEF IInv, TypeOK
  <2>2. resv[r][n] \in Reservation
    BY <2>1 DEF Attempts
  <2>3. a \in Agents
    BY <2>2 DEF Reservation
  <2>4. OneActive(resv[r])
    BY DEF IInv, RouteInv
  <2> HIDE DEF a
  <2> QED
    BY <2>1, <2>3, <2>4
<1>3. resv[r][n].state = "offered" /\ n \in 1..Len(resv[r]) /\ ~ Ended(route[r])
  BY <1>1 DEF OnOffer, Attempts, Ended, Terminal
<1>4. /\ Settled(rs) /\ Len(rs) = Len(resv[r])
      /\ \A i \in 1..Len(resv[r]) :
             /\ rs[i].agent = resv[r][i].agent
             /\ rs[i].state = IF i = n THEN "accepted" ELSE resv[r][i].state
  <2>1. "accepted" \in Active \cup Resolved
    BY DEF Active
  <2> QED
    BY <1>1, <2>1, OfferResolved, ResolveShape DEF IInv, Attempts
<1>5. ~ Live(resv[r]) /\ Winner(resv[r]) = Null /\ Asking(resv[r]) = a
  <2>1. \A i \in 1..Len(resv[r]) : resv[r][i].state \in Active => i = n
    BY <1>2, <1>3 DEF OneActive, Active
  <2>2. ~ Live(resv[r])
    BY <1>3, <2>1 DEF Live, Active
  <2>3. \A i \in 1..Len(resv[r]) : resv[r][i].state \notin Won
    BY <1>3, <2>1 DEF Won, Active
  <2>4. \A i \in 1..Len(resv[r]) : resv[r][i].state \in {"offered"} => i = n
    BY <2>1 DEF Active
  <2>5. Winner(resv[r]) = Null
    BY <1>2, <2>3, NoAgent DEF Winner
  <2>6. Asking(resv[r]) = a
    BY <1>2, <1>3, <2>4, TheAgent DEF Asking
  <2> QED
    BY <2>2, <2>5, <2>6
<1>6. Cardinality({q \in Routes : Live(resv[q]) /\ Winner(resv[q]) = a}) < Capacity
  <2>1. \E k \in SlotNos : slots[a][k].holder = <<r, n>>
    BY <1>1 DEF Confirmable
  <2> HIDE DEF a
  <2> QED
    BY <1>2, <1>3, <1>5, <2>1, Room
<1> HIDE DEF rs, a, table
<1>7. HasActive(rs)
  BY <1>2, <1>3, <1>4 DEF HasActive, Active, Settled
<1>8. \E row : route' = [route EXCEPT ![r] = row] /\ resv' = [resv EXCEPT ![r] = rs]
  <2>1. Offerable(rs, table) = {}
    BY <1>7 DEF Offerable
  <2> QED
    BY <1>1, <2>1, RunFlowCases DEF Finish, ParkOnTimer, ParkForMatch
<1>9. resv'[r] = rs /\ OnlyOf(r)
  BY <1>2, <1>8 DEF OnlyOf
<1>10. DOMAIN rs = 1..Len(resv[r])
  BY <1>4 DEF Settled
<1>11. Winner(rs) = a
  <2>1. \A i \in 1..Len(resv[r]) : rs[i].state \in Won => i = n
    BY <1>2, <1>3, <1>4 DEF OneActive, Active, Won
  <2>2. rs[n].agent = a /\ rs[n].state \in Won
    BY <1>3, <1>4 DEF Won, a
  <2> QED
    BY <1>3, <1>10, <2>1, <2>2, TheAgent DEF Winner
<1>12. Live(rs)
  BY <1>3, <1>4 DEF Live
<1>13. Asking(rs) = Null
  BY <1>4, <1>10, NoAgent DEF Asking, Settled
<1>14. OfferedAgents(rs) = OfferedAgents(resv[r])
  BY <1>2, <1>4, <1>10 DEF OfferedAgents
<1>15. a # Null
  BY <1>2, NobodyAssumption
<1> QED
  BY <1>3, <1>5, <1>6, <1>9, <1>11, <1>12, <1>13, <1>14, <1>15, AcceptMaps

\* A completion.
LEMMA CompleteReservationMaps ==
    ASSUME IInv, NEW r \in Routes, NEW n \in Attempts(r), CompleteReservation(r, n)
    PROVE  A!Complete(r)
<1> DEFINE rs == Resolve(r, n, "completed")
<1>1. /\ resv[r][n].state = "accepted" /\ resv' = [resv EXCEPT ![r] = rs] /\ route' = route
  BY DEF CompleteReservation
<1>2. /\ resv \in [Routes -> Seq(Reservation)] /\ OneActive(resv[r])
      /\ DOMAIN resv[r] = 1..Len(resv[r]) /\ n \in 1..Len(resv[r])
  BY DEF IInv, TypeOK, RouteInv, Attempts
<1>3. /\ rs \in Seq(Reservation) /\ Len(rs) = Len(resv[r])
      /\ \A i \in 1..Len(resv[r]) :
             /\ rs[i].agent = resv[r][i].agent
             /\ rs[i].state = IF i = n THEN "completed" ELSE resv[r][i].state
  <2>1. "completed" \in Active \cup Resolved
    BY DEF Active
  <2> QED
    BY <2>1, ResolveShape DEF IInv, Attempts
<1> HIDE DEF rs
<1>4. DOMAIN rs = 1..Len(resv[r])
  BY <1>3
<1>5. resv'[r] = rs /\ OnlyOf(r)
  BY <1>1, <1>2 DEF OnlyOf
<1>6. Live(resv[r]) /\ ~ Live(rs)
  <2>1. \A i \in 1..Len(resv[r]) : resv[r][i].state = "accepted" => i = n
    BY <1>1, <1>2 DEF OneActive, Active
  <2> QED
    BY <1>1, <1>2, <1>3, <2>1 DEF Live
<1>7. Winner(rs) = Winner(resv[r])
  <2>1. \A i \in 1..Len(resv[r]) : /\ rs[i].agent = resv[r][i].agent
                                   /\ rs[i].state \in Won <=> resv[r][i].state \in Won
    BY <1>1, <1>3 DEF Won
  <2> QED
    BY <1>2, <1>4, <2>1, AgentKept DEF Winner
<1>8. Asking(rs) = Asking(resv[r])
  <2> DEFINE states == {"offered"}
  <2>1. \A i \in 1..Len(resv[r]) : /\ rs[i].agent = resv[r][i].agent
                                   /\ rs[i].state \in states <=> resv[r][i].state \in states
    BY <1>1, <1>3
  <2> HIDE DEF states
  <2>2. AgentFrom(rs, states) = AgentFrom(resv[r], states)
    BY <1>2, <1>4, <2>1, AgentKept
  <2> QED
    BY <2>2 DEF Asking, states
<1>9. OfferedAgents(rs) = OfferedAgents(resv[r])
  BY <1>2, <1>3, <1>4 DEF OfferedAgents
<1> QED
  BY <1>1, <1>5, <1>6, <1>7, <1>8, <1>9, CompleteMaps DEF Ended

\* A tick is not seen.
LEMMA TickMaps ==
    ASSUME IInv, Tick
    PROVE  UNCHANGED A!avars
<1>1. SUFFICES ASSUME NEW q \in Routes
               PROVE  /\ OfferedAgents(resv'[q]) = OfferedAgents(resv[q])
                      /\ Asking(resv'[q]) = Asking(resv[q])
                      /\ Winner(resv'[q]) = Winner(resv[q])
                      /\ Live(resv'[q]) <=> Live(resv[q])
                      /\ Ended(route'[q]) <=> Ended(route[q])
  BY StutterMaps
<1> DEFINE rs == resv[q]
           new == resv'[q]
<1>2. /\ route'[q].status = route[q].status
      /\ new \in Seq(Reservation) /\ rs \in Seq(Reservation)
      /\ Len(new) = Len(rs)
      /\ \A n \in 1..Len(rs) : new[n].agent = rs[n].agent /\ new[n].state = rs[n].state
  BY TickKeeps DEF IInv, TypeOK
<1> HIDE DEF rs, new
<1>3. DOMAIN rs = 1..Len(rs) /\ DOMAIN new = 1..Len(rs)
  BY <1>2
<1>4. Winner(new) = Winner(rs) /\ Asking(new) = Asking(rs)
  <2>1. ASSUME NEW states
        PROVE  AgentFrom(new, states) = AgentFrom(rs, states)
    BY <1>2, <1>3, SameAgent
  <2> QED
    BY <2>1 DEF Winner, Asking
<1>5. OfferedAgents(new) = OfferedAgents(rs) /\ (Live(new) <=> Live(rs))
  BY <1>2, <1>3 DEF OfferedAgents, Live
<1> QED
  BY <1>2, <1>4, <1>5 DEF rs, new, Ended

\* A request that no flow is bound to ends at once, and asks nobody.
LEMMA CreateUnboundRouteMaps ==
    ASSUME IInv, NEW r \in Routes, CreateUnboundRoute(r)
    PROVE  A!Advance(r)
<1>1. Settled(resv[r]) /\ SameButOffers(resv[r], resv[r]) /\ ~ Ended(route[r])
  BY NothingOffered DEF CreateUnboundRoute, SameButOffers, Ended, Terminal
<1>2. Asking(resv[r]) = Null
  <2>1. resv[r] \in Seq(Reservation)
    BY <1>1 DEF Settled
  <2> QED
    BY <1>1, <2>1, SettledLooks
<1>3. resv' = resv /\ OnlyOf(r)
  BY DEF CreateUnboundRoute, OnlyOf, IInv, TypeOK
<1> QED
  BY <1>1, <1>2, <1>3, AdvanceMaps

-----------------------------------------------------------------------------
\* Every step of the engine is a step of Assignment or is not seen there: one case
\* per action of Next.
LEMMA StepMaps ==
    ASSUME IInv, SlotInv, [Next]_vars
    PROVE  [A!ANext]_(A!avars)
<1>1. ASSUME NEW r \in Routes, A!Advance(r) \/ A!Accept(r) \/ A!Complete(r)
      PROVE  A!ANext
  BY <1>1 DEF A!ANext
<1>2. ASSUME UNCHANGED <<route, resv>>
      PROVE  UNCHANGED A!avars
  BY <1>2, StutterMaps
<1>3. ASSUME NEW r \in Routes, CreateUnboundRoute(r) PROVE A!ANext
  BY <1>1, <1>3, CreateUnboundRouteMaps
<1>4. ASSUME NEW r \in Routes, CreateRouteRequest(r) PROVE A!ANext
  BY <1>1, <1>4, RerunMaps DEF CreateRouteRequest, Ended, Terminal
<1>5. ASSUME NEW r \in Routes, NEW n \in Attempts(r), AcceptReservation(r, n)
      PROVE  A!ANext
  BY <1>1, <1>5, AcceptReservationMaps
<1>6. ASSUME NEW r \in Routes, NEW n \in Attempts(r), RejectReservation(r, n)
      PROVE  A!ANext
  BY <1>1, <1>6, ResolvedMaps DEF RejectReservation, Resume
<1>7. ASSUME NEW r \in Routes, NEW n \in Attempts(r), CompleteReservation(r, n)
      PROVE  A!ANext
  BY <1>1, <1>7, CompleteReservationMaps
<1>8. ASSUME NEW r \in Routes, SubmitRouteInput(r) PROVE A!ANext
  BY <1>1, <1>8, RerunMaps DEF SubmitRouteInput, Ended, Terminal
<1>9. ASSUME NEW t \in timers, FireReservationTimeout(t) PROVE A!ANext
  <2> DEFINE r == t.route
             n == t.attempt
  <2>1. /\ r \in Routes
        /\ n \in Attempts(r)
    BY <1>9 DEF FireReservationTimeout, IInv, TypeOK, Timer, TimerInv
  <2>2. /\ OnOffer(r, n)
        /\ RunFlow(r, "timeout", FALSE, Resolve(r, n, "timeout"),
                   Release(slots, <<r, n>>), timers \ {t})
    BY <1>9, <2>1 DEF FireReservationTimeout, Resume, OnOffer, Current, IInv,
                      RouteInv, Parked, Attempts
  <2> HIDE DEF r, n
  <2> QED
    BY <1>1, <2>1, <2>2, ResolvedMaps
<1>10. ASSUME NEW t \in timers, FireWait(t) PROVE A!ANext
  <2> DEFINE r == t.route
  <2>1. /\ r \in Routes
        /\ route[r].current = Null
        /\ ~ Ended(route[r])
    BY <1>10 DEF FireWait, Current, IInv, TypeOK, Timer, TimerInv, Ended, Terminal
  <2>2. RunFlow(r, "", FALSE, resv[r], slots, timers \ {t})
    BY <1>10 DEF FireWait, Resume
  <2> HIDE DEF r
  <2> QED
    BY <1>1, <2>1, <2>2, RerunMaps
<1>11. ASSUME NEW r \in Routes, NEW a \in Agents, MatcherOffer(r, a) PROVE A!ANext
  BY <1>1, <1>11, MatcherMaps
<1>12. ASSUME NEW r \in Routes, FallbackExpiredRoute(r) PROVE A!ANext
  BY <1>1, <1>12, RerunMaps DEF FallbackExpiredRoute, Resume, Ended, Terminal
<1>13. CASE Tick
  BY <1>13, TickMaps
<1>14. ASSUME \/ \E t \in timers : DropStaleTimer(t)
              \/ SweepCapacity
              \/ \E a \in Agents, to \in Statuses : PatchAgentStatus(a, to)
              \/ \E a \in Agents : ExpireWrapUp(a) \/ Connect(a) \/ Disconnect(a)
              \/ UNCHANGED vars
       PROVE  UNCHANGED A!avars
  BY <1>2, <1>14 DEF DropStaleTimer, SweepCapacity, PatchAgentStatus, ExpireWrapUp,
                     Connect, Disconnect, vars
<1> QED
  BY <1>3, <1>4, <1>5, <1>6, <1>7, <1>8, <1>9, <1>10, <1>11, <1>12, <1>13, <1>14 DEF Next

\* Initially nobody was asked.
LEMMA InitMaps ==
    ASSUME Init
    PROVE  A!AInit
<1>1. \A r \in Routes : resv[r] = <<>> /\ route[r].status = "none"
  BY DEF Init, NoRoute
<1>2. \A r \in Routes : /\ OfferedAgents(resv[r]) = {}
                        /\ AgentOf(r, {"offered"}) = Null
                        /\ AgentOf(r, {"accepted", "completed"}) = Null
                        /\ ~ InState(r, "accepted")
                        /\ route[r].status \notin Terminal
  <2>1. DOMAIN <<>> = {} /\ 1..Len(<<>>) = {}
    OBVIOUS
  <2> QED
    BY <1>1, <2>1 DEF OfferedAgents, AgentOf, AgentsIn, InState, Attempts, Terminal
<1> QED
  BY <1>2 DEF A!AInit

\* The engine implements Assignment: whatever slots, timers, sweeps, the queue and
\* the matcher do, a route asks one agent at a time and none twice, asks nobody
\* once one has accepted or it has ended, and an agent who accepts had room.
THEOREM EngineImplementsAssignment == Spec => Implements
<1>1. Init => A!AInit
  BY InitMaps
<1>2. IInv /\ SlotInv /\ [Next]_vars => [A!ANext]_(A!avars)
  BY StepMaps
<1> QED
  BY <1>1, <1>2, Invariance, SlotInvariance, PTL DEF Spec, Implements, A!ASpec
=============================================================================
