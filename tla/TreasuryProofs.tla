--------------------------- MODULE TreasuryProofs ---------------------------
(***************************************************************************)
(* In a treasury no money appears or is lost, and no place is short of     *)
(* money unless money may be taken back.                                   *)
(***************************************************************************)
EXTENDS Treasury, SumsProofs

TypeInv ==
  /\ free \in [Places -> Int]
  /\ held \in [Places -> Int]
  /\ spent \in [Places -> Int]
  /\ income \in Int

(* Nothing is short, what was received covers it. *)
TreasuryInv == TypeInv /\ Conserved /\ Solvent

(* A step has one of the treasury's effects, with some amount. *)
LEMMA StepCases ==
  ASSUME ConstantsOK, [Next]_vars
  PROVE  \/ UNCHANGED vars
         \/ \E p \in Places, n \in Nat \ {0} :
              \/ Receive(p, n) \/ Hold(p, n) \/ Release(p, n) \/ Spend(p, n) \/ Refund(p, n)
              \/ \E q \in Places : Move(p, q, n) \/ Undo(p, q, n)
<1>1. CASE Paperwork \/ UNCHANGED vars
  BY <1>1 DEF Paperwork
<1>2. CASE \E p \in Places, n \in Quantities :
             \/ Receive(p, n) \/ Hold(p, n) \/ Release(p, n) \/ Spend(p, n) \/ Refund(p, n)
             \/ \E q \in Places : Move(p, q, n) \/ Undo(p, q, n)
  BY <1>2 DEF ConstantsOK
<1>3. QED
  BY <1>1, <1>2 DEF Next

LEMMA TypeStep ==
  ASSUME ConstantsOK, TypeInv, [Next]_vars
  PROVE  TypeInv'
<1>1. CASE UNCHANGED vars
  BY <1>1 DEF TypeInv, vars
<1>2. ASSUME NEW p \in Places, NEW n \in Nat \ {0},
             \/ Receive(p, n) \/ Hold(p, n) \/ Release(p, n) \/ Spend(p, n) \/ Refund(p, n)
      PROVE  TypeInv'
  BY <1>2 DEF TypeInv, Receive, Hold, Release, Spend, Refund
<1>3. ASSUME NEW p \in Places, NEW q \in Places, NEW n \in Nat \ {0},
             Move(p, q, n) \/ Undo(p, q, n)
      PROVE  TypeInv'
  BY <1>3 DEF TypeInv, Move, Undo
<1>4. QED
  BY <1>1, <1>2, <1>3, StepCases

LEMMA ConservedStep ==
  ASSUME ConstantsOK, TypeInv, TypeInv', Conserved, [Next]_vars
  PROVE  Conserved'
<1> DEFINE f == [p \in Places |-> free[p] + held[p] + spent[p]]
           g == [p \in Places |-> free'[p] + held'[p] + spent'[p]]
<1>1. NPlaces \in Nat /\ Places = 1 .. NPlaces
  BY DEF Places, ConstantsOK
<1>2. /\ f \in [1 .. NPlaces -> Int]
      /\ g \in [1 .. NPlaces -> Int]
  <2>1. \A p \in Places : /\ free[p] + held[p] + spent[p] \in Int
                          /\ free'[p] + held'[p] + spent'[p] \in Int
    BY DEF TypeInv
  <2>2. QED
    BY <1>1, <2>1
<1>3. SumTo(f, NPlaces) = income /\ (Conserved' <=> SumTo(g, NPlaces) = income')
  BY DEF Conserved
<1>4. \A p \in Places : /\ f[p] = free[p] + held[p] + spent[p]
                        /\ g[p] = free'[p] + held'[p] + spent'[p]
                        /\ free[p] \in Int /\ held[p] \in Int /\ spent[p] \in Int
  BY DEF TypeInv
<1> HIDE DEF f, g
<1>5. CASE UNCHANGED vars
  BY <1>5 DEF Conserved, vars
<1>6. ASSUME NEW p \in Places, NEW n \in Nat \ {0}, Receive(p, n)
      PROVE  Conserved'
  <2>1. (\A i \in Places : i # p => g[i] = f[i]) /\ g[p] = f[p] + n
    BY <1>4, <1>6 DEF TypeInv, Receive
  <2>2. SumTo(g, NPlaces) = SumTo(f, NPlaces) - f[p] + g[p]
    BY <1>1, <1>2, <2>1, SumChange
  <2>3. f[p] \in Int /\ income \in Int /\ income' = income + n
    BY <1>1, <1>2, <1>6 DEF TypeInv, Receive
  <2>4. QED
    BY <1>3, <2>1, <2>2, <2>3
<1>7. ASSUME NEW p \in Places, NEW n \in Nat \ {0},
             Hold(p, n) \/ Release(p, n) \/ Spend(p, n) \/ Refund(p, n)
      PROVE  Conserved'
  <2>1. \A i \in Places : g[i] = f[i]
    BY <1>4, <1>7 DEF TypeInv, Hold, Release, Spend, Refund
  <2>2. g = f
    BY <1>1, <1>2, <2>1
  <2>3. income' = income
    BY <1>7 DEF Hold, Release, Spend, Refund
  <2>4. QED
    BY <1>3, <2>2, <2>3
<1>8. ASSUME NEW p \in Places, NEW q \in Places, NEW n \in Nat \ {0},
             Move(p, q, n) \/ Undo(p, q, n)
      PROVE  Conserved'
  <2>1. p # q /\ income' = income
    BY <1>8 DEF Move, Undo
  <2>2. \A i \in Places : i # p /\ i # q => g[i] = f[i]
    BY <1>4, <1>8 DEF TypeInv, Move, Undo
  <2>3. \/ g[p] = f[p] - n /\ g[q] = f[q] + n
        \/ g[p] = f[p] + n /\ g[q] = f[q] - n
    <3>1. CASE Move(p, q, n)
      <4>1. /\ free'[p] = free[p] /\ free'[q] = free[q] + n
            /\ held'[p] = held[p] - n /\ held'[q] = held[q]
            /\ spent' = spent
        BY <2>1, <3>1 DEF TypeInv, Move
      <4>2. g[p] = f[p] - n /\ g[q] = f[q] + n
        BY <1>4, <4>1
      <4>3. QED
        BY <4>2
    <3>2. CASE Undo(p, q, n)
      <4>1. /\ free'[p] = free[p] + n /\ free'[q] = free[q] - n
            /\ held' = held /\ spent' = spent
        BY <2>1, <3>2 DEF TypeInv, Undo
      <4>2. g[p] = f[p] + n /\ g[q] = f[q] - n
        BY <1>4, <4>1
      <4>3. QED
        BY <4>2
    <3>3. QED
      BY <1>8, <3>1, <3>2
  <2>4. f[p] \in Int /\ f[q] \in Int
    BY <1>1, <1>2
  <2>5. g[p] + g[q] = f[p] + f[q]
    BY <2>3, <2>4
  <2>6. SumTo(g, NPlaces) = SumTo(f, NPlaces)
    <3>1. p \in 1 .. NPlaces /\ q \in 1 .. NPlaces /\ p # q /\ NPlaces \in Nat
      BY <1>1, <2>1
    <3> DEFINE h == [f EXCEPT ![p] = g[p]]
    <3>2. h \in [1 .. NPlaces -> Int] /\ h[p] = g[p] /\ h[q] = f[q]
      BY <1>1, <1>2, <3>1
    <3>3. \A i \in 1 .. NPlaces : i # p => h[i] = f[i]
      BY <1>2
    <3>4. \A i \in 1 .. NPlaces : i # q => g[i] = h[i]
      BY <1>1, <1>2, <2>2, <3>3, <3>2
    <3> HIDE DEF h
    <3>5. NPlaces \in Nat
      BY <1>1
    <3>6. f \in [1 .. NPlaces -> Int]
      BY <1>2
    <3>7. g \in [1 .. NPlaces -> Int]
      BY <1>2
    <3>8. h \in [1 .. NPlaces -> Int]
      BY <3>2
    <3>9. SumTo(h, NPlaces) = SumTo(f, NPlaces) - f[p] + h[p]
      BY <3>1, <3>3, <3>5, <3>6, <3>8, SumChange
    <3>10. SumTo(g, NPlaces) = SumTo(h, NPlaces) - h[q] + g[q]
      BY <3>1, <3>4, <3>5, <3>7, <3>8, SumChange
    <3>11. SumTo(f, NPlaces) \in Int
      <4>1. NPlaces \in 0 .. NPlaces
        BY <1>1
      <4>2. QED
        BY <3>5, <3>6, <4>1, SumToRec
    <3>12. QED
      BY <2>5, <3>1, <3>2, <3>6, <3>7, <3>9, <3>10, <3>11, SMTT(60)
  <2>7. QED
    BY <1>3, <2>1, <2>6
<1>9. QED
  BY <1>5, <1>6, <1>7, <1>8, StepCases

LEMMA SolventStep ==
  ASSUME ConstantsOK, TypeInv, Solvent, [Next]_vars
  PROVE  Solvent'
<1>1. SUFFICES ASSUME ~MayUndo
               PROVE  \A p \in Places : free'[p] >= 0 /\ held'[p] >= 0 /\ spent'[p] >= 0
  BY DEF Solvent
<1>2. \A p \in Places : free[p] >= 0 /\ held[p] >= 0 /\ spent[p] >= 0
  BY <1>1 DEF Solvent
<1>3. CASE UNCHANGED vars
  BY <1>2, <1>3 DEF vars
<1>4. ASSUME NEW p \in Places, NEW n \in Nat \ {0},
             \/ Receive(p, n) \/ Hold(p, n) \/ Release(p, n) \/ Spend(p, n) \/ Refund(p, n)
      PROVE  \A i \in Places : free'[i] >= 0 /\ held'[i] >= 0 /\ spent'[i] >= 0
  BY <1>2, <1>4 DEF TypeInv, Receive, Hold, Release, Spend, Refund
<1>5. ASSUME NEW p \in Places, NEW q \in Places, NEW n \in Nat \ {0}, Move(p, q, n)
      PROVE  \A i \in Places : free'[i] >= 0 /\ held'[i] >= 0 /\ spent'[i] >= 0
  BY <1>2, <1>5 DEF TypeInv, Move
<1>6. QED
  BY <1>1, <1>3, <1>4, <1>5, StepCases DEF Undo

(* Everything the treasury has came in from outside, whatever is held,     *)
(* moved, spent, refunded and taken back; and where nothing may be taken   *)
(* back, no place ever owes.                                               *)
THEOREM TreasurySafe ==
  ASSUME ConstantsOK
  PROVE  Spec => [](Conserved /\ Solvent)
<1>1. Init => TreasuryInv
  <2>1. SUFFICES ASSUME Init PROVE TreasuryInv
    OBVIOUS
  <2> DEFINE f == [p \in Places |-> free[p] + held[p] + spent[p]]
  <2>2. TypeInv /\ Solvent
    BY <2>1 DEF Init, Nothing, TypeInv, Solvent
  <2>3. f \in [1 .. NPlaces -> Int] /\ \A i \in 1 .. NPlaces : f[i] = 0
    BY <2>1 DEF Init, Nothing, Places
  <2>4. SumTo(f, NPlaces) = 0
    BY <2>3, SumZero DEF ConstantsOK
  <2>5. QED
    BY <2>1, <2>2, <2>4 DEF TreasuryInv, Conserved, Init
<1>2. TreasuryInv /\ [Next]_vars => TreasuryInv'
  BY TypeStep, ConservedStep, SolventStep DEF TreasuryInv
<1>3. QED
  BY <1>1, <1>2, PTL DEF Spec, TreasuryInv

=============================================================================
