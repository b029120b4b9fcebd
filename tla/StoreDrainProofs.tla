-------------------------- MODULE StoreDrainProofs --------------------------
(***************************************************************************)
(* The drain protocol of StoreDrain, proved for every set of callers and   *)
(* every finite set of lease units.                                        *)
(***************************************************************************)
EXTENDS StoreDrain, FiniteSetTheorems, TLAPS

(* Equal totals mean an empty ledger: what the drain concludes from the two *)
(* counters it reads (xstore_drain_zero) is true of the units themselves.   *)
LEMMA EqualTotals ==
  ASSUME NEW A, NEW B, B \subseteq A, A \subseteq Units,
         Cardinality(A) - Cardinality(B) = 0
  PROVE  B = A
<1>1. IsFiniteSet(A)
  BY FS_Subset, UnitsAssumption
<1>2. IsFiniteSet(B) /\ (Cardinality(B) = Cardinality(A) => B = A)
  BY <1>1, FS_Subset
<1>3. Cardinality(A) \in Nat /\ Cardinality(B) \in Nat
  BY <1>1, <1>2, FS_CardinalityType
<1> QED
  BY <1>2, <1>3

(* A sealed store satisfies the invariant.                                  *)
LEMMA DrainInit == Init => DrainInv
<1> SUFFICES ASSUME Init PROVE DrainInv
  OBVIOUS
<1> USE DEF Init
<1>1. TypeOK
  BY DEF TypeOK, CallerPc, DrainPc, Surfaces, Budgets, Admissions
<1>2. AdmissionsExact /\ UnitsExact /\ TokensExact
  BY DEF AdmissionsExact, UnitsExact, TokensExact
<1>3. DrainKnows
  BY DEF DrainKnows
<1>4. NobodyInside /\ TokensDieFirst /\ AbortOnlyOutOfTime
  BY DEF NobodyInside, Inside, Confirmed, TokensDieFirst, AbortOnlyOutOfTime
<1> QED
  BY <1>1, <1>2, <1>3, <1>4 DEF DrainInv

(* While lease units are outstanding the store is not torn down.            *)
LEMMA UnitsKeepTheStore ==
  ASSUME DrainInv, NEW t \in Threads, units[t] # {}
  PROVE  ~Confirmed /\ dispatcher = "running" /\ drain.pc # "stop" /\ epoch = 1
BY DEF DrainInv, TypeOK, NobodyInside, Inside, Confirmed, DrainKnows

(* The conjuncts about callers do not depend on the drain thread.           *)
LEMMA CallersUntouched ==
  ASSUME AdmissionsExact, UnitsExact, TokensExact,
         UNCHANGED <<callerVars, admissions, ledgerVars>>
  PROVE  AdmissionsExact' /\ UnitsExact' /\ TokensExact'
BY DEF AdmissionsExact, UnitsExact, TokensExact, callerVars, ledgerVars

(* Every step of a caller preserves the invariant.                          *)
LEMMA CallerStep ==
  ASSUME DrainInv, NEW t \in Threads, NEW s \in Surfaces,
         Caller(t) \/ Call(t, s)
  PROVE  DrainInv'
<1> USE DEF DrainInv, vars, callerVars, ledgerVars, storeVars, Go, At, Admit, MayEnter
<1>1. CASE Call(t, s)
  <2> USE <1>1 DEF Call
  <2>1. TypeOK'
    BY DEF TypeOK, CallerPc, Surfaces, Admissions, Levels
  <2>2. AdmissionsExact'
    <3> SUFFICES ASSUME NEW r \in Threads PROVE AdmissionsExact!(r)'
      BY DEF AdmissionsExact
    <3>1. CASE r = t
      BY <3>1 DEF TypeOK, AdmissionsExact, UnitsExact, Surfaces
    <3>2. CASE r # t
      BY <3>2 DEF TypeOK, AdmissionsExact
    <3> QED
      BY <3>1, <3>2
  <2>3. UnitsExact'
    BY DEF TypeOK, UnitsExact, Surfaces
  <2>4. TokensExact'
    BY DEF TypeOK, TokensExact, UnitsExact
  <2>5. DrainKnows' /\ NobodyInside'
    BY DEF TypeOK, DrainKnows, AdmissionsExact, UnitsExact, NobodyInside, Inside, Confirmed
  <2>6. TokensDieFirst' /\ AbortOnlyOutOfTime'
    BY DEF TypeOK, TokensDieFirst, AbortOnlyOutOfTime, UnitsExact, TokensExact
  <2> QED
    BY <2>1, <2>2, <2>3, <2>4, <2>5, <2>6
<1>2. CASE CheckOuter(t)
  <2> USE <1>2 DEF CheckOuter
  <2>1. TypeOK'
    BY DEF TypeOK, CallerPc, Surfaces, Admissions, Levels
  <2>2. AdmissionsExact'
    <3> SUFFICES ASSUME NEW r \in Threads PROVE AdmissionsExact!(r)'
      BY DEF AdmissionsExact
    <3>1. CASE r = t
      BY <3>1 DEF TypeOK, AdmissionsExact, UnitsExact, Surfaces
    <3>2. CASE r # t
      BY <3>2 DEF TypeOK, AdmissionsExact
    <3> QED
      BY <3>1, <3>2
  <2>3. UnitsExact'
    BY DEF TypeOK, UnitsExact, Surfaces
  <2>4. TokensExact'
    BY DEF TypeOK, TokensExact, UnitsExact
  <2>5. DrainKnows' /\ NobodyInside'
    BY DEF TypeOK, DrainKnows, AdmissionsExact, UnitsExact, NobodyInside, Inside, Confirmed
  <2>6. TokensDieFirst' /\ AbortOnlyOutOfTime'
    BY DEF TypeOK, TokensDieFirst, AbortOnlyOutOfTime, UnitsExact, TokensExact
  <2> QED
    BY <2>1, <2>2, <2>3, <2>4, <2>5, <2>6
<1>3. CASE EnterInner(t)
  <2> USE <1>3 DEF EnterInner
  <2>1. TypeOK'
    BY DEF TypeOK, CallerPc, Surfaces, Admissions, Levels
  <2>2. AdmissionsExact'
    <3> SUFFICES ASSUME NEW r \in Threads PROVE AdmissionsExact!(r)'
      BY DEF AdmissionsExact
    <3>1. CASE r = t
      <4>1. pc[t] = "enterInner" /\ pc'[t] = "checkInner"
        BY DEF TypeOK, Surfaces
      <4>2. <<t, "inner">> \in admissions'
        OBVIOUS
      <4>3. <<t, "outer">> \in admissions' <=> <<t, "outer">> \in admissions
        OBVIOUS
      <4> QED
        BY <3>1, <4>1, <4>2, <4>3 DEF AdmissionsExact
    <3>2. CASE r # t
      BY <3>2 DEF TypeOK, AdmissionsExact
    <3> QED
      BY <3>1, <3>2
  <2>3. UnitsExact'
    BY DEF TypeOK, UnitsExact, Surfaces
  <2>4. TokensExact'
    BY DEF TypeOK, TokensExact, UnitsExact
  <2>5. DrainKnows' /\ NobodyInside'
    BY DEF TypeOK, DrainKnows, AdmissionsExact, UnitsExact, NobodyInside, Inside, Confirmed
  <2>6. TokensDieFirst' /\ AbortOnlyOutOfTime'
    BY DEF TypeOK, TokensDieFirst, AbortOnlyOutOfTime, UnitsExact, TokensExact
  <2> QED
    BY <2>1, <2>2, <2>3, <2>4, <2>5, <2>6
<1>4. CASE CheckInner(t)
  <2> USE <1>4 DEF CheckInner
  <2>1. TypeOK'
    BY DEF TypeOK, CallerPc, Surfaces, Admissions, Levels
  <2>2. AdmissionsExact'
    <3> SUFFICES ASSUME NEW r \in Threads PROVE AdmissionsExact!(r)'
      BY DEF AdmissionsExact
    <3>1. CASE r = t
      BY <3>1 DEF TypeOK, AdmissionsExact, UnitsExact, Surfaces
    <3>2. CASE r # t
      BY <3>2 DEF TypeOK, AdmissionsExact
    <3> QED
      BY <3>1, <3>2
  <2>3. UnitsExact'
    BY DEF TypeOK, UnitsExact, Surfaces
  <2>4. TokensExact'
    BY DEF TypeOK, TokensExact, UnitsExact
  <2>5. DrainKnows' /\ NobodyInside'
    BY DEF TypeOK, DrainKnows, AdmissionsExact, UnitsExact, NobodyInside, Inside, Confirmed
  <2>6. TokensDieFirst' /\ AbortOnlyOutOfTime'
    BY DEF TypeOK, TokensDieFirst, AbortOnlyOutOfTime, UnitsExact, TokensExact
  <2> QED
    BY <2>1, <2>2, <2>3, <2>4, <2>5, <2>6
<1>5. CASE Grant(t)
  <2> USE <1>5 DEF Grant
  <2>1. TypeOK'
    BY DEF TypeOK, CallerPc, Surfaces, Admissions, Levels
  <2>2. AdmissionsExact'
    BY DEF TypeOK, AdmissionsExact
  <2>3. UnitsExact'
    BY DEF TypeOK, UnitsExact, Surfaces
  <2>4. TokensExact'
    BY DEF TypeOK, TokensExact, UnitsExact
  <2>5. DrainKnows' /\ NobodyInside'
    BY DEF TypeOK, DrainKnows, AdmissionsExact, UnitsExact, NobodyInside, Inside, Confirmed
  <2>6. TokensDieFirst' /\ AbortOnlyOutOfTime'
    BY DEF TypeOK, TokensDieFirst, AbortOnlyOutOfTime, UnitsExact, TokensExact
  <2> QED
    BY <2>1, <2>2, <2>3, <2>4, <2>5, <2>6
<1>6. CASE Acquired(t)
  <2> USE <1>6 DEF Acquired
  <2>1. TypeOK'
    BY DEF TypeOK, CallerPc, Surfaces, Admissions, Levels
  <2>2. AdmissionsExact'
    <3> SUFFICES ASSUME NEW r \in Threads PROVE AdmissionsExact!(r)'
      BY DEF AdmissionsExact
    <3>1. CASE r = t
      BY <3>1 DEF TypeOK, AdmissionsExact, UnitsExact, Surfaces
    <3>2. CASE r # t
      BY <3>2 DEF TypeOK, AdmissionsExact
    <3> QED
      BY <3>1, <3>2
  <2>3. UnitsExact'
    BY DEF TypeOK, UnitsExact, Surfaces
  <2>4. TokensExact'
    BY DEF TypeOK, TokensExact, UnitsExact
  <2>5. DrainKnows' /\ NobodyInside'
    BY DEF TypeOK, DrainKnows, AdmissionsExact, UnitsExact, NobodyInside, Inside, Confirmed
  <2>6. TokensDieFirst' /\ AbortOnlyOutOfTime'
    BY DEF TypeOK, TokensDieFirst, AbortOnlyOutOfTime, UnitsExact, TokensExact
  <2> QED
    BY <2>1, <2>2, <2>3, <2>4, <2>5, <2>6
<1>7. CASE LeaveInner(t)
  <2> USE <1>7 DEF LeaveInner
  <2>0. units[t] # {} => /\ ~Confirmed /\ dispatcher = "running"
                         /\ drain.pc # "stop" /\ epoch = 1
    BY UnitsKeepTheStore
  <2>1. TypeOK'
    BY DEF TypeOK, CallerPc, Surfaces, Admissions, Levels
  <2>2. AdmissionsExact'
    <3> SUFFICES ASSUME NEW r \in Threads PROVE AdmissionsExact!(r)'
      BY DEF AdmissionsExact
    <3>1. CASE r = t
      <4>1. /\ pc[t] = "leaveInner" /\ pc'[t] \in {"idle", "holding", "issue", "leaveOuter"}
            /\ surface'[t] = "token" <=> pc'[t] \in {"issue", "leaveOuter"}
            /\ surface'[t] = surface[t]
        BY DEF TypeOK, Surfaces
      <4>2. <<t, "inner">> \notin admissions'
        OBVIOUS
      <4>3. <<t, "outer">> \in admissions' <=> <<t, "outer">> \in admissions
        OBVIOUS
      <4> QED
        BY <3>1, <4>1, <4>2, <4>3 DEF AdmissionsExact
    <3>2. CASE r # t
      BY <3>2 DEF TypeOK, AdmissionsExact
    <3> QED
      BY <3>1, <3>2
  <2>3. UnitsExact'
    BY <2>0 DEF TypeOK, UnitsExact, Surfaces
  <2>4. TokensExact'
    BY <2>0 DEF TypeOK, TokensExact, UnitsExact
  <2>5. DrainKnows' /\ NobodyInside'
    BY DEF TypeOK, DrainKnows, AdmissionsExact, UnitsExact, NobodyInside, Inside, Confirmed
  <2>6. TokensDieFirst' /\ AbortOnlyOutOfTime'
    BY <2>0 DEF TypeOK, TokensDieFirst, AbortOnlyOutOfTime, UnitsExact, TokensExact
  <2> QED
    BY <2>1, <2>2, <2>3, <2>4, <2>5, <2>6
<1>8. CASE IssueToken(t)
  <2> USE <1>8 DEF IssueToken
  <2>0. units[t] # {} => /\ ~Confirmed /\ dispatcher = "running"
                         /\ drain.pc # "stop" /\ epoch = 1
    BY UnitsKeepTheStore
  <2>1. TypeOK'
    BY DEF TypeOK, CallerPc, Surfaces, Admissions, Levels
  <2>2. AdmissionsExact'
    <3> SUFFICES ASSUME NEW r \in Threads PROVE AdmissionsExact!(r)'
      BY DEF AdmissionsExact
    <3>1. CASE r = t
      BY <3>1 DEF TypeOK, AdmissionsExact, UnitsExact, Surfaces
    <3>2. CASE r # t
      BY <3>2 DEF TypeOK, AdmissionsExact
    <3> QED
      BY <3>1, <3>2
  <2>3. UnitsExact'
    BY <2>0 DEF TypeOK, UnitsExact, Surfaces
  <2>4. TokensExact'
    BY <2>0 DEF TypeOK, TokensExact, UnitsExact
  <2>5. DrainKnows' /\ NobodyInside'
    BY DEF TypeOK, DrainKnows, AdmissionsExact, UnitsExact, NobodyInside, Inside, Confirmed
  <2>6. TokensDieFirst' /\ AbortOnlyOutOfTime'
    BY <2>0 DEF TypeOK, TokensDieFirst, AbortOnlyOutOfTime, UnitsExact, TokensExact
  <2> QED
    BY <2>1, <2>2, <2>3, <2>4, <2>5, <2>6
<1>9. CASE LeaveOuter(t)
  <2> USE <1>9 DEF LeaveOuter
  <2>1. TypeOK'
    BY DEF TypeOK, CallerPc, Surfaces, Admissions, Levels
  <2>2. AdmissionsExact'
    <3> SUFFICES ASSUME NEW r \in Threads PROVE AdmissionsExact!(r)'
      BY DEF AdmissionsExact
    <3>1. CASE r = t
      <4>1. pc[t] = "leaveOuter" /\ pc'[t] \in {"idle", "holding"}
        BY DEF TypeOK, Surfaces
      <4>2. <<t, "outer">> \notin admissions'
        OBVIOUS
      <4>3. <<t, "inner">> \in admissions' <=> <<t, "inner">> \in admissions
        OBVIOUS
      <4> QED
        BY <3>1, <4>1, <4>2, <4>3 DEF AdmissionsExact
    <3>2. CASE r # t
      BY <3>2 DEF TypeOK, AdmissionsExact
    <3> QED
      BY <3>1, <3>2
  <2>3. UnitsExact'
    BY DEF TypeOK, UnitsExact, Surfaces
  <2>4. TokensExact'
    BY DEF TypeOK, TokensExact, UnitsExact
  <2>5. DrainKnows' /\ NobodyInside'
    BY DEF TypeOK, DrainKnows, AdmissionsExact, UnitsExact, NobodyInside, Inside, Confirmed
  <2>6. TokensDieFirst' /\ AbortOnlyOutOfTime'
    BY DEF TypeOK, TokensDieFirst, AbortOnlyOutOfTime, UnitsExact, TokensExact
  <2> QED
    BY <2>1, <2>2, <2>3, <2>4, <2>5, <2>6
<1>10. CASE Release(t)
  <2> USE <1>10 DEF Release
  <2>0. units[t] # {} => /\ ~Confirmed /\ dispatcher = "running"
                         /\ drain.pc # "stop" /\ epoch = 1
    BY UnitsKeepTheStore
  <2>1. TypeOK'
    BY DEF TypeOK, CallerPc, Surfaces, Admissions, Levels
  <2>2. AdmissionsExact'
    <3> SUFFICES ASSUME NEW r \in Threads PROVE AdmissionsExact!(r)'
      BY DEF AdmissionsExact
    <3>1. CASE r = t
      BY <3>1 DEF TypeOK, AdmissionsExact, UnitsExact, Surfaces
    <3>2. CASE r # t
      BY <3>2 DEF TypeOK, AdmissionsExact
    <3> QED
      BY <3>1, <3>2
  <2>3. UnitsExact'
    BY <2>0 DEF TypeOK, UnitsExact, Surfaces
  <2>4. TokensExact'
    BY <2>0 DEF TypeOK, TokensExact, UnitsExact
  <2>5. DrainKnows' /\ NobodyInside'
    BY DEF TypeOK, DrainKnows, AdmissionsExact, UnitsExact, NobodyInside, Inside, Confirmed
  <2>6. TokensDieFirst' /\ AbortOnlyOutOfTime'
    BY <2>0 DEF TypeOK, TokensDieFirst, AbortOnlyOutOfTime, UnitsExact, TokensExact
  <2> QED
    BY <2>1, <2>2, <2>3, <2>4, <2>5, <2>6
<1>11. CASE ReturnUnit(t)
  <2> USE <1>11 DEF ReturnUnit
  <2>0. units[t] # {} => /\ ~Confirmed /\ dispatcher = "running"
                         /\ drain.pc # "stop" /\ epoch = 1
    BY UnitsKeepTheStore
  <2>1. TypeOK'
    BY DEF TypeOK, CallerPc, Surfaces, Admissions, Levels
  <2>2. AdmissionsExact'
    BY DEF TypeOK, AdmissionsExact
  <2>3. UnitsExact'
    BY <2>0 DEF TypeOK, UnitsExact, Surfaces
  <2>4. TokensExact'
    BY <2>0 DEF TypeOK, TokensExact, UnitsExact
  <2>5. DrainKnows' /\ NobodyInside'
    BY DEF TypeOK, DrainKnows, AdmissionsExact, UnitsExact, NobodyInside, Inside, Confirmed
  <2>6. TokensDieFirst' /\ AbortOnlyOutOfTime'
    BY <2>0 DEF TypeOK, TokensDieFirst, AbortOnlyOutOfTime, UnitsExact, TokensExact
  <2> QED
    BY <2>1, <2>2, <2>3, <2>4, <2>5, <2>6
<1>12. CASE Returned(t)
  <2> USE <1>12 DEF Returned
  <2>0. units[t] # {} => /\ ~Confirmed /\ dispatcher = "running"
                         /\ drain.pc # "stop" /\ epoch = 1
    BY UnitsKeepTheStore
  <2>1. TypeOK'
    BY DEF TypeOK, CallerPc, Surfaces, Admissions, Levels
  <2>2. AdmissionsExact'
    <3> SUFFICES ASSUME NEW r \in Threads PROVE AdmissionsExact!(r)'
      BY DEF AdmissionsExact
    <3>1. CASE r = t
      BY <3>1 DEF TypeOK, AdmissionsExact, UnitsExact, Surfaces
    <3>2. CASE r # t
      BY <3>2 DEF TypeOK, AdmissionsExact
    <3> QED
      BY <3>1, <3>2
  <2>3. UnitsExact'
    BY <2>0 DEF TypeOK, UnitsExact, Surfaces
  <2>4. TokensExact'
    BY <2>0 DEF TypeOK, TokensExact, UnitsExact
  <2>5. DrainKnows' /\ NobodyInside'
    BY DEF TypeOK, DrainKnows, AdmissionsExact, UnitsExact, NobodyInside, Inside, Confirmed
  <2>6. TokensDieFirst' /\ AbortOnlyOutOfTime'
    BY <2>0 DEF TypeOK, TokensDieFirst, AbortOnlyOutOfTime, UnitsExact, TokensExact
  <2> QED
    BY <2>1, <2>2, <2>3, <2>4, <2>5, <2>6
<1> QED
  BY <1>1, <1>2, <1>3, <1>4, <1>5, <1>6, <1>7, <1>8, <1>9, <1>10, <1>11, <1>12 DEF Caller

(* Every step of the drain thread, or of the clock, preserves it.           *)
LEMMA DrainerStep ==
  ASSUME DrainInv, DrainBegin \/ Drainer \/ Expire
  PROVE  DrainInv'
<1> USE DEF DrainInv, DrainAt, Alive
<1>1. CASE DrainBegin
  <2> USE <1>1 DEF DrainBegin, vars, callerVars, ledgerVars, storeVars
  <2>1. TypeOK'
    BY DEF TypeOK, DrainPc, Budgets
  <2>2. AdmissionsExact' /\ UnitsExact' /\ TokensExact'
    BY CallersUntouched
  <2>3. DrainKnows'
    BY DEF TypeOK, DrainKnows, AdmissionsExact
  <2>4. NobodyInside'
    BY DEF TypeOK, NobodyInside, Inside, Confirmed, DrainKnows
  <2>5. TokensDieFirst' /\ AbortOnlyOutOfTime'
    BY DEF TypeOK, TokensDieFirst, AbortOnlyOutOfTime
  <2> QED
    BY <2>1, <2>2, <2>3, <2>4, <2>5
<1>2. CASE DrainAnchor
  <2> USE <1>2 DEF DrainAnchor, vars, callerVars, ledgerVars, storeVars
  <2>1. TypeOK'
    BY DEF TypeOK, DrainPc, Budgets
  <2>2. AdmissionsExact' /\ UnitsExact' /\ TokensExact'
    BY CallersUntouched
  <2>3. DrainKnows'
    BY DEF TypeOK, DrainKnows, AdmissionsExact
  <2>4. NobodyInside'
    BY DEF TypeOK, NobodyInside, Inside, Confirmed, DrainKnows
  <2>5. TokensDieFirst' /\ AbortOnlyOutOfTime'
    BY DEF TypeOK, TokensDieFirst, AbortOnlyOutOfTime
  <2> QED
    BY <2>1, <2>2, <2>3, <2>4, <2>5
<1>3. CASE Expire
  <2> USE <1>3 DEF Expire, vars, callerVars, ledgerVars, storeVars
  <2>1. TypeOK'
    BY DEF TypeOK, DrainPc, Budgets
  <2>2. AdmissionsExact' /\ UnitsExact' /\ TokensExact'
    BY CallersUntouched
  <2>3. DrainKnows'
    BY DEF TypeOK, DrainKnows, AdmissionsExact
  <2>4. NobodyInside'
    BY DEF TypeOK, NobodyInside, Inside, Confirmed, DrainKnows
  <2>5. TokensDieFirst' /\ AbortOnlyOutOfTime'
    BY DEF TypeOK, TokensDieFirst, AbortOnlyOutOfTime
  <2> QED
    BY <2>1, <2>2, <2>3, <2>4, <2>5
<1>4. ASSUME NEW b \in Budgets, DrainFinish(b) PROVE DrainInv'
  <2> USE <1>4 DEF DrainFinish, vars, callerVars, ledgerVars, storeVars
  <2>1. TypeOK'
    BY DEF TypeOK, DrainPc, Budgets
  <2>2. AdmissionsExact' /\ UnitsExact' /\ TokensExact'
    BY CallersUntouched
  <2>3. DrainKnows'
    BY DEF TypeOK, DrainKnows, AdmissionsExact
  <2>4. NobodyInside'
    BY DEF TypeOK, NobodyInside, Inside, Confirmed, DrainKnows
  <2>5. TokensDieFirst' /\ AbortOnlyOutOfTime'
    BY DEF TypeOK, TokensDieFirst, AbortOnlyOutOfTime
  <2> QED
    BY <2>1, <2>2, <2>3, <2>4, <2>5
<1>5. CASE ReadAdmissions
  <2> USE <1>5 DEF ReadAdmissions, NobodyAdmitted, vars, callerVars, ledgerVars, storeVars
  <2>1. TypeOK'
    BY DEF TypeOK, DrainPc, Budgets
  <2>2. AdmissionsExact' /\ UnitsExact' /\ TokensExact'
    BY CallersUntouched
  <2>3. DrainKnows'
    BY DEF TypeOK, DrainKnows, AdmissionsExact
  <2>4. NobodyInside'
    BY DEF TypeOK, NobodyInside, Inside, Confirmed, DrainKnows
  <2>5. TokensDieFirst' /\ AbortOnlyOutOfTime'
    BY DEF TypeOK, TokensDieFirst, AbortOnlyOutOfTime
  <2> QED
    BY <2>1, <2>2, <2>3, <2>4, <2>5
<1>6. CASE ReadOneTotal
  <2> USE <1>6 DEF ReadOneTotal, vars, callerVars, ledgerVars, storeVars
  <2>1. TypeOK'
    BY DEF TypeOK, DrainPc, Budgets
  <2>2. AdmissionsExact' /\ UnitsExact' /\ TokensExact'
    BY CallersUntouched
  <2>3. DrainKnows'
    BY ZenonT(40) DEF TypeOK, DrainKnows, AdmissionsExact
  <2>4. NobodyInside'
    BY DEF TypeOK, NobodyInside, Inside, Confirmed, DrainKnows
  <2>5. TokensDieFirst' /\ AbortOnlyOutOfTime'
    BY DEF TypeOK, TokensDieFirst, AbortOnlyOutOfTime
  <2> QED
    BY <2>1, <2>2, <2>3, <2>4, <2>5
<1>7. CASE ReadOtherTotal
  <2> USE <1>7 DEF ReadOtherTotal, vars, callerVars, ledgerVars, storeVars
  <2>1. TypeOK'
    BY DEF TypeOK, DrainPc, Budgets
  <2>2. AdmissionsExact' /\ UnitsExact' /\ TokensExact'
    BY CallersUntouched
  <2>3. DrainKnows'
    BY DEF TypeOK, DrainKnows, AdmissionsExact
  <2>4. NobodyInside'
    <3>1. CASE Confirmed
      BY <3>1 DEF NobodyInside, Inside, Confirmed, TypeOK
    <3>2. CASE ~Confirmed /\ SeenOutstanding = 0
      <4>1. returned \subseteq granted /\ granted \subseteq Units /\ returned \subseteq Units
        BY DEF TypeOK, UnitsExact
      <4>2. ASSUME drain.pc = "readReturned" PROVE returned = granted
        <5>1. drain.seen = granted
          BY <4>2 DEF DrainKnows
        <5> QED
          BY <3>2, <4>1, <4>2, <5>1, EqualTotals DEF SeenOutstanding
      <4>3. ASSUME drain.pc = "readGranted" PROVE returned = granted
        <5>1. drain.seen \subseteq returned
          BY <4>3 DEF DrainKnows
        <5>2. drain.seen = granted
          BY <3>2, <4>1, <4>3, <5>1, EqualTotals DEF SeenOutstanding
        <5> QED
          BY <4>1, <5>1, <5>2
      <4>4. returned = granted
        BY <4>2, <4>3 DEF ReadOtherTotal
      <4>5. \A t \in Threads : units[t] = {} /\ pc[t] # "acquiring"
        BY <4>4 DEF UnitsExact, DrainKnows
      <4> QED
        BY <4>5 DEF NobodyInside, Inside
    <3>3. CASE ~Confirmed /\ SeenOutstanding # 0
      BY <3>3 DEF NobodyInside, Confirmed, TypeOK
    <3> QED
      BY <3>1, <3>2, <3>3
  <2>5. TokensDieFirst' /\ AbortOnlyOutOfTime'
    BY DEF TypeOK, TokensDieFirst, AbortOnlyOutOfTime
  <2> QED
    BY <2>1, <2>2, <2>3, <2>4, <2>5
<1>8. CASE NotZero
  <2> USE <1>8 DEF NotZero, vars, callerVars, ledgerVars, storeVars
  <2>1. TypeOK'
    BY DEF TypeOK, DrainPc, Budgets
  <2>2. AdmissionsExact' /\ UnitsExact' /\ TokensExact'
    BY CallersUntouched
  <2>3. DrainKnows'
    BY DEF TypeOK, DrainKnows, AdmissionsExact
  <2>4. NobodyInside'
    BY DEF TypeOK, NobodyInside, Inside, Confirmed, DrainKnows
  <2>5. TokensDieFirst' /\ AbortOnlyOutOfTime'
    BY DEF TypeOK, TokensDieFirst, AbortOnlyOutOfTime, TimeLeft, DrainKnows, Budgets
  <2> QED
    BY <2>1, <2>2, <2>3, <2>4, <2>5
<1>9. CASE StopDispatcher
  <2> USE <1>9 DEF StopDispatcher, vars, callerVars, ledgerVars, storeVars
  <2>1. TypeOK'
    BY DEF TypeOK, DrainPc, Budgets
  <2>2. AdmissionsExact' /\ UnitsExact' /\ TokensExact'
    BY CallersUntouched
  <2>3. DrainKnows'
    BY DEF TypeOK, DrainKnows, AdmissionsExact
  <2>4. NobodyInside'
    BY DEF TypeOK, NobodyInside, Inside, Confirmed, DrainKnows
  <2>5. TokensDieFirst' /\ AbortOnlyOutOfTime'
    BY DEF TypeOK, TokensDieFirst, AbortOnlyOutOfTime
  <2> QED
    BY <2>1, <2>2, <2>3, <2>4, <2>5
<1>10. CASE StopTimesOut
  <2> USE <1>10 DEF StopTimesOut, vars, callerVars, ledgerVars, storeVars
  <2>1. TypeOK'
    BY DEF TypeOK, DrainPc, Budgets
  <2>2. AdmissionsExact' /\ UnitsExact' /\ TokensExact'
    BY CallersUntouched
  <2>3. DrainKnows'
    BY DEF TypeOK, DrainKnows, AdmissionsExact
  <2>4. NobodyInside'
    BY DEF TypeOK, NobodyInside, Inside, Confirmed, DrainKnows
  <2>5. TokensDieFirst' /\ AbortOnlyOutOfTime'
    BY DEF TypeOK, TokensDieFirst, AbortOnlyOutOfTime
  <2> QED
    BY <2>1, <2>2, <2>3, <2>4, <2>5
<1>11. CASE InvalidateEpoch
  <2> USE <1>11 DEF InvalidateEpoch, vars, callerVars, ledgerVars, storeVars
  <2>1. TypeOK'
    BY DEF TypeOK, DrainPc, Budgets
  <2>2. AdmissionsExact' /\ UnitsExact' /\ TokensExact'
    BY CallersUntouched
  <2>3. DrainKnows'
    BY DEF TypeOK, DrainKnows, AdmissionsExact
  <2>4. NobodyInside'
    BY DEF TypeOK, NobodyInside, Inside, Confirmed, DrainKnows
  <2>5. TokensDieFirst' /\ AbortOnlyOutOfTime'
    BY DEF TypeOK, TokensDieFirst, AbortOnlyOutOfTime
  <2> QED
    BY <2>1, <2>2, <2>3, <2>4, <2>5
<1>12. CASE PublishStopped
  <2> USE <1>12 DEF PublishStopped, vars, callerVars, ledgerVars, storeVars
  <2>1. TypeOK'
    BY DEF TypeOK, DrainPc, Budgets
  <2>2. AdmissionsExact' /\ UnitsExact' /\ TokensExact'
    BY CallersUntouched
  <2>3. DrainKnows'
    BY DEF TypeOK, DrainKnows, AdmissionsExact
  <2>4. NobodyInside'
    BY DEF TypeOK, NobodyInside, Inside, Confirmed, DrainKnows
  <2>5. TokensDieFirst' /\ AbortOnlyOutOfTime'
    BY DEF TypeOK, TokensDieFirst, AbortOnlyOutOfTime
  <2> QED
    BY <2>1, <2>2, <2>3, <2>4, <2>5
<1> QED
  BY <1>1, <1>2, <1>3, <1>4, <1>5, <1>6, <1>7, <1>8, <1>9, <1>10, <1>11, <1>12 DEF Drainer

-----------------------------------------------------------------------------
(* The invariant holds for ever.                                            *)
THEOREM DrainInvariance == Spec => []DrainInv
<1>1. DrainInv /\ [Next]_vars => DrainInv'
  <2> SUFFICES ASSUME DrainInv, [Next]_vars PROVE DrainInv'
    OBVIOUS
  <2>1. CASE UNCHANGED vars
    <3> USE <2>1 DEF vars, callerVars, ledgerVars, storeVars, DrainInv
    <3>1. TypeOK'
      BY DEF TypeOK
    <3>2. AdmissionsExact' /\ UnitsExact' /\ TokensExact'
      BY CallersUntouched
    <3>3. DrainKnows' /\ NobodyInside'
      BY DEF DrainKnows, NobodyInside, Inside, Confirmed
    <3>4. TokensDieFirst' /\ AbortOnlyOutOfTime'
      BY DEF TokensDieFirst, AbortOnlyOutOfTime
    <3> QED
      BY <3>1, <3>2, <3>3, <3>4
  <2>2. ASSUME NEW t \in Threads, Caller(t) \/ \E s \in Surfaces : Call(t, s)
        PROVE  DrainInv'
    BY <2>2, CallerStep DEF Surfaces
  <2>3. CASE DrainBegin \/ Drainer \/ Expire
    BY <2>3, DrainerStep
  <2> QED
    BY <2>1, <2>2, <2>3 DEF Next
<1> QED
  BY <1>1, DrainInit, PTL DEF Spec

(* The state of the gate keeps its types.                                   *)
THEOREM TypesHold == Spec => []TypeOK
BY DrainInvariance, PTL DEF DrainInv

(* The drain never tears the store down under a caller.                     *)
THEOREM DrainIsSafe == Spec => []NobodyInside
BY DrainInvariance, PTL DEF DrainInv

(* No token outlives its epoch and no release is lost.                      *)
THEOREM TokensAreSafe == Spec => []TokensDieFirst
BY DrainInvariance, PTL DEF DrainInv

(* Leases that are outstanding abort the drain only when its time is up.    *)
THEOREM AbortsOnlyLate == Spec => []AbortOnlyOutOfTime
BY DrainInvariance, PTL DEF DrainInv

-----------------------------------------------------------------------------
(* Once no admission is left in a store that no longer runs, the granted    *)
(* total is final: that is why the zero check may read it afterwards.       *)
THEOREM LedgerIsFinal == Spec => LedgerSettles
<1>1. ASSUME DrainInv, [Next]_vars, admissions = {}, state # "running"
      PROVE  granted' = granted
  <2>1. \A t \in Threads : ~Grant(t)
    BY <1>1 DEF DrainInv, AdmissionsExact, Grant, At
  <2>2. ASSUME NEW t \in Threads, Caller(t) \/ \E s \in Surfaces : Call(t, s)
        PROVE  granted' = granted
    BY <2>1, <2>2 DEF Caller, Call, CheckOuter, EnterInner, CheckInner, Acquired, LeaveInner,
       IssueToken, LeaveOuter, Release, ReturnUnit, Returned, ledgerVars
  <2>3. ASSUME DrainBegin \/ Drainer \/ Expire
        PROVE  granted' = granted
    BY <2>3 DEF DrainBegin, Drainer, Expire, DrainAnchor, DrainFinish, ReadAdmissions, ReadOneTotal,
       ReadOtherTotal, NotZero, StopDispatcher, StopTimesOut, InvalidateEpoch, PublishStopped, ledgerVars
  <2> QED
    BY <1>1, <2>2, <2>3 DEF Next, vars, ledgerVars
<1> QED
  BY <1>1, DrainInvariance, PTL DEF Spec, LedgerSettles

(* The lifecycle goes forward only, and tears down in the contract's order. *)
THEOREM TearDownOrder == Spec => OrderIsTheContract
<1>1. ASSUME DrainInv, DrainInv', [Next]_vars
      PROVE  /\ state' # state => <<state, state'>> \in {<<"running", "draining">>, <<"draining", "stopped">>}
             /\ state' = "stopped" => epoch' = 0
             /\ epoch' # epoch => dispatcher = "stopped"
  <2>1. state' = "stopped" => epoch' = 0
    BY <1>1 DEF DrainInv, DrainKnows
  <2>2. CASE UNCHANGED <<state, epoch>>
    BY <2>1, <2>2
  <2>3. CASE DrainBegin
    BY <2>1, <2>3 DEF DrainBegin, DrainAt
  <2>4. CASE InvalidateEpoch
    BY <1>1, <2>1, <2>4 DEF InvalidateEpoch, DrainAt, DrainInv, DrainKnows
  <2>5. CASE PublishStopped
    BY <1>1, <2>1, <2>5 DEF PublishStopped, DrainAt, DrainInv, DrainKnows, TypeOK
  <2>6. [Next]_vars => UNCHANGED <<state, epoch>> \/ DrainBegin \/ InvalidateEpoch \/ PublishStopped
    BY DEF Next, Caller, Call, CheckOuter, EnterInner, CheckInner, Grant, Acquired, LeaveInner,
       IssueToken, LeaveOuter, Release, ReturnUnit, Returned, Drainer, Expire, DrainAnchor,
       DrainFinish, ReadAdmissions, ReadOneTotal, ReadOtherTotal, NotZero, StopDispatcher,
       StopTimesOut, storeVars, vars
  <2> QED
    BY <1>1, <2>2, <2>3, <2>4, <2>5, <2>6
<1>2. Spec => [][/\ state' # state => <<state, state'>> \in {<<"running", "draining">>, <<"draining", "stopped">>}
                 /\ state' = "stopped" => epoch' = 0
                 /\ epoch' # epoch => dispatcher = "stopped"]_vars
  BY <1>1, DrainInvariance, PTL DEF Spec
<1> QED
  BY <1>2 DEF OrderIsTheContract

-----------------------------------------------------------------------------
(* Refinement: callers that are inside, and the phase of the gate.          *)
Busy  == {t \in Threads : Inside(t)}
Phase == CASE state = "running" -> "open"
           [] state # "running" /\ Confirmed -> "closed"
           [] OTHER -> "closing"

(* A step of a caller lets it in, lets it out, or is invisible.             *)
LEMMA CallerRefines ==
  ASSUME DrainInv, NEW t \in Threads,
         Caller(t) \/ \E s \in Surfaces : Call(t, s)
  PROVE  /\ Phase' = Phase
         /\ \/ Phase = "open" /\ t \notin Busy /\ Busy' = Busy \cup {t}
            \/ t \in Busy /\ Busy' = Busy \ {t}
            \/ Busy' = Busy
<1>1. UNCHANGED <<storeVars, drain>>
  BY DEF Caller, Call, CheckOuter, EnterInner, CheckInner, Grant, Acquired, LeaveInner,
     IssueToken, LeaveOuter, Release, ReturnUnit, Returned
<1>2. Phase' = Phase
  BY <1>1 DEF Phase, Confirmed, storeVars
<1>3. \A r \in Threads \ {t} : Inside(r)' <=> Inside(r)
  BY DEF DrainInv, TypeOK, Inside, Caller, Call, CheckOuter, EnterInner, CheckInner, Grant,
     Acquired, LeaveInner, IssueToken, LeaveOuter, Release, ReturnUnit, Returned, Go, At
<1>4. Inside(t)' /\ ~Inside(t) => Phase = "open"
  BY DEF DrainInv, TypeOK, UnitsExact, Inside, Phase, Caller, Call, CheckOuter, EnterInner,
     CheckInner, Grant, Acquired, LeaveInner, IssueToken, LeaveOuter, Release, ReturnUnit,
     Returned, Go, At, MayEnter
<1> QED
  BY <1>2, <1>3, <1>4 DEF Busy

(* A step of the drain thread starts closing, closes, or is invisible.      *)
LEMMA DrainerRefines ==
  ASSUME DrainInv, DrainInv', DrainBegin \/ Drainer \/ Expire
  PROVE  /\ Busy' = Busy
         /\ \/ Phase = "open" /\ Phase' = "closing"
            \/ Phase = "closing" /\ Busy = {} /\ Phase' = "closed"
            \/ Phase' = Phase
<1>1. Busy' = Busy
  BY DEF Busy, Inside, DrainBegin, Drainer, Expire, DrainAnchor, DrainFinish, ReadAdmissions,
     ReadOneTotal, ReadOtherTotal, NotZero, StopDispatcher, StopTimesOut, InvalidateEpoch,
     PublishStopped, callerVars
<1>2. Phase' = "closed" => Busy = {}
  BY <1>1 DEF DrainInv, NobodyInside, Phase, Busy
<1>3. CASE DrainBegin
  BY <1>1, <1>3 DEF DrainBegin, Phase, Confirmed, DrainInv, TypeOK, DrainKnows
<1>4. CASE Drainer \/ Expire
  <2>1. (state # "running" /\ state' # "running") \/ UNCHANGED <<state, drain, dispatcher>>
    BY <1>4 DEF Drainer, Expire, DrainAnchor, DrainFinish, ReadAdmissions, ReadOneTotal,
       ReadOtherTotal, NotZero, StopDispatcher, StopTimesOut, InvalidateEpoch, PublishStopped,
       DrainInv, DrainKnows, DrainAt, storeVars
  <2>2. Confirmed => Confirmed'
    BY ZenonT(40), <1>4 DEF Confirmed, Drainer, Expire, DrainAnchor, DrainFinish, ReadAdmissions, ReadOneTotal,
       ReadOtherTotal, NotZero, StopDispatcher, StopTimesOut, InvalidateEpoch, PublishStopped,
       DrainInv, DrainKnows, DrainAt, TypeOK, storeVars
  <2> QED
    BY <1>1, <1>2, <2>1, <2>2 DEF Phase, Confirmed
<1> QED
  BY <1>3, <1>4

(* The store with its counters, tokens and drain thread is one of the gates *)
(* StoreGate describes, whatever the interleaving.                          *)
THEOREM GateRefinement == Spec => ImplementsGate
<1>1. Init => Gate!GateInit
  BY DEF Init, Gate!GateInit, Inside, Confirmed
<1>2. ASSUME DrainInv, DrainInv', [Next]_vars
      PROVE  [Gate!GateNext]_Gate!gateVars
  <2> USE DEF Gate!GateNext, Gate!gateVars, Gate!ComeIn, Gate!GoOut, Gate!StartClosing, Gate!Close
  <2>1. CASE UNCHANGED vars
    BY <2>1 DEF vars, callerVars, storeVars, Inside, Confirmed
  <2>2. ASSUME NEW t \in Threads, Caller(t) \/ \E s \in Surfaces : Call(t, s)
        PROVE  [Gate!GateNext]_Gate!gateVars
    BY <1>2, <2>2, CallerRefines DEF Busy, Phase
  <2>3. CASE DrainBegin \/ Drainer \/ Expire
    BY <1>2, <2>3, DrainerRefines DEF Busy, Phase
  <2> QED
    BY <1>2, <2>1, <2>2, <2>3 DEF Next
<1> QED
  BY <1>1, <1>2, DrainInvariance, PTL DEF Spec, ImplementsGate, Gate!GateSpec
=============================================================================
