----------------------------- MODULE PlanLogProofs -----------------------------
(***************************************************************************)
(* The abstract plan log keeps the current plan of every key in its log,   *)
(* and, without restores, never logs one version twice.                    *)
(***************************************************************************)
EXTENDS PlanLog, SequenceTheorems, TLAPS

\* What a caller of these theorems has to show of its constants.
LimitOK == Limit \in Nat \ {0} /\ Blank \in Contents

\* r is a with some of its first elements removed.
IsSuffix(r, a) ==
  \E d \in Nat : /\ Len(r) + d = Len(a)
               /\ \A i \in 1..Len(r) : r[i] = a[i + d]

\* Trimming keeps a non-empty suffix of the log (SavePlan).
LEMMA LastIsSuffix ==
  ASSUME LimitOK, NEW S, NEW a \in Seq(S), Len(a) # 0
  PROVE  /\ Last(a) \in Seq(S)
         /\ Len(Last(a)) \in Nat \ {0}
         /\ IsSuffix(Last(a), a)
<1>1. Len(a) \in Nat \ {0} /\ \A i \in 1..Len(a) : a[i] \in S
  OBVIOUS
<1>2. CASE Len(a) > Limit
  <2> DEFINE m == Len(a) - Limit + 1
  <2> DEFINE b == SubSeq(a, m, Len(a))
  <2>1. /\ m \in 2..Len(a)
        /\ Limit = Len(a) - m + 1
        /\ m \in Int /\ Len(a) \in Int
        /\ \A i \in m..Len(a) : a[i] \in S
    BY <1>1, <1>2 DEF LimitOK
  <2>2. /\ b \in Seq(S)
        /\ Len(b) = Len(a) - m + 1
        /\ \A i \in 1..(Len(a) - m + 1) : b[i] = a[m + i - 1]
    <3> HIDE DEF m
    <3> QED BY <2>1, SubSeqProperties
  <2>3. m - 1 \in Nat /\ Len(b) + (m - 1) = Len(a) /\ Len(b) \in Nat \ {0}
    BY <1>1, <2>1, <2>2 DEF LimitOK
  <2>4. \A i \in 1..Len(b) : b[i] = a[i + (m - 1)]
    <3>1. \A i \in 1..Len(b) : m + i - 1 = i + (m - 1)
      BY <2>1, <2>2
    <3> HIDE DEF b, m
    <3> QED BY <2>1, <2>2, <3>1
  <2>5. IsSuffix(b, a)
    <3> HIDE DEF b, m
    <3> QED BY <2>3, <2>4 DEF IsSuffix
  <2>6. Last(a) = b
    BY <1>2 DEF Last
  <2> QED BY <2>2, <2>3, <2>5, <2>6
<1>3. CASE ~(Len(a) > Limit)
  <2>1. Last(a) = a
    BY <1>3 DEF Last
  <2>2. /\ 0 \in Nat /\ Len(a) + 0 = Len(a)
        /\ \A i \in 1..Len(a) : a[i] = a[i + 0]
    BY <1>1
  <2>3. IsSuffix(a, a)
    BY <2>2 DEF IsSuffix
  <2> QED BY <1>1, <2>1, <2>3
<1> QED BY <1>2, <1>3

\* The newest plan survives the trimming, at the end of the log.
LEMMA LastEndsWith ==
  ASSUME LimitOK, NEW S, NEW s \in Seq(S), NEW e \in S
  PROVE  LET r == Last(Append(s, e)) IN Len(r) \in DOMAIN r /\ r[Len(r)] = e
<1> DEFINE a == Append(s, e)
<1> DEFINE r == Last(a)
<1>1. a \in Seq(S) /\ Len(a) # 0 /\ a[Len(a)] = e
  OBVIOUS
<1> HIDE DEF a
<1>2. r \in Seq(S) /\ Len(r) \in Nat \ {0} /\ IsSuffix(r, a)
  BY <1>1, LastIsSuffix
<1> HIDE DEF r
<1>3. r[Len(r)] = a[Len(a)]
  BY <1>2 DEF IsSuffix
<1>4. DOMAIN r = 1..Len(r)
  BY <1>2, LenProperties
<1>5. Len(r) \in DOMAIN r /\ r[Len(r)] = e
  BY <1>1, <1>2, <1>3, <1>4
<1> QED BY <1>5 DEF r, a

\* The variables keep their types.
THEOREM LogTypeCorrect == LimitOK => (Spec => []TypeOK)
<1> SUFFICES ASSUME LimitOK PROVE Spec => []TypeOK
  OBVIOUS
<1>1. Init => TypeOK
  BY DEF Init, TypeOK, NoEntry, Entry, LimitOK
<1>2. TypeOK /\ [Next]_logVars => TypeOK'
  <2> SUFFICES ASSUME TypeOK, [Next]_logVars PROVE TypeOK'
    OBVIOUS
  <2> USE DEF TypeOK
  <2>1. CASE Tick
    BY <2>1 DEF Tick
  <2>2. ASSUME NEW p \in Publishers, Claim(p) PROVE TypeOK'
    BY <2>2 DEF Claim
  <2>3. ASSUME NEW p \in Publishers, NEW k \in Keys, Commit(p, k) PROVE TypeOK'
    <3>1. PICK e \in Entry :
               /\ claim' = [claim EXCEPT ![p] = 0]
               /\ current' = [current EXCEPT ![k] = e]
               /\ log' = [log EXCEPT ![k] = Last(Append(log[k], e))]
               /\ UNCHANGED counter
      BY <2>3 DEF Commit
    <3>2. Append(log[k], e) \in Seq(Entry) /\ Len(Append(log[k], e)) # 0
      OBVIOUS
    <3>3. Last(Append(log[k], e)) \in Seq(Entry)
      BY <3>2, LastIsSuffix
    <3> QED BY <3>1, <3>3
  <2>4. ASSUME NEW k \in Keys, Restore(k) PROVE TypeOK'
    BY <2>4 DEF Restore
  <2>5. CASE SetBack
    BY <2>5 DEF SetBack
  <2>6. CASE UNCHANGED logVars
    BY <2>6 DEF logVars
  <2> QED BY <2>1, <2>2, <2>3, <2>4, <2>5, <2>6 DEF Next
<1> QED BY <1>1, <1>2, PTL DEF Spec

\* Whatever is committed, trimmed and restored, the plan a key has is one its
\* log still holds (SavePlan, RollbackPlan).
THEOREM CurrentPlanLogged == LimitOK => (Spec => []CurrentInLog)
<1> SUFFICES ASSUME LimitOK PROVE Spec => []CurrentInLog
  OBVIOUS
<1>1. Init => CurrentInLog
  BY DEF Init, CurrentInLog, NoEntry
<1>2. TypeOK /\ CurrentInLog /\ [Next]_logVars => CurrentInLog'
  <2> SUFFICES ASSUME TypeOK, CurrentInLog, [Next]_logVars PROVE CurrentInLog'
    OBVIOUS
  <2>1. CASE UNCHANGED <<current, log>>
    BY <2>1 DEF CurrentInLog
  <2>2. ASSUME NEW p \in Publishers, NEW k \in Keys, Commit(p, k)
        PROVE  CurrentInLog'
    <3>0. PICK e \in Entry :
               /\ current' = [current EXCEPT ![k] = e]
               /\ log' = [log EXCEPT ![k] = Last(Append(log[k], e))]
      BY <2>2 DEF Commit
    <3> DEFINE r == Last(Append(log[k], e))
    <3>1. /\ e \in Entry
          /\ current' = [current EXCEPT ![k] = e]
          /\ log' = [log EXCEPT ![k] = r]
      BY <3>0
    <3>2. Len(r) \in DOMAIN r /\ r[Len(r)] = e
      BY LastEndsWith DEF TypeOK
    <3>3. log'[k] = r
      BY <3>1 DEF TypeOK
    <3>4. \E i \in DOMAIN log'[k] : log'[k][i] = current'[k]
      <4>1. current'[k] = e
        BY <3>1 DEF TypeOK
      <4> HIDE DEF r
      <4> QED BY <3>2, <3>3, <4>1
    <3>5. ASSUME NEW l \in Keys, l # k
          PROVE  current'[l] = current[l] /\ log'[l] = log[l]
      <4> HIDE DEF r
      <4> QED BY <3>1, <3>5 DEF TypeOK
    <3> QED BY <3>4, <3>5 DEF CurrentInLog
  <2>3. ASSUME NEW k \in Keys, Restore(k) PROVE CurrentInLog'
    BY <2>3 DEF Restore, CurrentInLog, TypeOK
  <2> QED BY <2>1, <2>2, <2>3 DEF Next, Tick, Claim, SetBack, logVars
<1> QED BY <1>1, <1>2, LogTypeCorrect, PTL DEF Spec

\* Without restores no version is logged twice: a version drawn is fresh until
\* it is committed (savePlanWithRules), whichever publisher commits first.
THEOREM LoggedVersionsUnique ==
  LimitOK /\ ~Restores => (Spec => [](VersionsUnique /\ ClaimsFresh))
<1> SUFFICES ASSUME LimitOK, ~Restores
             PROVE  Spec => [](VersionsUnique /\ ClaimsFresh)
  OBVIOUS
<1> DEFINE IInv == VersionsUnique /\ ClaimsFresh
<1>1. Init => IInv
  BY DEF Init, VersionsUnique, ClaimsFresh
<1>2. TypeOK /\ IInv /\ [Next]_logVars => IInv'
  <2> SUFFICES ASSUME TypeOK, IInv, [Next]_logVars PROVE IInv'
    OBVIOUS
  <2> USE DEF TypeOK
  <2>a. ASSUME NEW k \in Keys, NEW i \in DOMAIN log[k]
        PROVE  log[k][i].version \in Nat
    <3>1. log[k][i] \in Entry
      BY ElementOfSeq, LenProperties
    <3> QED BY <3>1 DEF Entry
  <2>1. CASE Tick
    <3>1. ClaimsFresh'
      BY <2>1, <2>a DEF Tick, ClaimsFresh
    <3> QED BY <2>1, <3>1 DEF Tick, VersionsUnique
  <2>2. ASSUME NEW p \in Publishers, Claim(p) PROVE IInv'
    <3>1. ClaimsFresh'
      BY <2>2, <2>a DEF Claim, ClaimsFresh
    <3> QED BY <2>2, <3>1 DEF Claim, VersionsUnique
  <2>3. ASSUME NEW p \in Publishers, NEW k \in Keys, Commit(p, k) PROVE IInv'
    <3>0. PICK e \in Entry :
               /\ e.version = claim[p] /\ claim[p] # 0
               /\ log' = [log EXCEPT ![k] = Last(Append(log[k], e))]
               /\ claim' = [claim EXCEPT ![p] = 0]
               /\ counter' = counter
      BY <2>3 DEF Commit
    <3> DEFINE a == Append(log[k], e)
    <3> DEFINE r == Last(a)
    <3>1. /\ e \in Entry /\ e.version = claim[p] /\ claim[p] # 0
          /\ log' = [log EXCEPT ![k] = r]
          /\ claim' = [claim EXCEPT ![p] = 0]
          /\ counter' = counter
      BY <3>0
    <3>2. /\ log[k] \in Seq(Entry)
          /\ Len(log[k]) \in Nat /\ DOMAIN log[k] = 1..Len(log[k])
      OBVIOUS
    <3>a. /\ a \in Seq(Entry) /\ Len(a) = Len(log[k]) + 1
          /\ Len(a) # 0
      BY <3>2
    <3>3. /\ r \in Seq(Entry) /\ Len(r) \in Nat \ {0} /\ DOMAIN r = 1..Len(r)
          /\ IsSuffix(r, a)
      <4> HIDE DEF a
      <4>1. r \in Seq(Entry) /\ Len(r) \in Nat \ {0} /\ IsSuffix(r, a)
        BY <3>a, LastIsSuffix
      <4> HIDE DEF r
      <4> QED BY <4>1, LenProperties
    <3>4. PICK d \in Nat : /\ Len(r) + d = Len(log[k]) + 1
                          /\ \A i \in 1..Len(r) : r[i] = a[i + d]
      <4> HIDE DEF r, a
      <4> QED BY <3>a, <3>3 DEF IsSuffix
    <3>5. \A i \in 1..Len(log[k]) : a[i] = log[k][i]
      BY <3>1, <3>2
    <3>6. a[Len(log[k]) + 1] = e
      BY <3>1, <3>2
    <3>7. \A i \in 1..Len(r) :
            \/ i + d \in DOMAIN log[k] /\ r[i] = log[k][i + d]
            \/ i + d = Len(log[k]) + 1 /\ r[i] = e
      <4> SUFFICES ASSUME NEW i \in 1..Len(r)
                   PROVE  \/ i + d \in DOMAIN log[k] /\ r[i] = log[k][i + d]
                          \/ i + d = Len(log[k]) + 1 /\ r[i] = e
        OBVIOUS
      <4> DEFINE j == i + d
      <4>1. j \in 1..(Len(log[k]) + 1) /\ r[i] = a[j]
        <5> HIDE DEF r, a
        <5> QED BY <3>2, <3>3, <3>4
      <4>2. j \in 1..Len(log[k]) \/ j = Len(log[k]) + 1
        <5> HIDE DEF j
        <5> QED BY <3>2, <4>1
      <4> HIDE DEF r, a, j
      <4>3. \/ j \in DOMAIN log[k] /\ r[i] = log[k][j]
            \/ j = Len(log[k]) + 1 /\ r[i] = e
        BY <3>2, <3>5, <3>6, <4>1, <4>2
      <4> QED BY <4>3 DEF j
    <3>8. log'[k] = r /\ \A l \in Keys : l # k => log'[l] = log[l]
      <4> HIDE DEF r
      <4> QED BY <3>1
    <3>9. ClaimsFresh'
      <4>1. \A q \in Publishers : claim'[q] = IF q = p THEN 0 ELSE claim[q]
        BY <3>1
      <4>2. /\ \A q, u \in Publishers :
                 claim'[q] # 0 /\ claim'[q] = claim'[u] => q = u
            /\ \A q \in Publishers : claim'[q] <= counter'
        BY <3>1, <4>1 DEF ClaimsFresh
      <4>3. e.version \in 1..counter /\ \A q \in Publishers : claim'[q] # e.version
        BY <3>1, <4>1 DEF ClaimsFresh
      <4>4. ASSUME NEW l \in Keys, NEW i \in DOMAIN log[l]
            PROVE  /\ log[l][i].version \in 1..counter
                   /\ \A q \in Publishers : claim'[q] # log[l][i].version
        BY <4>1, <2>a DEF ClaimsFresh
      <4>5. ASSUME NEW l \in Keys, NEW i \in DOMAIN log'[l]
            PROVE  /\ log'[l][i].version \in 1..counter'
                   /\ \A q \in Publishers : claim'[q] # log'[l][i].version
        <5>1. CASE l # k
          BY <3>1, <3>8, <4>4, <5>1
        <5>2. CASE l = k
          <6>1. i \in 1..Len(r) /\ log'[l][i] = r[i]
            <7> HIDE DEF r
            <7> QED BY <3>3, <3>8, <5>2
          <6>2. \/ i + d \in DOMAIN log[k] /\ r[i] = log[k][i + d]
                \/ r[i] = e
            BY <3>7, <6>1
          <6>3. CASE i + d \in DOMAIN log[k] /\ r[i] = log[k][i + d]
            <7> HIDE DEF r
            <7> QED BY <3>1, <4>4, <6>1, <6>3
          <6>4. CASE r[i] = e
            <7> HIDE DEF r
            <7> QED BY <3>1, <4>3, <6>1, <6>4
          <6> QED BY <6>2, <6>3, <6>4
        <5> QED BY <5>1, <5>2
      <4> QED BY <4>2, <4>5 DEF ClaimsFresh
    <3>10. VersionsUnique'
      <4>1. \A l \in Keys : \A j \in DOMAIN log[l] : log[l][j].version # e.version
        BY <3>1 DEF ClaimsFresh
      <4> DEFINE src(l, i) == IF l = k THEN i + d ELSE i
      <4>2. ASSUME NEW l \in Keys, NEW i \in DOMAIN log'[l]
            PROVE  \/ /\ src(l, i) \in DOMAIN log[l]
                      /\ log'[l][i] = log[l][src(l, i)]
                   \/ l = k /\ i + d = Len(log[k]) + 1 /\ log'[l][i] = e
        <5> HIDE DEF r, a
        <5> QED BY <3>3, <3>7, <3>8
      <4>3. ASSUME NEW l \in Keys, NEW m \in Keys,
                   NEW i \in DOMAIN log'[l], NEW j \in DOMAIN log'[m],
                   log'[l][i].version = log'[m][j].version
            PROVE  l = m /\ i = j
        <5>0. i \in Int /\ j \in Int
          <6>1. \A x \in Keys : DOMAIN log'[x] \subseteq Int
            <7>1. \A x \in Keys : DOMAIN log[x] = 1..Len(log[x])
              BY LenProperties
            <7> SUFFICES ASSUME NEW x \in Keys PROVE DOMAIN log'[x] \subseteq Int
              OBVIOUS
            <7>2. CASE x = k
              <8> HIDE DEF r
              <8> QED BY <3>3, <3>8, <7>2
            <7>3. CASE x # k
              BY <3>8, <7>1, <7>3
            <7> QED BY <7>2, <7>3
          <6> QED BY <6>1
        <5>1. \/ /\ src(l, i) \in DOMAIN log[l]
                 /\ log'[l][i] = log[l][src(l, i)]
              \/ l = k /\ i + d = Len(log[k]) + 1 /\ log'[l][i] = e
          BY <4>2
        <5>2. \/ /\ src(m, j) \in DOMAIN log[m]
                 /\ log'[m][j] = log[m][src(m, j)]
              \/ m = k /\ j + d = Len(log[k]) + 1 /\ log'[m][j] = e
          BY <4>2
        <5>3. CASE /\ src(l, i) \in DOMAIN log[l]
                   /\ log'[l][i] = log[l][src(l, i)]
                   /\ src(m, j) \in DOMAIN log[m]
                   /\ log'[m][j] = log[m][src(m, j)]
          <6>1. l = m /\ src(l, i) = src(m, j)
            <7> HIDE DEF src
            <7> QED BY <4>3, <5>3 DEF VersionsUnique
          <6> QED BY <5>0, <6>1
        <5>4. CASE /\ l = k /\ i + d = Len(log[k]) + 1 /\ log'[l][i] = e
                   /\ m = k /\ j + d = Len(log[k]) + 1
          BY <5>0, <5>4, <3>2
        <5> QED BY <4>1, <4>3, <5>1, <5>2, <5>3, <5>4
      <4> QED BY <4>3 DEF VersionsUnique
    <3> QED BY <3>9, <3>10
  <2>4. CASE UNCHANGED logVars
    BY <2>4 DEF logVars, VersionsUnique, ClaimsFresh
  <2> QED BY <2>1, <2>2, <2>3, <2>4 DEF Next, Restore, SetBack
<1> QED BY <1>1, <1>2, LogTypeCorrect, PTL DEF Spec
=============================================================================
