-------------------------- MODULE RoutePlansProofs --------------------------
(***************************************************************************)
(* Theorems about RoutePlans for every set of callers, inputs and routes,  *)
(* and for every limit.                                                    *)
(*                                                                         *)
(* What carries them: the record a caller is about to write extends the    *)
(* journal it holds locked to one that can be read.  The arithmetic behind *)
(* it is about Append: a route's places grow by one, so the next revision  *)
(* is the last one plus one.                                               *)
(***************************************************************************)
EXTENDS RoutePlans, FiniteSetTheorems, TLAPS

\* Every route with a record has a last one.
HasLast(s) ==
  \A r \in Routes :
    Places(s, r) # {} => \E k \in Places(s, r) : \A j \in Places(s, r) : j <= k

\* A caller that writes holds the lock, and what it writes can be read.
WriterInv ==
  \A c \in Callers : phase[c] = "write" =>
    /\ holder = c
    /\ damage = "none"
    /\ \E rec \in Record :
         /\ draft[c] = {rec}
         /\ rec.input = input[c]
         /\ Readable(Append(records, rec))

CallInv == \A c \in Callers : phase[c] # "idle" => input[c] \in Inputs

PlansInv ==
  /\ PlansTypeOK /\ CallInv
  /\ StaysReadable /\ HasLast(records)
  /\ WriterInv
  /\ AnswersKept

-----------------------------------------------------------------------------
\* Places of a route are finite, and behind an appended record its own.
LEMMA PlacesFinite ==
  ASSUME NEW s \in Seq(Record), NEW r
  PROVE  IsFiniteSet(Places(s, r)) /\ Places(s, r) \subseteq 1..Len(s)
<1>1. IsFiniteSet(1..Len(s))
  BY FS_Interval
<1> QED
  BY <1>1, FS_Subset DEF Places

\* An appended record adds its place to those of its route.
LEMMA PlacesAppend ==
  ASSUME NEW s \in Seq(Record), NEW rec \in Record, NEW r
  PROVE  Places(Append(s, rec), r)
           = IF rec.plan.route = r THEN Places(s, r) \cup {Len(s) + 1} ELSE Places(s, r)
<1> DEFINE t == Append(s, rec)
<1>1. t \in Seq(Record) /\ Len(t) = Len(s) + 1
  OBVIOUS
<1>2. \A k \in 1..Len(s) : t[k] = s[k]
  OBVIOUS
<1>3. t[Len(s) + 1] = rec
  OBVIOUS
<1>4. 1..Len(t) = (1..Len(s)) \cup {Len(s) + 1}
  BY <1>1
<1> HIDE DEF t
<1>5. Len(s) + 1 \notin 1..Len(s)
  OBVIOUS
<1> QED
  BY <1>2, <1>3, <1>4, <1>5 DEF Places, t

\* The number of a route's places up to one of them: its revision.
LEMMA PlacesUpTo ==
  ASSUME NEW s \in Seq(Record), NEW r, NEW k \in Nat
  PROVE  /\ IsFiniteSet({j \in Places(s, r) : j <= k})
         /\ Cardinality({j \in Places(s, r) : j <= k}) \in Nat
BY PlacesFinite, FS_Subset, FS_CardinalityType

\* Latest is the plan at the last place.
LEMMA LatestIsLast ==
  ASSUME NEW s \in Seq(Record), NEW r \in Routes, HasLast(s), Places(s, r) # {}
  PROVE  \E k \in Places(s, r) :
           /\ \A j \in Places(s, r) : j <= k
           /\ Latest(s, r) = s[k].plan
           /\ {j \in Places(s, r) : j <= k} = Places(s, r)
<1> DEFINE k == CHOOSE k \in Places(s, r) : \A j \in Places(s, r) : j <= k
<1>1. k \in Places(s, r) /\ \A j \in Places(s, r) : j <= k
  BY DEF HasLast
<1>2. Latest(s, r) = s[k].plan
  BY DEF Latest
<1> HIDE DEF k
<1> QED
  BY <1>1, <1>2

\* A route's revision is the number of its records.
LEMMA LatestRevision ==
  ASSUME NEW s \in Seq(Record), NEW r \in Routes, HasLast(s), Readable(s),
         Places(s, r) # {}
  PROVE  /\ Latest(s, r) \in Plan
         /\ Latest(s, r).route = r
         /\ Latest(s, r).revision = Cardinality(Places(s, r))
         /\ \A k \in Places(s, r) : s[k].plan.start = Latest(s, r).start
<1>1. PICK k \in Places(s, r) :
        /\ Latest(s, r) = s[k].plan
        /\ {j \in Places(s, r) : j <= k} = Places(s, r)
  BY LatestIsLast
<1>2. k \in 1..Len(s) /\ s[k] \in Record /\ s[k].plan.route = r
  BY DEF Places
<1>3. s[k].plan \in Plan
  BY <1>2 DEF Record
<1>4. s[k].plan.revision = Cardinality(Places(s, r))
  BY <1>1, <1>2 DEF Readable
<1>5. \A j \in Places(s, r) : s[j].plan.start = s[k].plan.start
  BY <1>1, <1>2 DEF Readable
<1> QED
  BY <1>1, <1>2, <1>3, <1>4, <1>5

\* Appending gives a route a last record.
LEMMA HasLastAppend ==
  ASSUME NEW s \in Seq(Record), NEW rec \in Record, HasLast(s)
  PROVE  HasLast(Append(s, rec))
<1> SUFFICES ASSUME NEW r \in Routes, Places(Append(s, rec), r) # {}
             PROVE  \E k \in Places(Append(s, rec), r) :
                      \A j \in Places(Append(s, rec), r) : j <= k
  BY DEF HasLast
<1>1. CASE rec.plan.route = r
  <2>1. Places(Append(s, rec), r) = Places(s, r) \cup {Len(s) + 1}
    BY <1>1, PlacesAppend
  <2>2. \A j \in Places(s, r) : j <= Len(s) + 1
    BY DEF Places
  <2> QED
    BY <2>1, <2>2
<1>2. CASE rec.plan.route # r
  <2>1. Places(Append(s, rec), r) = Places(s, r)
    BY <1>2, PlacesAppend
  <2> QED
    BY <2>1 DEF HasLast
<1> QED
  BY <1>1, <1>2

\* A record behind those of its route counts one more than they do.
LEMMA NextRevision ==
  ASSUME NEW s \in Seq(Record), NEW rec \in Record
  PROVE  LET t == Append(s, rec)  r == rec.plan.route IN
         /\ {j \in Places(t, r) : j <= Len(s) + 1} = Places(s, r) \cup {Len(s) + 1}
         /\ Cardinality({j \in Places(t, r) : j <= Len(s) + 1})
              = Cardinality(Places(s, r)) + 1
         /\ Cardinality(Places(s, r)) \in Nat
<1> DEFINE t == Append(s, rec)
           r == rec.plan.route
<1>1. Places(t, r) = Places(s, r) \cup {Len(s) + 1}
  BY PlacesAppend
<1>2. Places(s, r) \subseteq 1..Len(s) /\ IsFiniteSet(Places(s, r))
  BY PlacesFinite
<1>3. Len(s) + 1 \notin Places(s, r)
  BY <1>2
<1>4. {j \in Places(t, r) : j <= Len(s) + 1} = Places(s, r) \cup {Len(s) + 1}
  BY <1>1, <1>2
<1>5. Cardinality(Places(s, r) \cup {Len(s) + 1}) = Cardinality(Places(s, r)) + 1
  BY <1>2, <1>3, FS_AddElement
<1> QED
  BY <1>2, <1>4, <1>5, FS_CardinalityType

\* The revisions of the records before do not change.
LEMMA EarlierRevisions ==
  ASSUME NEW s \in Seq(Record), NEW rec \in Record, NEW r, NEW k \in 1..Len(s)
  PROVE  {j \in Places(Append(s, rec), r) : j <= k} = {j \in Places(s, r) : j <= k}
<1>1. Len(s) + 1 > k
  OBVIOUS
<1> QED
  BY <1>1, PlacesAppend

\* What build has to establish for the journal to stay readable.
LEMMA AppendReadable ==
  ASSUME NEW s \in Seq(Record), NEW rec \in Record, Readable(s),
         Consistent(rec),
         rec.plan.revision = Cardinality(Places(s, rec.plan.route)) + 1,
         \A k \in Places(s, rec.plan.route) : s[k].plan.start = rec.plan.start,
         \A k \in 1..Len(s) : s[k].input.id # rec.input.id,
         Cardinality(KnownRoutes(Append(s, rec))) <= MaxPlans
  PROVE  Readable(Append(s, rec))
<1> DEFINE t == Append(s, rec)
<1>1. t \in Seq(Record) /\ Len(t) = Len(s) + 1
  OBVIOUS
<1>2. (\A k \in 1..Len(s) : t[k] = s[k]) /\ t[Len(s) + 1] = rec
  OBVIOUS
<1>3. 1..Len(t) = (1..Len(s)) \cup {Len(s) + 1}
  BY <1>1
<1>4. ASSUME NEW k \in 1..Len(t)
      PROVE  /\ Consistent(t[k])
             /\ t[k].plan.revision = Cardinality({j \in Places(t, t[k].plan.route) : j <= k})
             /\ \A j \in Places(t, t[k].plan.route) : t[j].plan.start = t[k].plan.start
  <2> DEFINE r == t[k].plan.route
  <2>1. \A j \in Places(s, r) : j \in 1..Len(s) /\ t[j] = s[j]
    BY <1>2 DEF Places
  <2>2. CASE k \in 1..Len(s)
    <3>1. t[k] = s[k]
      BY <1>2, <2>2
    <3>2. {j \in Places(t, r) : j <= k} = {j \in Places(s, r) : j <= k}
      BY <2>2, EarlierRevisions
    <3>3. \A j \in Places(s, r) : t[j].plan.start = t[k].plan.start
      <4>1. \A j \in Places(s, s[k].plan.route) : s[j].plan.start = s[k].plan.start
        BY <2>2 DEF Readable
      <4>2. r = s[k].plan.route
        BY <3>1
      <4> HIDE DEF t, r
      <4> QED
        BY <2>1, <3>1, <4>1, <4>2
    <3>4. CASE rec.plan.route = r
      <4>1. k \in Places(s, r)
        BY <2>2, <3>1 DEF Places
      <4>2. rec.plan.start = t[k].plan.start
        BY <3>1, <3>4, <4>1
      <4>3. Places(t, r) = Places(s, r) \cup {Len(s) + 1}
        BY <3>4, PlacesAppend
      <4> HIDE DEF t
      <4>4. \A j \in Places(t, r) : t[j].plan.start = t[k].plan.start
        BY <1>2, <3>3, <4>2, <4>3
      <4> QED
        BY <2>2, <3>1, <3>2, <4>4 DEF Readable
    <3>5. CASE rec.plan.route # r
      <4>1. Places(t, r) = Places(s, r)
        BY <3>5, PlacesAppend
      <4> HIDE DEF t
      <4> QED
        BY <2>2, <3>1, <3>2, <3>3, <4>1 DEF Readable
    <3> QED
      BY <3>4, <3>5
  <2>3. CASE k = Len(s) + 1
    <3>1. t[k] = rec
      BY <1>2, <2>3
    <3>2. Cardinality({j \in Places(t, r) : j <= k}) = Cardinality(Places(s, r)) + 1
      BY <2>3, <3>1, NextRevision
    <3>3. Places(t, r) = Places(s, r) \cup {Len(s) + 1}
      BY <3>1, PlacesAppend
    <3> HIDE DEF t
    <3>4. \A j \in Places(t, r) : t[j].plan.start = rec.plan.start
      BY <1>2, <2>1, <3>1, <3>3
    <3> QED
      BY <3>1, <3>2, <3>4
  <2> QED
    BY <1>3, <2>2, <2>3
<1>5. ASSUME NEW j \in 1..Len(t), NEW k \in 1..Len(t), t[j].input.id = t[k].input.id
      PROVE  j = k
  <2> HIDE DEF t
  <2>1. \A a, b \in 1..Len(s) : s[a].input.id = s[b].input.id => a = b
    BY DEF Readable
  <2> QED
    BY <1>2, <1>3, <1>5, <2>1
<1> HIDE DEF t
<1> QED
  BY <1>4, <1>5 DEF Readable, t

\* What the readability of a longer journal says of its last record.
LEMMA AppendedRecord ==
  ASSUME NEW s \in Seq(Record), NEW rec \in Record, Readable(Append(s, rec))
  PROVE  /\ Consistent(rec)
         /\ rec.plan.revision = Cardinality(Places(s, rec.plan.route)) + 1
         /\ \A k \in Places(s, rec.plan.route) : s[k].plan.start = rec.plan.start
         /\ \A k \in 1..Len(s) : s[k].input.id # rec.input.id
         /\ Cardinality(KnownRoutes(Append(s, rec))) <= MaxPlans
<1> DEFINE t == Append(s, rec)
           n == Len(s) + 1
           r == rec.plan.route
<1>1. t \in Seq(Record) /\ Len(t) = n /\ n \in 1..Len(t) /\ n \notin 1..Len(s)
  OBVIOUS
<1>2. (\A k \in 1..Len(s) : k \in 1..Len(t) /\ t[k] = s[k]) /\ t[n] = rec
  OBVIOUS
<1>3. Cardinality({j \in Places(t, r) : j <= n}) = Cardinality(Places(s, r)) + 1
  BY NextRevision
<1>4. Places(t, r) = Places(s, r) \cup {n}
  BY PlacesAppend
<1>5. Places(s, r) \subseteq 1..Len(s)
  BY DEF Places
<1>6. /\ Consistent(t[n])
      /\ t[n].plan.revision = Cardinality({j \in Places(t, t[n].plan.route) : j <= n})
      /\ \A j \in Places(t, t[n].plan.route) : t[j].plan.start = t[n].plan.start
  <2> HIDE DEF n
  <2> QED
    BY <1>1 DEF Readable
<1>7. \A k \in 1..Len(s) : t[k].input.id = t[n].input.id => k = n
  <2> HIDE DEF n
  <2> QED
    BY <1>1, <1>2 DEF Readable
<1>8. Cardinality(KnownRoutes(t)) <= MaxPlans
  BY DEF Readable
<1> HIDE DEF t, n
<1>9. \A k \in Places(s, r) : s[k].plan.start = rec.plan.start
  BY <1>2, <1>4, <1>5, <1>6
<1>10. \A k \in 1..Len(s) : s[k].input.id # rec.input.id
  BY <1>1, <1>2, <1>7
<1> QED
  BY <1>2, <1>3, <1>6, <1>8, <1>9, <1>10 DEF t

\* A journal knows finitely many routes.
LEMMA KnownRoutesFinite ==
  ASSUME NEW s \in Seq(Record)
  PROVE  IsFiniteSet(KnownRoutes(s)) /\ Cardinality(KnownRoutes(s)) \in Nat
<1> DEFINE f == [k \in 1..Len(s) |-> s[k].plan.route]
<1>1. IsFiniteSet({f[k] : k \in 1..Len(s)})
  <2>1. IsFiniteSet(1..Len(s))
    BY FS_Interval
  <2>2. f \in Surjection(1..Len(s), {f[k] : k \in 1..Len(s)})
    BY DEF Surjection
  <2> HIDE DEF f
  <2> QED
    BY <2>1, <2>2, FS_Surjection
<1>2. KnownRoutes(s) \subseteq {f[k] : k \in 1..Len(s)}
  BY DEF KnownRoutes, Places
<1> QED
  BY <1>1, <1>2, FS_Subset, FS_CardinalityType

\* A record adds its route to the known ones.
LEMMA KnownRoutesAppend ==
  ASSUME NEW s \in Seq(Record), NEW rec \in Record
  PROVE  /\ KnownRoutes(Append(s, rec)) = KnownRoutes(s) \cup {rec.plan.route}
         /\ rec.plan.route \in KnownRoutes(s) =>
              Cardinality(KnownRoutes(Append(s, rec))) = Cardinality(KnownRoutes(s))
         /\ rec.plan.route \notin KnownRoutes(s) =>
              Cardinality(KnownRoutes(Append(s, rec))) = Cardinality(KnownRoutes(s)) + 1
<1>1. rec.plan.route \in Routes
  BY DEF Record, Plan
<1>2. \A r \in Routes : Places(Append(s, rec), r)
           = IF rec.plan.route = r THEN Places(s, r) \cup {Len(s) + 1} ELSE Places(s, r)
  BY PlacesAppend
<1>3. KnownRoutes(Append(s, rec)) = KnownRoutes(s) \cup {rec.plan.route}
  BY <1>1, <1>2 DEF KnownRoutes
<1>4. rec.plan.route \in KnownRoutes(s) => KnownRoutes(s) \cup {rec.plan.route} = KnownRoutes(s)
  OBVIOUS
<1> QED
  BY <1>3, <1>4, KnownRoutesFinite, FS_AddElement

\* A route Latest finds no plan for is not known.
LEMMA LatestKnown ==
  ASSUME NEW s \in Seq(Record), NEW r \in Routes, HasLast(s)
  PROVE  /\ r \in KnownRoutes(s) <=> Places(s, r) # {}
         /\ r \in KnownRoutes(s) => Latest(s, r) \in Plan /\ Latest(s, r) # NoPlan
         /\ r \notin KnownRoutes(s) => Latest(s, r) = NoPlan
<1>1. r \in KnownRoutes(s) <=> Places(s, r) # {}
  BY DEF KnownRoutes
<1>2. ASSUME Places(s, r) # {}
      PROVE  Latest(s, r) \in Plan
  <2>1. PICK k \in Places(s, r) : Latest(s, r) = s[k].plan
    BY <1>2, LatestIsLast
  <2>2. s[k] \in Record
    BY DEF Places
  <2> QED
    BY <2>1, <2>2 DEF Record
<1>3. NoPlan \notin Plan
  BY RoutePlansAssumption
<1> QED
  BY <1>1, <1>2, <1>3 DEF Latest

-----------------------------------------------------------------------------
\* build: a request it does not refuse becomes a record that can be read.
LEMMA BuiltReadable ==
  ASSUME PlansInv, NEW x \in Inputs, Receipts(x) = {}, Refusal(x) = "none",
         NEW p \in Built(x)
  PROVE  LET rec == [input |-> x, plan |-> p] IN
         rec \in Record /\ Readable(Append(records, rec))
<1> DEFINE rec == [input |-> x, plan |-> p]
<1>1. x \in PlanInput /\ x.worktree \in Worktrees /\ x.expected \in Nat
  BY RoutePlansAssumption DEF PlanInput
<1>2. records \in Seq(Record) /\ Readable(records) /\ HasLast(records)
  BY DEF PlansInv, PlansTypeOK, StaysReadable
<1>3. \A k \in 1..Len(records) : records[k].input.id # x.id
  BY DEF Receipts
<1>4. MaxPlans \in Nat /\ Cardinality(KnownRoutes(records)) \in Nat
  BY <1>2, KnownRoutesFinite, RoutePlansAssumption
<1>5. Cardinality(KnownRoutes(records)) <= MaxPlans
  BY <1>2 DEF Readable
<1>6. CASE x.route = NoRoute
  <2>1. PICK r \in Routes \ KnownRoutes(records) :
          p = [route |-> r, revision |-> 1, worktree |-> x.worktree, start |-> head[x.worktree]]
    BY <1>6 DEF Built
  <2>2. x.expected = 0
    BY <1>1, <1>6 DEF Refusal
  <2>3. Cardinality(KnownRoutes(records)) < MaxPlans
    BY <1>1, <1>4, <1>6, <2>2 DEF Refusal
  <2>4. head[x.worktree] \in Commits
    <3>1. head[x.worktree] \in Commits \cup {NoCommit, Missing}
      BY <1>1 DEF PlansInv, PlansTypeOK
    <3>2. head[x.worktree] # Missing /\ head[x.worktree] # NoCommit
      BY <1>1, <1>4, <1>6, <2>2, <2>3 DEF Refusal
    <3> QED
      BY <3>1, <3>2
  <2>5. p \in Plan /\ p.route = r /\ p.revision = 1 /\ p.worktree = x.worktree
    BY <1>1, <2>1, <2>4 DEF Plan
  <2>6. rec \in Record /\ rec.plan = p /\ rec.input = x
    BY <1>1, <2>5 DEF Record
  <2>7. Places(records, r) = {}
    BY <2>1 DEF KnownRoutes
  <2>8. Consistent(rec)
    BY <1>6, <2>2, <2>5, <2>6 DEF Consistent
  <2>9. rec.plan.revision = Cardinality(Places(records, r)) + 1
    BY <2>5, <2>6, <2>7, FS_EmptySet
  <2>10. Cardinality(KnownRoutes(Append(records, rec))) <= MaxPlans
    BY <1>2, <1>4, <2>1, <2>3, <2>5, <2>6, KnownRoutesAppend
  <2> HIDE DEF rec
  <2>11. Readable(Append(records, rec))
    BY <1>2, <1>3, <2>5, <2>6, <2>7, <2>8, <2>9, <2>10, AppendReadable
  <2> QED
    BY <2>6, <2>11 DEF rec
<1>7. CASE x.route # NoRoute
  <2> DEFINE r == x.route
             q == Latest(records, x.route)
  <2>1. r \in Routes
    BY <1>1, <1>7 DEF PlanInput
  <2>2. q # NoPlan
    BY <1>7 DEF Refusal
  <2>3. r \in KnownRoutes(records) /\ Places(records, r) # {}
    BY <1>2, <2>1, <2>2, LatestKnown
  <2>4. /\ q \in Plan /\ q.route = r /\ q.revision = Cardinality(Places(records, r))
        /\ \A k \in Places(records, r) : records[k].plan.start = q.start
    BY <1>2, <2>1, <2>3, LatestRevision
  <2>5. q.revision = x.expected
    BY <1>7, <2>2 DEF Refusal
  <2>6. p = [q EXCEPT !.revision = @ + 1, !.worktree = x.worktree]
    BY <1>7 DEF Built
  <2> HIDE DEF q
  <2>7. /\ p \in Plan /\ p.route = r /\ p.revision = x.expected + 1
        /\ p.worktree = x.worktree /\ p.start = q.start
    <3>1. q = [route |-> q.route, revision |-> q.revision,
               worktree |-> q.worktree, start |-> q.start]
      BY <2>4 DEF Plan
    <3>2. p = [route |-> q.route, revision |-> q.revision + 1,
               worktree |-> x.worktree, start |-> q.start]
      BY <2>6, <3>1
    <3>3. q.route = r /\ q.revision \in Nat /\ q.start \in Commits
      BY <2>4 DEF Plan
    <3> QED
      BY <1>1, <2>1, <2>5, <3>2, <3>3 DEF Plan
  <2>8. rec \in Record /\ rec.plan = p /\ rec.input = x
    BY <1>1, <2>7 DEF Record
  <2>9. x.expected # 0
    BY <1>2, <2>3, <2>4, <2>5, PlacesFinite, FS_EmptySet
  <2>10. Consistent(rec)
    BY <1>1, <2>7, <2>8, <2>9 DEF Consistent
  <2>11. rec.plan.revision = Cardinality(Places(records, r)) + 1
    BY <2>4, <2>5, <2>7, <2>8
  <2>12. Cardinality(KnownRoutes(Append(records, rec))) <= MaxPlans
    BY <1>2, <1>5, <2>3, <2>7, <2>8, KnownRoutesAppend
  <2> HIDE DEF rec
  <2>13. Readable(Append(records, rec))
    BY <1>2, <1>3, <2>4, <2>7, <2>8, <2>10, <2>11, <2>12, AppendReadable
  <2> QED
    BY <2>8, <2>13 DEF rec
<1> QED
  BY <1>6, <1>7

-----------------------------------------------------------------------------
\* An empty journal satisfies the invariant.
THEOREM PlansInvInit == PlansInit => PlansInv
<1> SUFFICES ASSUME PlansInit PROVE PlansInv
  OBVIOUS
<1>1. records = <<>> /\ Len(records) = 0 /\ 1..Len(records) = {}
  BY DEF PlansInit
<1>2. \A r : Places(records, r) = {}
  BY <1>1 DEF Places
<1>3. Readable(records)
  <2>1. KnownRoutes(records) = {}
    BY <1>2 DEF KnownRoutes
  <2>2. Cardinality(KnownRoutes(records)) <= MaxPlans
    BY <2>1, FS_EmptySet, RoutePlansAssumption
  <2> QED
    BY <1>1, <2>2 DEF Readable
<1>4. PlansTypeOK
  BY <1>1, RoutePlansAssumption DEF PlansInit, PlansTypeOK, Replies
<1> QED
  BY <1>1, <1>2, <1>3, <1>4
     DEF PlansInv, CallInv, HasLast, WriterInv, StaysReadable, AnswersKept, PlansInit

\* One caller's return keeps what is said of the calls of the others.
LEMMA ReturnKeeps ==
  ASSUME PlansInv, NEW c \in Callers,
         phase' = [phase EXCEPT ![c] = "idle"],
         input' = [input EXCEPT ![c] = NoInput],
         draft' = [draft EXCEPT ![c] = {}]
  PROVE  /\ phase' \in [Callers -> {"idle", "wait", "write"}]
         /\ input' \in [Callers -> Inputs \cup {NoInput}]
         /\ draft' \in [Callers -> SUBSET Record]
         /\ CallInv'
         /\ phase'[c] = "idle"
         /\ \A d \in Callers : d # c =>
              phase'[d] = phase[d] /\ input'[d] = input[d] /\ draft'[d] = draft[d]
BY DEF PlansInv, PlansTypeOK, CallInv

\* A call that changes neither the journal nor the lock returns.
LEMMA QuietReturn ==
  ASSUME PlansInv, NEW c \in Callers, phase[c] = "wait",
         NEW result \in Replies, Return(c, result),
         UNCHANGED <<records, damage, holder>>,
         answers' \subseteq {records[k] : k \in 1..Len(records)}
  PROVE  PlansInv'
<1>1. /\ phase' \in [Callers -> {"idle", "wait", "write"}]
      /\ input' \in [Callers -> Inputs \cup {NoInput}]
      /\ draft' \in [Callers -> SUBSET Record]
      /\ CallInv'
      /\ phase'[c] = "idle"
      /\ \A d \in Callers : d # c =>
           phase'[d] = phase[d] /\ input'[d] = input[d] /\ draft'[d] = draft[d]
  BY ReturnKeeps DEF Return
<1>2. answers' \subseteq Record
  BY DEF PlansInv, PlansTypeOK
<1>3. PlansTypeOK'
  BY <1>1, <1>2 DEF PlansInv, PlansTypeOK, Return
<1>4. WriterInv'
  <2> SUFFICES ASSUME NEW d \in Callers, phase'[d] = "write"
               PROVE  /\ holder' = d
                      /\ damage' = "none"
                      /\ \E rec \in Record :
                           /\ draft'[d] = {rec}
                           /\ rec.input = input'[d]
                           /\ Readable(Append(records', rec))
    BY DEF WriterInv
  <2>1. d # c /\ phase[d] = "write"
    BY <1>1
  <2> QED
    BY <1>1, <2>1 DEF PlansInv, WriterInv
<1>5. StaysReadable' /\ HasLast(records)'
  BY DEF PlansInv, StaysReadable
<1>6. AnswersKept'
  BY DEF AnswersKept
<1> QED
  BY <1>1, <1>3, <1>4, <1>5, <1>6 DEF PlansInv

\* The caller that writes is the only one, and gives its lock up.
LEMMA WriterReleases ==
  ASSUME PlansInv, NEW c \in Callers, phase[c] = "write",
         phase' = [phase EXCEPT ![c] = "idle"],
         input' = [input EXCEPT ![c] = NoInput],
         draft' = [draft EXCEPT ![c] = {}],
         \/ records' = records
         \/ \E rec \in draft[c] : records' = Append(records, rec),
         damage' \in {"none", "tail"},
         holder' = Nobody, reply' \in Replies,
         UNCHANGED <<backend>>, head' = head,
         answers' \subseteq {records'[k] : k \in 1..Len(records')}
  PROVE  PlansInv'
<1>1. /\ phase' \in [Callers -> {"idle", "wait", "write"}]
      /\ input' \in [Callers -> Inputs \cup {NoInput}]
      /\ draft' \in [Callers -> SUBSET Record]
      /\ CallInv'
      /\ phase'[c] = "idle"
      /\ \A d \in Callers : d # c =>
           phase'[d] = phase[d] /\ input'[d] = input[d] /\ draft'[d] = draft[d]
  BY ReturnKeeps
<1>2. PICK rec \in Record : draft[c] = {rec} /\ Readable(Append(records, rec))
  BY DEF PlansInv, WriterInv
<1>3. records' = records \/ records' = Append(records, rec)
  BY <1>2
<1>4. records \in Seq(Record) /\ Readable(records) /\ HasLast(records)
  BY DEF PlansInv, PlansTypeOK, StaysReadable
<1>5. records' \in Seq(Record) /\ Readable(records') /\ HasLast(records')
  <2>1. Append(records, rec) \in Seq(Record) /\ HasLast(Append(records, rec))
    BY <1>4, HasLastAppend
  <2>2. CASE records' = records
    BY <1>4, <2>2
  <2>3. CASE records' = Append(records, rec)
    BY <1>2, <2>1, <2>3
  <2> QED
    BY <1>3, <2>2, <2>3
<1>6. \A k \in 1..Len(records') : records'[k] \in Record
  BY <1>5
<1>7. answers' \subseteq Record
  BY <1>6
<1>8. PlansTypeOK'
  BY <1>1, <1>5, <1>7 DEF PlansInv, PlansTypeOK
<1>9. WriterInv'
  BY <1>1 DEF PlansInv, WriterInv
<1>10. StaysReadable' /\ HasLast(records)'
  BY <1>5 DEF StaysReadable
<1>11. AnswersKept'
  BY DEF AnswersKept
<1> QED
  BY <1>1, <1>8, <1>9, <1>10, <1>11 DEF PlansInv

\* A written record is kept, and so are the answers given before.
LEMMA AppendKeeps ==
  ASSUME NEW s \in Seq(Record), NEW rec \in Record, NEW t,
         t = s \/ t = Append(s, rec)
  PROVE  /\ {s[k] : k \in 1..Len(s)} \subseteq {t[k] : k \in 1..Len(t)}
         /\ t = Append(s, rec) => rec \in {t[k] : k \in 1..Len(t)}
<1>1. CASE t = s
  <2>1. Append(s, rec)[Len(s) + 1] = rec /\ Len(s) + 1 \in 1..Len(Append(s, rec))
    OBVIOUS
  <2> QED
    BY <1>1, <2>1
<1>2. CASE t = Append(s, rec)
  <2>1. \A k \in 1..Len(s) : k \in 1..Len(t) /\ t[k] = s[k]
    BY <1>2
  <2>2. Len(s) + 1 \in 1..Len(t) /\ t[Len(s) + 1] = rec
    BY <1>2
  <2> QED
    BY <2>1, <2>2
<1> QED
  BY <1>1, <1>2

-----------------------------------------------------------------------------
\* One lemma per action that does more than return.
LEMMA ReplayKeeps ==
  ASSUME PlansInv, NEW c \in Callers, Replay(c)
  PROVE  PlansInv'
<1>1. PICK k \in Receipts(input[c]) :
        IF records[k].input = input[c] THEN ReturnPlan(c, records[k].plan)
        ELSE ReturnError(c, "reused")
  BY DEF Replay
<1>2. k \in 1..Len(records) /\ records[k] \in Record
  BY DEF Receipts, PlansInv, PlansTypeOK
<1>3. phase[c] = "wait" /\ UNCHANGED <<records, damage, holder>>
  BY DEF Replay, Reading
<1>4. CASE records[k].input = input[c]
  <2>1. Return(c, "ok")
    BY <1>1, <1>4 DEF ReturnPlan
  <2>2. [input |-> input[c], plan |-> records[k].plan] = records[k]
    BY <1>2, <1>4 DEF Record
  <2>3. answers' = answers \cup {records[k]}
    BY <1>1, <1>4, <2>2 DEF ReturnPlan
  <2>4. answers' \subseteq {records[j] : j \in 1..Len(records)}
    BY <1>2, <2>3 DEF PlansInv, AnswersKept
  <2>5. "ok" \in Replies
    BY DEF Replies
  <2> QED
    BY <1>3, <2>1, <2>4, <2>5, QuietReturn
<1>5. CASE records[k].input # input[c]
  <2>1. Return(c, "reused") /\ UNCHANGED answers /\ "reused" \in Replies
    BY <1>1, <1>5 DEF ReturnError, Replies
  <2> QED
    BY <1>3, <2>1, QuietReturn DEF PlansInv, AnswersKept
<1> QED
  BY <1>4, <1>5

\* Whatever build refuses for is one of the answers.
LEMMA RefusalIsReply == ASSUME NEW x PROVE Refusal(x) \in Refusals \cup {"none"}
BY DEF Refusal, Refusals

\* Errors change nothing.
LEMMA ErrorReturnKeeps ==
  ASSUME PlansInv, NEW c \in Callers, LockTimeout(c) \/ ReadFails(c) \/ Refuse(c)
  PROVE  PlansInv'
<1>1. PICK error \in Replies : ReturnError(c, error)
  BY RefusalIsReply DEF LockTimeout, ReadFails, Refuse, Replies
<1>2. phase[c] = "wait" /\ UNCHANGED <<records, damage, holder>>
  BY DEF LockTimeout, ReadFails, Refuse, Reading
<1> QED
  BY <1>1, <1>2, QuietReturn DEF ReturnError, PlansInv, AnswersKept

\* build: the caller takes the lock with a record that can be read.
LEMMA BuildKeeps ==
  ASSUME PlansInv, NEW c \in Callers, Build(c)
  PROVE  PlansInv'
<1>1. PICK p \in Built(input[c]) :
        draft' = [draft EXCEPT ![c] = {[input |-> input[c], plan |-> p]}]
  BY DEF Build
<1> DEFINE rec == [input |-> input[c], plan |-> p]
<1>2. /\ phase[c] = "wait" /\ holder = Nobody /\ damage = "none"
      /\ phase' = [phase EXCEPT ![c] = "write"] /\ holder' = c
      /\ UNCHANGED <<backend, records, damage, input, reply, answers, head>>
  BY DEF Build, Reading
<1>3. input[c] \in Inputs
  BY <1>2 DEF PlansInv, CallInv
<1>4. rec \in Record /\ Readable(Append(records, rec))
  BY <1>1, <1>3, BuiltReadable DEF Build
<1>5. rec.input = input[c]
  OBVIOUS
<1> HIDE DEF rec
<1>6. draft' = [draft EXCEPT ![c] = {rec}]
  BY <1>1 DEF rec
<1>7. \A d \in Callers : phase[d] # "write"
  BY <1>2, RoutePlansAssumption DEF PlansInv, WriterInv
<1>8. PlansTypeOK'
  BY <1>2, <1>4, <1>6 DEF PlansInv, PlansTypeOK
<1>9. WriterInv'
  <2> SUFFICES ASSUME NEW d \in Callers, phase'[d] = "write"
               PROVE  /\ holder' = d
                      /\ damage' = "none"
                      /\ \E r \in Record :
                           /\ draft'[d] = {r}
                           /\ r.input = input'[d]
                           /\ Readable(Append(records', r))
    BY DEF WriterInv
  <2>1. d = c
    BY <1>2, <1>7 DEF PlansInv, PlansTypeOK
  <2>2. draft'[c] = {rec}
    BY <1>6 DEF PlansInv, PlansTypeOK
  <2> QED
    BY <1>2, <1>4, <1>5, <2>1, <2>2
<1>10. CallInv'
  BY <1>2, <1>3 DEF PlansInv, CallInv, PlansTypeOK
<1>11. StaysReadable' /\ HasLast(records)' /\ AnswersKept'
  BY <1>2 DEF PlansInv, StaysReadable, AnswersKept
<1> QED
  BY <1>8, <1>9, <1>10, <1>11 DEF PlansInv

\* The written record stands in the journal and is the answer.
LEMMA CommitKeeps ==
  ASSUME PlansInv, NEW c \in Callers, Commit(c)
  PROVE  PlansInv'
<1>1. phase[c] = "write" /\ holder' = Nobody /\ damage' = Damaged
  BY DEF Commit
<1>2. PICK rec \in draft[c] : records' = Append(records, rec) /\ ReturnPlan(c, rec.plan)
  BY DEF Commit
<1>3. damage = "none" /\ rec \in Record /\ rec.input = input[c]
  BY <1>1, <1>2 DEF PlansInv, WriterInv
<1>4. [input |-> input[c], plan |-> rec.plan] = rec
  BY <1>3 DEF Record
<1>5. answers' = answers \cup {rec}
  BY <1>2, <1>4 DEF ReturnPlan
<1>6. answers' \subseteq {records'[k] : k \in 1..Len(records')}
  <2>1. records \in Seq(Record)
    BY DEF PlansInv, PlansTypeOK
  <2>2. /\ {records[k] : k \in 1..Len(records)} \subseteq {records'[k] : k \in 1..Len(records')}
        /\ rec \in {records'[k] : k \in 1..Len(records')}
    BY <1>2, <1>3, <2>1, AppendKeeps
  <2>3. answers \subseteq {records[k] : k \in 1..Len(records)}
    BY DEF PlansInv, AnswersKept
  <2> QED
    BY <1>5, <2>2, <2>3
<1>7. damage' \in {"none", "tail"}
  BY <1>1, <1>3 DEF Damaged
<1>8. "ok" \in Replies
  BY DEF Replies
<1> QED
  BY <1>1, <1>2, <1>6, <1>7, <1>8, WriterReleases DEF ReturnPlan, Return

\* An interrupted write leaves one of the journals WriterReleases is about.
LEMMA InterruptedKeeps ==
  ASSUME PlansInv, NEW c \in Callers, phase[c] = "write", Interrupted(c)
  PROVE  /\ \/ records' = records
            \/ \E rec \in draft[c] : records' = Append(records, rec)
         /\ damage' \in {"none", "tail"}
         /\ answers \subseteq {records'[k] : k \in 1..Len(records')}
<1>1. damage = "none"
  BY DEF PlansInv, WriterInv
<1>2. \/ records' = records
      \/ \E rec \in draft[c] : records' = Append(records, rec)
  BY DEF Interrupted
<1>3. damage' \in {"none", "tail"}
  BY <1>1 DEF Interrupted, Damaged
<1>4. draft[c] \subseteq Record /\ records \in Seq(Record)
  BY DEF PlansInv, PlansTypeOK
<1>5. answers \subseteq {records'[k] : k \in 1..Len(records')}
  <2>1. CASE records' = records
    BY <2>1 DEF PlansInv, AnswersKept
  <2>2. CASE \E rec \in draft[c] : records' = Append(records, rec)
    <3>1. PICK rec \in Record : records' = Append(records, rec)
      BY <1>4, <2>2
    <3> QED
      BY <1>4, <3>1, AppendKeeps DEF PlansInv, AnswersKept
  <2> QED
    BY <1>2, <2>1, <2>2
<1> QED
  BY <1>2, <1>3, <1>5

\* A write that is given up or reports an error.
LEMMA WriterFailsKeeps ==
  ASSUME PlansInv, NEW c \in Callers, GiveUp(c) \/ WriteFails(c)
  PROVE  PlansInv'
<1>1. phase[c] = "write" /\ holder' = Nobody /\ Return(c, "failed") /\ UNCHANGED answers
  BY DEF GiveUp, WriteFails, ReturnError
<1>2. "failed" \in Replies
  BY DEF Replies
<1>3. CASE GiveUp(c)
  <2>1. records' = records /\ damage' = damage /\ damage = "none"
    BY <1>1, <1>3 DEF GiveUp, PlansInv, WriterInv
  <2>2. answers' \subseteq {records'[k] : k \in 1..Len(records')}
    BY <1>1, <2>1 DEF PlansInv, AnswersKept
  <2> QED
    BY <1>1, <1>2, <2>1, <2>2, WriterReleases DEF Return
<1>4. CASE WriteFails(c)
  <2>1. Interrupted(c)
    BY <1>4 DEF WriteFails
  <2> QED
    BY <1>1, <1>2, <2>1, InterruptedKeeps, WriterReleases DEF Return
<1> QED
  BY <1>3, <1>4

\* A new call has neither lock nor record.
LEMMA CallKeeps ==
  ASSUME PlansInv, NEW c \in Callers, NEW x \in Inputs, Call(c, x)
  PROVE  PlansInv'
<1>1. /\ phase' = [phase EXCEPT ![c] = "wait"]
      /\ input' = [input EXCEPT ![c] = x]
      /\ phase[c] = "idle"
      /\ UNCHANGED <<backend, records, damage, holder, draft, reply, answers, head>>
  BY DEF Call
<1>2. PlansTypeOK'
  BY <1>1 DEF PlansInv, PlansTypeOK
<1>3. CallInv'
  BY <1>1 DEF PlansInv, CallInv, PlansTypeOK
<1>4. \A d \in Callers : phase'[d] = "write" =>
        phase[d] = "write" /\ input'[d] = input[d] /\ draft'[d] = draft[d]
  BY <1>1 DEF PlansInv, PlansTypeOK
<1>5. WriterInv'
  BY <1>1, <1>4 DEF PlansInv, WriterInv
<1> QED
  BY <1>1, <1>2, <1>3, <1>5 DEF PlansInv, StaysReadable, AnswersKept

\* A caller dies, with or without the lock.
LEMMA DieKeeps ==
  ASSUME PlansInv, NEW c \in Callers, Die(c)
  PROVE  PlansInv'
<1>1. /\ phase' = [phase EXCEPT ![c] = "idle"]
      /\ input' = [input EXCEPT ![c] = NoInput]
      /\ draft' = [draft EXCEPT ![c] = {}]
      /\ reply' = "none" /\ "none" \in Replies
      /\ UNCHANGED <<backend, answers, head>>
      /\ holder' = IF holder = c THEN Nobody ELSE holder
  BY DEF Die, Replies
<1>2. CASE phase[c] = "write"
  <2>1. Interrupted(c) /\ holder = c
    BY <1>2 DEF Die, PlansInv, WriterInv
  <2> QED
    BY <1>1, <1>2, <2>1, InterruptedKeeps, WriterReleases
<1>3. CASE phase[c] # "write"
  <2>1. UNCHANGED <<records, damage>>
    BY <1>3 DEF Die
  <2>2. /\ phase' \in [Callers -> {"idle", "wait", "write"}]
        /\ input' \in [Callers -> Inputs \cup {NoInput}]
        /\ draft' \in [Callers -> SUBSET Record]
        /\ CallInv'
        /\ phase'[c] = "idle"
        /\ \A d \in Callers : d # c =>
             phase'[d] = phase[d] /\ input'[d] = input[d] /\ draft'[d] = draft[d]
    BY <1>1, ReturnKeeps
  <2>3. holder' \in Callers \cup {Nobody}
    BY <1>1 DEF PlansInv, PlansTypeOK
  <2>4. PlansTypeOK'
    BY <1>1, <2>1, <2>2, <2>3 DEF PlansInv, PlansTypeOK
  <2>5. ASSUME NEW d \in Callers, phase'[d] = "write"
        PROVE  /\ holder' = d
               /\ damage' = "none"
               /\ \E rec \in Record :
                    /\ draft'[d] = {rec}
                    /\ rec.input = input'[d]
                    /\ Readable(Append(records', rec))
    <3>1. d # c /\ phase[d] = "write"
      BY <2>2, <2>5
    <3>2. holder = d
      BY <3>1 DEF PlansInv, WriterInv
    <3> QED
      BY <1>1, <2>1, <2>2, <3>1, <3>2 DEF PlansInv, WriterInv
  <2>6. WriterInv'
    BY <2>5 DEF WriterInv
  <2> QED
    BY <1>1, <2>1, <2>2, <2>4, <2>6 DEF PlansInv, StaysReadable, AnswersKept
<1> QED
  BY <1>2, <1>3

\* Git alone changes.
LEMMA UnchangedKeeps ==
  ASSUME PlansInv,
         UNCHANGED <<backend, records, damage, holder, phase, input, draft, reply, answers>>,
         head' \in [Worktrees -> Commits \cup {NoCommit, Missing}],
         \A w \in Worktrees : head'[w] \in Heads[w]
  PROVE  PlansInv'
<1>1. PlansTypeOK' /\ CallInv'
  BY DEF PlansInv, PlansTypeOK, CallInv
<1>2. StaysReadable' /\ HasLast(records)' /\ AnswersKept'
  BY DEF PlansInv, StaysReadable, AnswersKept
<1>3. WriterInv'
  BY DEF PlansInv, WriterInv
<1> QED
  BY <1>1, <1>2, <1>3 DEF PlansInv

\* Git moves within the HEADs it may have.
LEMMA GitMovesKeeps ==
  ASSUME PlansInv, NEW w \in Worktrees, GitMoves(w)
  PROVE  PlansInv'
<1>1. PICK h \in Heads[w] : head' = [head EXCEPT ![w] = h]
  BY DEF GitMoves
<1>2. h \in Commits \cup {NoCommit, Missing}
  BY RoutePlansAssumption
<1>3. /\ head' \in [Worktrees -> Commits \cup {NoCommit, Missing}]
      /\ \A v \in Worktrees : head'[v] \in Heads[v]
  BY <1>1, <1>2 DEF PlansInv, PlansTypeOK
<1> QED
  BY <1>3, UnchangedKeeps DEF GitMoves

\* Every call, return, write, failure, death and move of Git preserves it.
THEOREM PlansInvInductive == PlansInv /\ [PlansNext]_planVars => PlansInv'
<1> SUFFICES ASSUME PlansInv, [PlansNext]_planVars PROVE PlansInv'
  OBVIOUS
<1>1. CASE UNCHANGED planVars
  BY <1>1, UnchangedKeeps DEF planVars, PlansInv, PlansTypeOK
<1>2. ASSUME NEW c \in Callers, SetStep(c) PROVE PlansInv'
  <2>1. CASE \E x \in Inputs : Call(c, x)
    BY <2>1, CallKeeps
  <2>2. CASE LockTimeout(c) \/ ReadFails(c) \/ Refuse(c)
    BY <2>2, ErrorReturnKeeps
  <2>3. CASE Replay(c)
    BY <2>3, ReplayKeeps
  <2>4. CASE Build(c)
    BY <2>4, BuildKeeps
  <2>5. CASE Commit(c)
    BY <2>5, CommitKeeps
  <2>6. CASE GiveUp(c) \/ WriteFails(c)
    BY <2>6, WriterFailsKeeps
  <2>7. CASE Die(c)
    BY <2>7, DieKeeps
  <2> QED
    BY <1>2, <2>1, <2>2, <2>3, <2>4, <2>5, <2>6, <2>7 DEF SetStep
<1>3. CASE \E w \in Worktrees : GitMoves(w)
  BY <1>3, GitMovesKeeps
<1> QED
  BY <1>1, <1>2, <1>3 DEF PlansNext

\* The invariant above holds in every reachable state.
THEOREM PlansInvariant == PlansSpec => []PlansInv
BY PlansInvInit, PlansInvInductive, PTL DEF PlansSpec

-----------------------------------------------------------------------------
\* Types; among them: a plan starts at a commit, never at an unborn HEAD.
THEOREM PlansTypeCorrect == PlansSpec => []PlansTypeOK
<1>1. PlansInv => PlansTypeOK
  BY DEF PlansInv
<1> QED
  BY <1>1, PlansInvariant, PTL

\* Whatever calls, crashes and failed writes do, the journal can be read but
\* for an incomplete last line.
THEOREM JournalStaysReadable == PlansSpec => []StaysReadable
<1>1. PlansInv => StaysReadable
  BY DEF PlansInv
<1> QED
  BY <1>1, PlansInvariant, PTL

\* A plan a caller was given stands in the journal.
THEOREM AnswersAreKept == PlansSpec => []AnswersKept
<1>1. PlansInv => AnswersKept
  BY DEF PlansInv
<1> QED
  BY <1>1, PlansInvariant, PTL

\* One request has one answer.
THEOREM RequestsHaveOneAnswer == PlansSpec => []SameAnswer
<1>1. PlansInv => SameAnswer
  <2> SUFFICES ASSUME PlansInv, NEW a \in answers, NEW b \in answers,
                      a.input.id = b.input.id
               PROVE  a = b
    BY DEF SameAnswer
  <2>1. PICK j \in 1..Len(records), k \in 1..Len(records) :
          a = records[j] /\ b = records[k]
    BY DEF PlansInv, AnswersKept
  <2>2. j = k
    BY <2>1 DEF PlansInv, StaysReadable, Readable
  <2> QED
    BY <2>1, <2>2
<1> QED
  BY <1>1, PlansInvariant, PTL

\* Records of one route have different revisions.
LEMMA RevisionsDiffer ==
  ASSUME NEW s \in Seq(Record), Readable(s), NEW j \in 1..Len(s), NEW k \in 1..Len(s),
         s[j].plan.route = s[k].plan.route, s[j].plan.revision = s[k].plan.revision
  PROVE  ~ (j < k)
<1> SUFFICES ASSUME j < k PROVE FALSE
  OBVIOUS
<1> DEFINE r == s[k].plan.route
           A == {i \in Places(s, r) : i <= j}
           B == {i \in Places(s, r) : i <= k}
<1>1. Cardinality(A) = Cardinality(B)
  BY DEF Readable
<1>2. A \subseteq B /\ IsFiniteSet(B)
  <2>1. A \subseteq B
    BY DEF Places
  <2>2. k \in Nat
    OBVIOUS
  <2>3. IsFiniteSet(B)
    BY <2>2, PlacesUpTo
  <2> QED
    BY <2>1, <2>3
<1>3. k \in B /\ k \notin A
  BY DEF Places
<1> HIDE DEF A, B
<1> QED
  BY <1>1, <1>2, <1>3, FS_Subset

\* Of two callers that replace the same revision one fails.
THEOREM NoUpdateIsLost == PlansSpec => []NoLostUpdate
<1>1. PlansInv => NoLostUpdate
  <2> SUFFICES ASSUME PlansInv, NEW a \in answers, NEW b \in answers,
                      a.plan.route = b.plan.route, a.plan.revision = b.plan.revision
               PROVE  a = b
    BY DEF NoLostUpdate
  <2>1. PICK j \in 1..Len(records), k \in 1..Len(records) :
          a = records[j] /\ b = records[k]
    BY DEF PlansInv, AnswersKept
  <2>2. records \in Seq(Record) /\ Readable(records)
    BY DEF PlansInv, PlansTypeOK, StaysReadable
  <2>3. ~ (j < k) /\ ~ (k < j)
    BY <2>1, <2>2, RevisionsDiffer
  <2> QED
    BY <2>1, <2>3
<1> QED
  BY <1>1, PlansInvariant, PTL

\* A request that took effect is answered by its receipt, never refused.
THEOREM RetriesAreNotRefused == PlansSpec => RetryNeverRefused
<1> DEFINE Kept == \A c \in Callers :
             phase[c] = "wait" /\ phase'[c] = "idle" /\ reply' \in Refusals
             => \A k \in 1..Len(records) : records[k].input # input[c]
<1>1. PlansInv /\ [PlansNext]_planVars => Kept
  <2> SUFFICES ASSUME PlansInv, [PlansNext]_planVars, NEW c \in Callers,
                      phase[c] = "wait", phase'[c] = "idle", reply' \in Refusals
               PROVE  \A k \in 1..Len(records) : records[k].input # input[c]
    OBVIOUS
  <2>1. phase \in [Callers -> {"idle", "wait", "write"}]
    BY DEF PlansInv, PlansTypeOK
  <2>2. ~ UNCHANGED planVars /\ ~ \E w \in Worktrees : GitMoves(w)
    BY DEF planVars, GitMoves
  <2>3. PICK d \in Callers : SetStep(d)
    BY <2>2 DEF PlansNext
  <2>4. d = c
    BY <2>1, <2>3 DEF SetStep, Call, LockTimeout, ReadFails, Replay, Refuse, Build,
       Commit, GiveUp, WriteFails, Die, ReturnError, ReturnPlan, Return
  <2>5. reply' \notin {"ok", "reused", "failed", "none"}
    BY DEF Refusals
  <2>6. ~ (\E x \in Inputs : Call(c, x)) /\ ~ Build(c)
    BY <2>1 DEF Call, Build
  <2>7. ~ (LockTimeout(c) \/ ReadFails(c) \/ GiveUp(c) \/ WriteFails(c))
    BY <2>5 DEF LockTimeout, ReadFails, GiveUp, WriteFails, ReturnError, Return
  <2>8. ~ Replay(c) /\ ~ Commit(c) /\ ~ Die(c)
    BY <2>5 DEF Replay, Commit, Die, ReturnPlan, ReturnError, Return
  <2>9. Refuse(c)
    BY <2>3, <2>4, <2>6, <2>7, <2>8 DEF SetStep
  <2> QED
    BY <2>9 DEF Refuse, Receipts
<1>2. PlansSpec => [][PlansNext]_planVars
  BY DEF PlansSpec
<1>3. PlansInv /\ [PlansNext]_planVars => [Kept]_planVars
  BY <1>1
<1> QED
  BY <1>2, <1>3, PlansInvariant, PTL DEF RetryNeverRefused

-----------------------------------------------------------------------------
(***************************************************************************)
(* RoutePlans implements PlanRegister.                                     *)
(***************************************************************************)

\* An appended record is its route's latest, and no other's.
LEMMA LatestAppend ==
  ASSUME NEW s \in Seq(Record), NEW rec \in Record, NEW r \in Routes, HasLast(s)
  PROVE  Latest(Append(s, rec), r)
           = IF rec.plan.route = r THEN rec.plan ELSE Latest(s, r)
<1> DEFINE t == Append(s, rec)
<1>1. (\A k \in 1..Len(s) : t[k] = s[k]) /\ t[Len(s) + 1] = rec
  OBVIOUS
<1>2. Places(s, r) \subseteq 1..Len(s)
  BY DEF Places
<1>3. CASE rec.plan.route = r
  <2>1. Places(t, r) = Places(s, r) \cup {Len(s) + 1}
    BY <1>3, PlacesAppend
  <2>2. HasLast(t)
    BY HasLastAppend
  <2> HIDE DEF t
  <2>3. PICK k \in Places(t, r) : (\A j \in Places(t, r) : j <= k) /\ Latest(t, r) = t[k].plan
    BY <2>1, <2>2, t \in Seq(Record), LatestIsLast DEF t
  <2>4. k = Len(s) + 1
    BY <1>2, <2>1, <2>3
  <2> QED
    BY <1>1, <1>3, <2>3, <2>4 DEF t
<1>4. CASE rec.plan.route # r
  <2>1. Places(t, r) = Places(s, r)
    BY <1>4, PlacesAppend
  <2> HIDE DEF t
  <2>2. CASE Places(s, r) = {}
    BY <1>4, <2>1, <2>2 DEF Latest, t
  <2>3. CASE Places(s, r) # {}
    <3> DEFINE k == CHOOSE k \in Places(s, r) : \A j \in Places(s, r) : j <= k
    <3>1. k \in Places(s, r)
      BY <2>3 DEF HasLast
    <3>2. Latest(t, r) = t[k].plan /\ Latest(s, r) = s[k].plan
      BY <2>1, <2>3 DEF Latest
    <3> HIDE DEF k
    <3> QED
      BY <1>1, <1>2, <1>4, <3>1, <3>2 DEF t
  <2> QED
    BY <2>2, <2>3
<1> QED
  BY <1>3, <1>4

\* The journal as the abstract registers.
PlanOf(s) == [r \in Routes |-> Latest(s, r)]
ReceiptsOf(s) == {s[k] : k \in 1..Len(s)}

\* One receipt more, one register changed.
LEMMA AppendedReceipts ==
  ASSUME NEW s \in Seq(Record), NEW rec \in Record, HasLast(s)
  PROVE  /\ ReceiptsOf(Append(s, rec)) = ReceiptsOf(s) \cup {rec}
         /\ PlanOf(Append(s, rec)) = [PlanOf(s) EXCEPT ![rec.plan.route] = rec.plan]
<1> DEFINE t == Append(s, rec)
<1>1. (\A k \in 1..Len(s) : t[k] = s[k]) /\ t[Len(s) + 1] = rec
  OBVIOUS
<1>2. 1..Len(t) = (1..Len(s)) \cup {Len(s) + 1}
  OBVIOUS
<1>3. ReceiptsOf(t) = ReceiptsOf(s) \cup {rec}
  <2> HIDE DEF t
  <2> QED
    BY <1>1, <1>2 DEF ReceiptsOf
<1>4. \A r \in Routes : Latest(t, r) = IF rec.plan.route = r THEN rec.plan ELSE Latest(s, r)
  BY LatestAppend
<1>5. PlanOf(t) = [PlanOf(s) EXCEPT ![rec.plan.route] = rec.plan]
  <2> HIDE DEF t
  <2> QED
    BY <1>4 DEF PlanOf
<1> QED
  BY <1>3, <1>5

\* Appending what a caller built is a step of one register.
LEMMA AppendIsPut ==
  ASSUME PlansInv, NEW c \in Callers, phase[c] = "write",
         NEW rec \in draft[c], records' = Append(records, rec)
  PROVE  Register!RegisterNext
<1> DEFINE x == rec.input
           p == rec.plan
           r == rec.plan.route
           q == Latest(records, r)
<1>1. /\ rec \in Record /\ rec.input = input[c] /\ Readable(Append(records, rec))
      /\ records \in Seq(Record) /\ Readable(records) /\ HasLast(records)
  BY DEF PlansInv, PlansTypeOK, StaysReadable, WriterInv
<1>2. x \in Inputs /\ x \in PlanInput
  BY <1>1, RoutePlansAssumption DEF PlansInv, CallInv
<1>3. /\ Consistent(rec)
      /\ p.revision = Cardinality(Places(records, r)) + 1
      /\ \A k \in Places(records, r) : records[k].plan.start = p.start
      /\ \A k \in 1..Len(records) : records[k].input.id # x.id
      /\ Cardinality(KnownRoutes(Append(records, rec))) <= MaxPlans
  BY <1>1, AppendedRecord
<1>4. p \in Plan /\ r \in Routes /\ p.start \in Commits /\ p.revision \in Nat /\ x.expected \in Nat
  BY <1>1, <1>2 DEF Record, Plan, PlanInput
<1>5. p = [route |-> p.route, revision |-> p.revision,
           worktree |-> p.worktree, start |-> p.start]
  BY <1>4 DEF Plan
<1>6. p.worktree = x.worktree /\ p.revision = x.expected + 1
      /\ x.route = (IF p.revision = 1 THEN NoRoute ELSE r)
  BY <1>3 DEF Consistent
<1>7. rec = [input |-> x, plan |-> p]
  BY <1>1 DEF Record
<1>8. Register!Unused(x)
  BY <1>3 DEF Register!Unused
<1>9. Register!Put(x, p)
  <2>1. /\ ReceiptsOf(records') = ReceiptsOf(records) \cup {[input |-> x, plan |-> p]}
        /\ PlanOf(records') = [PlanOf(records) EXCEPT ![p.route] = p]
    BY <1>1, <1>7, AppendedReceipts
  <2> QED
    BY <2>1 DEF Register!Put, ReceiptsOf, PlanOf
<1>10. Cardinality(Places(records, r)) \in Nat /\ IsFiniteSet(Places(records, r))
  BY <1>1, PlacesFinite, FS_CardinalityType
<1>11. Register!Used = KnownRoutes(records)
  BY <1>1, LatestKnown DEF Register!Used, KnownRoutes
<1> DEFINE n == Cardinality(KnownRoutes(records))
<1>14. Register!Cardinality(Register!Used) = n
  BY <1>11 DEF Register!Cardinality, Cardinality
<1> HIDE DEF p, q, r, x
<1>12. CASE p.revision = 1
  <2>1. Places(records, r) = {}
    BY <1>3, <1>10, <1>12, FS_EmptySet
  <2>2. r \notin KnownRoutes(records)
    BY <2>1 DEF KnownRoutes
  <2>3. Cardinality(KnownRoutes(records)) < MaxPlans
    BY <1>1, <1>3, <2>2, KnownRoutesAppend, KnownRoutesFinite, RoutePlansAssumption DEF r
  <2>4. x.route = NoRoute /\ x.expected = 0
    BY <1>4, <1>6, <1>12
  <2>5. p = [route |-> r, revision |-> 1, worktree |-> x.worktree, start |-> p.start]
    BY <1>5, <1>6, <1>12 DEF r, p
  <2>6. Register!Put(x, [route |-> r, revision |-> 1,
                         worktree |-> x.worktree, start |-> p.start])
    BY <1>9, <2>5
  <2>7. r \notin Register!Used /\ Register!Cardinality(Register!Used) < MaxPlans
    BY <1>11, <1>14, <2>2, <2>3
  <2>8. Register!Open(x, r, p.start)
    BY <2>4, <2>6, <2>7 DEF Register!Open
  <2> QED
    BY <1>2, <1>4, <1>8, <2>8 DEF Register!RegisterNext, r
<1>13. CASE p.revision # 1
  <2>1. Places(records, r) # {}
    BY <1>3, <1>10, <1>13, FS_EmptySet
  <2>2. /\ q \in Plan /\ q.route = r /\ q.revision = Cardinality(Places(records, r))
        /\ \A k \in Places(records, r) : records[k].plan.start = q.start
    BY <1>1, <1>4, <2>1, LatestRevision DEF q, r
  <2>3. r \in KnownRoutes(records)
    BY <1>4, <2>1 DEF KnownRoutes
  <2>4. q.start = p.start
    BY <1>3, <2>1, <2>2
  <2>6. p = [route |-> r, revision |-> x.expected + 1, worktree |-> x.worktree,
             start |-> q.start]
    BY <1>5, <1>6, <2>4 DEF r, p
  <2>7. q.revision = x.expected
    BY <1>3, <1>4, <1>6, <1>10, <2>2
  <2>8. [s \in Routes |-> Latest(records, s)][r] = q
    BY <1>4 DEF q, r
  <2>9. Register!Put(x, [route |-> r, revision |-> x.expected + 1,
                         worktree |-> x.worktree,
                         start |-> [s \in Routes |-> Latest(records, s)][r].start])
    <3>1. p = [route |-> r, revision |-> x.expected + 1, worktree |-> x.worktree,
               start |-> [s \in Routes |-> Latest(records, s)][r].start]
      BY <2>6, <2>8, Zenon
    <3> QED
      BY <1>9, <3>1, Zenon DEF Register!Put
  <2>10. r \in Register!Used /\ x.route = r
    BY <1>6, <1>11, <1>13, <2>3
  <2>11. Register!Replace(x, r)
    BY <2>7, <2>8, <2>9, <2>10, Zenon DEF Register!Replace, Register!Put
  <2> QED
    BY <1>2, <1>4, <1>8, <2>11 DEF Register!RegisterNext
<1> QED
  BY <1>12, <1>13

\* Every step of set changes at most one register, once per request.
THEOREM PlansImplementRegister == PlansSpec => ImplementsRegister
<1>1. PlansInit => Register!RegisterInit
  <2> SUFFICES ASSUME PlansInit PROVE Register!RegisterInit
    OBVIOUS
  <2>1. records = <<>> /\ 1..Len(records) = {}
    BY DEF PlansInit
  <2> QED
    BY <2>1 DEF Register!RegisterInit, Latest, Places
<1>2. PlansInv /\ [PlansNext]_planVars => [Register!RegisterNext]_(Register!registerVars)
  <2> SUFFICES ASSUME PlansInv, [PlansNext]_planVars
               PROVE  [Register!RegisterNext]_(Register!registerVars)
    OBVIOUS
  <2>1. CASE records' = records
    BY <2>1 DEF Register!registerVars, Latest, Places
  <2>2. ASSUME NEW c \in Callers, phase[c] = "write",
               NEW rec \in draft[c], records' = Append(records, rec)
        PROVE  Register!RegisterNext
    BY <2>2, AppendIsPut
  <2>3. CASE UNCHANGED planVars
    BY <2>1, <2>3 DEF planVars
  <2>4. ASSUME NEW c \in Callers, SetStep(c)
        PROVE  records' = records \/
               (phase[c] = "write" /\ \E rec \in draft[c] : records' = Append(records, rec))
    BY <2>4 DEF SetStep, Call, LockTimeout, ReadFails, Replay, Refuse, Build, Commit,
       GiveUp, WriteFails, Die, Interrupted
  <2>5. CASE \E w \in Worktrees : GitMoves(w)
    BY <2>1, <2>5 DEF GitMoves
  <2> QED
    BY <2>1, <2>2, <2>3, <2>4, <2>5 DEF PlansNext
<1> QED
  BY <1>1, <1>2, PlansInvariant, PTL DEF PlansSpec, ImplementsRegister, Register!RegisterSpec
=============================================================================
