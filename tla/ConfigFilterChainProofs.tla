----------------------- MODULE ConfigFilterChainProofs -----------------------
(***************************************************************************)
(* Proofs that a run over the filter chain misses no filter that was in it *)
(* when the run began, for any number of threads that run and add; and,    *)
(* when one thread adds, that the chain is sorted at every moment and runs *)
(* go in order.                                                            *)
(***************************************************************************)
EXTENDS ConfigFilterChain, SequenceTheorems, FiniteSetTheorems, TLAPS

\* What list.insert does to a list.
LEMMA InsertAtElements ==
    ASSUME NEW S, NEW s \in Seq(S), NEW i \in 1 .. Len(s), NEW e \in S
    PROVE  /\ InsertAt(s, i, e) \in Seq(S)
           /\ Len(InsertAt(s, i, e)) = Len(s) + 1
           /\ \A j \in 1 .. i - 1 : InsertAt(s, i, e)[j] = s[j]
           /\ \A j \in i .. Len(s) : InsertAt(s, i, e)[j + 1] = s[j]
           /\ InsertAt(s, i, e)[i] = e
  <1> DEFINE front == SubSeq(s, 1, i - 1)
             back == SubSeq(s, i, Len(s))
  <1>1. /\ front \in Seq(S) /\ Len(front) = i - 1
        /\ \A j \in 1 .. i - 1 : front[j] = s[j]
    OBVIOUS
  <1>2. /\ back \in Seq(S) /\ Len(back) = Len(s) - i + 1
        /\ \A j \in 1 .. Len(s) - i + 1 : back[j] = s[i + j - 1]
    OBVIOUS
  <1>3. <<e>> \in Seq(S) /\ Len(<<e>>) = 1 /\ <<e>>[1] = e
    OBVIOUS
  <1> HIDE DEF front, back
  <1>4. /\ front \o <<e>> \in Seq(S) /\ Len(front \o <<e>>) = i
        /\ \A j \in 1 .. i - 1 : (front \o <<e>>)[j] = s[j]
        /\ (front \o <<e>>)[i] = e
    BY <1>1, <1>3
  <1> DEFINE middle == front \o <<e>>
  <1> HIDE DEF middle
  <1>5. /\ middle \in Seq(S) /\ Len(middle) = i
        /\ \A j \in 1 .. i - 1 : middle[j] = s[j]
        /\ middle[i] = e
    BY <1>4 DEF middle
  <1>6. InsertAt(s, i, e) = middle \o back
    BY DEF InsertAt, middle, front, back
  <1>7. /\ middle \o back \in Seq(S)
        /\ Len(middle \o back) = Len(middle) + Len(back)
        /\ \A j \in 1 .. Len(middle) + Len(back) :
              (middle \o back)[j] = IF j <= Len(middle) THEN middle[j]
                                    ELSE back[j - Len(middle)]
    BY <1>2, <1>5, ConcatProperties
  <1>8. Len(middle \o back) = Len(s) + 1
    BY <1>2, <1>5, <1>7
  <1>9. ASSUME NEW j \in 1 .. i - 1 PROVE (middle \o back)[j] = s[j]
    BY <1>2, <1>5, <1>7
  <1>10. ASSUME NEW j \in i .. Len(s) PROVE (middle \o back)[j + 1] = s[j]
    <2>1. PICK n \in Nat : n = j + 1 - i /\ n \in 1 .. Len(s) - i + 1
      OBVIOUS
    <2>2. j + 1 = i + n /\ i + n - 1 = j
      BY <2>1
    <2>3. i + n \in 1 .. Len(middle) + Len(back) /\ ~(i + n <= Len(middle))
      BY <1>2, <1>5, <2>1
    <2>4. (middle \o back)[i + n] = back[i + n - Len(middle)]
      BY <1>7, <2>3
    <2>5. i + n - Len(middle) = n
      BY <1>5, <2>1
    <2>6. back[n] = s[i + n - 1]
      BY <1>2, <2>1
    <2> QED BY <2>2, <2>4, <2>5, <2>6
  <1>11. (middle \o back)[i] = e
    BY <1>2, <1>5, <1>7
  <1> QED BY <1>6, <1>7, <1>8, <1>9, <1>10, <1>11

LEMMA InsertAtGrows ==
    ASSUME NEW S, NEW s \in Seq(S), NEW i \in 1 .. Len(s), NEW e \in S
    PROVE  /\ InsertAt(s, i, e) \in Seq(S)
           /\ Len(InsertAt(s, i, e)) = Len(s) + 1
           /\ \A j \in 1 .. Len(s) : \/ InsertAt(s, i, e)[j] = s[j]
                                     \/ InsertAt(s, i, e)[j + 1] = s[j]
  <1>1. /\ InsertAt(s, i, e) \in Seq(S)
        /\ Len(InsertAt(s, i, e)) = Len(s) + 1
        /\ \A j \in 1 .. i - 1 : InsertAt(s, i, e)[j] = s[j]
        /\ \A j \in i .. Len(s) : InsertAt(s, i, e)[j + 1] = s[j]
        /\ InsertAt(s, i, e)[i] = e
    BY InsertAtElements
  <1>2. \A j \in 1 .. Len(s) : j \in 1 .. i - 1 \/ j \in i .. Len(s)
    OBVIOUS
  <1> QED BY <1>1, <1>2

\* What list.append does to a list.
LEMMA AppendElements ==
    ASSUME NEW S, NEW s \in Seq(S), NEW e \in S
    PROVE  /\ Append(s, e) \in Seq(S)
           /\ Len(Append(s, e)) = Len(s) + 1
           /\ \A j \in 1 .. Len(s) : Append(s, e)[j] = s[j]
           /\ Append(s, e)[Len(s) + 1] = e
  BY AppendProperties

LEMMA AppendToSet ==
    ASSUME NEW S, NEW s \in Seq(S), NEW e \in S
    PROVE  ToSet(s) \cup {e} \subseteq ToSet(Append(s, e))
  <1> DEFINE longer == Append(s, e)
  <1>1. DOMAIN longer = 1 .. Len(s) + 1 /\ DOMAIN s = 1 .. Len(s) /\ Len(s) \in Nat
    BY AppendElements
  <1>2. \A j \in DOMAIN s : j \in DOMAIN longer /\ longer[j] = s[j]
    BY <1>1, AppendElements
  <1>3. Len(s) + 1 \in DOMAIN longer /\ longer[Len(s) + 1] = e
    BY <1>1, AppendElements
  <1> HIDE DEF longer
  <1>4. ToSet(s) \cup {e} \subseteq ToSet(longer)
    BY <1>2, <1>3 DEF ToSet
  <1> QED BY <1>4 DEF longer

\* A list without repetitions is as long as its set is large.
LEMMA DistinctCardinality ==
    ASSUME NEW S, NEW s \in Seq(S),
           \A i, j \in 1 .. Len(s) : s[i] = s[j] => i = j
    PROVE  Cardinality(ToSet(s)) = Len(s)
  <1>1. Len(s) \in Nat /\ DOMAIN s = 1 .. Len(s) /\ s \in [1 .. Len(s) -> S]
    BY LenProperties
  <1>2. ToSet(s) = {s[i] : i \in 1 .. Len(s)}
    BY <1>1 DEF ToSet
  <1>3. s \in Bijection(1 .. Len(s), ToSet(s))
    BY <1>1, <1>2 DEF Bijection, Injection, Surjection, IsInjective
  <1>4. ExistsBijection(1 .. Len(s), ToSet(s))
    BY <1>3 DEF ExistsBijection
  <1>5. IsFiniteSet(1 .. Len(s)) /\ Cardinality(1 .. Len(s)) = Len(s)
    BY <1>1, FS_Interval
  <1> QED BY <1>4, <1>5, FS_Bijection

-----------------------------------------------------------------------------
\* What a call still has to see lies ahead of its iterator.
Ahead(t, f) == \E i \in index[t] .. Len(chain) : chain[i] = f

NothingMissed ==
    \A t \in Threads :
        /\ pc[t] = "idle" => index[t] = 1
        /\ pc[t] = "insert" => index[t] <= Len(chain)
        /\ pc[t] = "run" =>
              \A f \in present[t] : f \in ToSet(ran[t]) \/ Ahead(t, f)
        /\ pc[t] = "find" =>
              \A f \in present[t] : Name[f] # wanted[t] \/ Ahead(t, f)

IInv == TypeOK /\ NothingMissed

LEMMA InitIInv == Init => IInv
  BY DEF Init, IInv, TypeOK, NothingMissed, PCs, Adding

\* The list has grown by one element; the others kept their places or moved up.
Grows ==
    /\ chain' \in Seq(Filters)
    /\ Len(chain') = Len(chain) + 1
    /\ \A j \in 1 .. Len(chain) : chain'[j] = chain[j] \/ chain'[j + 1] = chain[j]

LEMMA GrowsKeepsAhead ==
    ASSUME TypeOK, Grows, NEW t \in Threads, NEW f, Ahead(t, f),
           index'[t] = index[t]
    PROVE  Ahead(t, f)'
  <1>1. PICK i \in index[t] .. Len(chain) : chain[i] = f
    BY DEF Ahead
  <1>2. index[t] \in Nat \ {0} /\ i \in 1 .. Len(chain)
    BY DEF TypeOK
  <1>3. PICK j \in {i, i + 1} : chain'[j] = f
    BY <1>1, <1>2 DEF Grows
  <1>4. j \in index'[t] .. Len(chain')
    BY <1>1, <1>2, <1>3 DEF Grows
  <1> QED BY <1>3, <1>4 DEF Ahead

\* Both ways to put a filter in.
LEMMA AddingGrows ==
    ASSUME IInv, NEW t \in Threads, Insert(t) \/ Add(t)
    PROVE  Grows
  <1>1. conf[t] \in Filters /\ chain \in Seq(Filters)
    BY DEF Insert, Add, IInv, TypeOK, Adding
  <1>2. CASE Insert(t)
    <2>1. index[t] \in 1 .. Len(chain) /\ chain' = InsertAt(chain, index[t], conf[t])
      BY <1>2 DEF Insert, IInv, TypeOK, NothingMissed
    <2>2. \A i \in 1 .. Len(chain), e \in Filters :
             /\ InsertAt(chain, i, e) \in Seq(Filters)
             /\ Len(InsertAt(chain, i, e)) = Len(chain) + 1
             /\ \A j \in 1 .. Len(chain) : \/ InsertAt(chain, i, e)[j] = chain[j]
                                         \/ InsertAt(chain, i, e)[j + 1] = chain[j]
      BY ONLY <1>1, InsertAtGrows
    <2>3. /\ chain' \in Seq(Filters)
          /\ Len(chain') = Len(chain) + 1
          /\ \A j \in 1 .. Len(chain) : chain'[j] = chain[j] \/ chain'[j + 1] = chain[j]
      BY <1>1, <2>1, <2>2, Zenon
    <2> QED BY <2>3 DEF Grows
  <1>3. CASE Add(t)
    <2>1. chain' = Append(chain, conf[t])
      BY <1>3 DEF Add
    <2> QED BY <1>1, <2>1, AppendElements DEF Grows
  <1> QED BY <1>2, <1>3

\* A thread that leaves keeps the types, if the list is one of filters and no
\* shorter than before.
LEMMA LeaveTypeOK ==
    ASSUME TypeOK, NEW t \in Threads, Leave(t), chain' \in Seq(Filters),
           Len(chain') >= Len(chain)
    PROVE  TypeOK'
  BY DEF TypeOK, Leave, Goto, PCs, Adding

\* A thread that adds a filter and leaves keeps the invariant.
LEMMA GrowsIInv ==
    ASSUME IInv, NEW t \in Threads, Grows, Leave(t)
    PROVE  IInv'
  <1>1. TypeOK'
    BY LeaveTypeOK DEF IInv, Grows, TypeOK
  <1>2. pc'[t] = "idle" /\ index'[t] = 1
    BY DEF IInv, TypeOK, Leave, Goto
  <1>3. ASSUME NEW u \in Threads, u # t
        PROVE  /\ pc'[u] = pc[u] /\ index'[u] = index[u] /\ ran'[u] = ran[u]
               /\ present'[u] = present[u] /\ wanted'[u] = wanted[u]
    BY <1>3 DEF IInv, TypeOK, Leave, Goto
  <1>4. ASSUME NEW u \in Threads, u # t, pc[u] = "insert"
        PROVE  index'[u] <= Len(chain')
    BY <1>3, <1>4 DEF IInv, TypeOK, NothingMissed, Grows
  <1>5. ASSUME NEW u \in Threads, u # t, pc[u] = "run", NEW f \in present[u]
        PROVE  f \in ToSet(ran'[u]) \/ Ahead(u, f)'
    BY <1>3, <1>5, GrowsKeepsAhead DEF IInv, NothingMissed
  <1>6. ASSUME NEW u \in Threads, u # t, pc[u] = "find", NEW f \in present[u]
        PROVE  Name[f] # wanted'[u] \/ Ahead(u, f)'
    BY <1>3, <1>6, GrowsKeepsAhead DEF IInv, NothingMissed
  <1>7. \A u \in Threads : pc'[u] = "idle" => index'[u] = 1
    BY <1>2, <1>3 DEF IInv, NothingMissed
  <1>8. NothingMissed'
    BY <1>2, <1>3, <1>4, <1>5, <1>6, <1>7 DEF NothingMissed
  <1> QED BY <1>1, <1>8 DEF IInv

\* A thread that leaves without touching the list keeps the invariant.
LEMMA LeaveIInv ==
    ASSUME IInv, NEW t \in Threads, Leave(t), chain' = chain
    PROVE  IInv'
  <1>1. TypeOK'
    BY LeaveTypeOK DEF IInv, TypeOK
  <1>2. pc'[t] = "idle" /\ index'[t] = 1
    BY DEF IInv, TypeOK, Leave, Goto
  <1>3. \A u \in Threads : u # t =>
           /\ pc'[u] = pc[u] /\ index'[u] = index[u] /\ ran'[u] = ran[u]
           /\ present'[u] = present[u] /\ wanted'[u] = wanted[u]
    BY DEF IInv, TypeOK, Leave, Goto
  <1>4. NothingMissed'
    BY <1>2, <1>3 DEF IInv, NothingMissed, Ahead
  <1> QED BY <1>1, <1>4 DEF IInv

\* A loop of t steps past an element, which the thread has dealt with.
Passes(t) ==
    /\ chain' = chain /\ ~AtEnd(t) /\ NextElement(t)
    /\ pc' = pc /\ pc[t] \in {"names", "orders", "run", "find"}
    /\ conf' = conf /\ wanted' = wanted /\ present' = present
    /\ \A u \in Threads \ {t} : ran'[u] = ran[u]
    /\ ran' \in [Threads -> Seq(Filters)]

LEMMA PassesTypeOK ==
    ASSUME TypeOK, NEW t \in Threads, Passes(t)
    PROVE  TypeOK'
  <1>1. index' \in [Threads -> Nat \ {0}]
    BY DEF TypeOK, Passes, NextElement
  <1>2. \A u \in Threads : index'[u] <= Len(chain') + 1
    BY DEF TypeOK, Passes, NextElement, AtEnd
  <1>3. Adding' = Adding
    BY DEF Passes, Adding
  <1> QED BY <1>1, <1>2, <1>3 DEF TypeOK, Passes

\* What is ahead of t is still ahead when it steps on, but for the element passed.
LEMMA PassesAhead ==
    ASSUME TypeOK, NEW t \in Threads, Passes(t), NEW f, Ahead(t, f), Element(t) # f
    PROVE  Ahead(t, f)'
  <1>1. PICK i \in index[t] .. Len(chain) : chain[i] = f
    BY DEF Ahead
  <1>2. i # index[t]
    BY <1>1 DEF Element
  <1>3. index[t] \in Nat /\ index'[t] = index[t] + 1
    BY DEF TypeOK, Passes, NextElement
  <1>4. i \in index'[t] .. Len(chain') /\ chain'[i] = f
    BY <1>1, <1>2, <1>3 DEF Passes, TypeOK
  <1> QED BY <1>4 DEF Ahead

LEMMA PassesIInv ==
    ASSUME IInv, NEW t \in Threads, Passes(t),
           pc[t] = "run" => ran' = [ran EXCEPT ![t] = Append(@, Element(t))],
           pc[t] = "find" => Name[Element(t)] # wanted[t]
    PROVE  IInv'
  <1>1. TypeOK'
    BY PassesTypeOK DEF IInv
  <1>2. \A u \in Threads : u # t =>
           index'[u] = index[u] /\ ran'[u] = ran[u]
    BY DEF IInv, TypeOK, Passes, NextElement
  <1>3. ASSUME pc[t] = "run", NEW f \in present[t]
        PROVE  f \in ToSet(ran'[t]) \/ Ahead(t, f)'
    <2>1. ran[t] \in Seq(Filters) /\ Element(t) \in Filters
      BY DEF IInv, TypeOK, Element, AtEnd, Passes
    <2>2. ran'[t] = Append(ran[t], Element(t))
      BY <1>3 DEF IInv, TypeOK
    <2>3. ToSet(ran[t]) \cup {Element(t)} \subseteq ToSet(ran'[t])
      BY <2>1, <2>2, AppendToSet
    <2>4. f \in ToSet(ran[t]) \/ Ahead(t, f)
      BY <1>3 DEF IInv, NothingMissed
    <2> QED BY <2>3, <2>4, PassesAhead DEF IInv
  <1>4. ASSUME pc[t] = "find", NEW f \in present[t]
        PROVE  Name[f] # wanted[t] \/ Ahead(t, f)'
    <2>1. Name[f] # wanted[t] \/ Ahead(t, f)
      BY <1>4 DEF IInv, NothingMissed
    <2> QED BY <1>4, <2>1, PassesAhead DEF IInv
  <1>5. NothingMissed'
    <2> SUFFICES ASSUME NEW u \in Threads
                 PROVE  /\ pc'[u] = "idle" => index'[u] = 1
                        /\ pc'[u] = "insert" => index'[u] <= Len(chain')
                        /\ pc'[u] = "run" => \A f \in present'[u] :
                              f \in ToSet(ran'[u]) \/ Ahead(u, f)'
                        /\ pc'[u] = "find" => \A f \in present'[u] :
                              Name[f] # wanted'[u] \/ Ahead(u, f)'
      BY DEF NothingMissed
    <2>1. CASE u = t
      BY <2>1, <1>3, <1>4 DEF Passes
    <2>2. CASE u # t
      <3>1. /\ index'[u] = index[u] /\ ran'[u] = ran[u] /\ pc'[u] = pc[u]
            /\ present'[u] = present[u] /\ wanted'[u] = wanted[u] /\ chain' = chain
        BY <2>2, <1>2 DEF Passes
      <3>2. \A f : Ahead(u, f)' <=> Ahead(u, f)
        BY <3>1 DEF Ahead
      <3> QED BY <3>1, <3>2 DEF IInv, NothingMissed
    <2> QED BY <2>1, <2>2
  <1> QED BY <1>1, <1>5 DEF IInv

\* A call that starts has everything ahead of it.
LEMMA BeginIInv ==
    ASSUME IInv, NEW t \in Threads, NEW label \in {"names", "run", "find"},
           Begin(t, label), conf' \in [Threads -> Filters \cup {NoFilter}],
           label = "names" => conf'[t] \in Filters,
           \A u \in Threads \ {t} : conf'[u] = conf[u] /\ wanted'[u] = wanted[u],
           wanted' \in [Threads -> {Name[f] : f \in Filters} \cup {NoFilter}]
    PROVE  IInv'
  <1>1. present'[t] = ToSet(chain) /\ pc'[t] = label
    BY DEF IInv, TypeOK, Begin, Goto
  <1>2. \A u \in Threads : u # t => pc'[u] = pc[u] /\ present'[u] = present[u]
    BY DEF IInv, TypeOK, Begin, Goto
  <1>3. ToSet(chain) \subseteq Filters
    BY DEF IInv, TypeOK, ToSet
  <1>4. TypeOK'
    <2>1. pc' \in [Threads -> PCs] /\ present' \in [Threads -> SUBSET Filters]
      BY <1>3 DEF IInv, TypeOK, Begin, Goto, PCs
    <2>2. \A u \in Adding' : conf'[u] \in Filters
      BY <1>1, <1>2 DEF IInv, TypeOK, Adding
    <2> QED BY <2>1, <2>2 DEF IInv, TypeOK, Begin
  <1>5. index[t] = 1
    BY DEF IInv, NothingMissed, Begin
  <1>6. \A f \in ToSet(chain) : Ahead(t, f)'
    BY <1>5 DEF Ahead, ToSet, Begin, IInv, TypeOK
  <1>7. NothingMissed'
    BY <1>1, <1>2, <1>6 DEF IInv, NothingMissed, Ahead, Begin
  <1> QED BY <1>4, <1>7 DEF IInv

-----------------------------------------------------------------------------
LEMMA NextIInv == IInv /\ [Next]_vars => IInv'
  <1> SUFFICES ASSUME IInv, [Next]_vars PROVE IInv'
    OBVIOUS
  <1> USE FiltersAssumption
  <1>1. ASSUME NEW t \in Threads, NEW f \in Filters, AddFilter(t, f) PROVE IInv'
    <2>1. /\ conf' \in [Threads -> Filters \cup {NoFilter}] /\ conf'[t] = f
          /\ \A u \in Threads \ {t} : conf'[u] = conf[u]
      BY <1>1 DEF AddFilter, IInv, TypeOK
    <2>2. Begin(t, "names") /\ wanted' = wanted
      BY <1>1 DEF AddFilter
    <2> QED BY <2>1, <2>2, BeginIInv DEF IInv, TypeOK
  <1>2. ASSUME NEW t \in Threads, DoFilters(t) PROVE IInv'
    <2>1. Begin(t, "run") /\ conf' = conf /\ wanted' = wanted
      BY <1>2 DEF DoFilters
    <2> QED BY <2>1, BeginIInv DEF IInv, TypeOK
  <1>3. ASSUME NEW t \in Threads, NEW f \in Filters, DoFilterByName(t, Name[f])
        PROVE  IInv'
    <2>1. Begin(t, "find") /\ conf' = conf
      BY <1>3 DEF DoFilterByName
    <2>2. /\ wanted' \in [Threads -> {Name[g] : g \in Filters} \cup {NoFilter}]
          /\ \A u \in Threads \ {t} : wanted'[u] = wanted[u]
      BY <1>3 DEF DoFilterByName, IInv, TypeOK
    <2> QED BY <2>1, <2>2, BeginIInv DEF IInv, TypeOK
  <1>4. ASSUME NEW t \in Threads,
               \/ ReturnTaken(t) \/ RunRaises(t) \/ EndRun(t)
               \/ RunNamed(t) \/ RaiseNotFound(t)
        PROVE  IInv'
    BY <1>4, LeaveIInv DEF ReturnTaken, RunRaises, EndRun, RunNamed, RaiseNotFound
  <1>5. ASSUME NEW t \in Threads, NextName(t) PROVE IInv'
    <2>1. Passes(t) /\ pc[t] = "names"
      BY <1>5 DEF NextName, Passes, IInv, TypeOK
    <2> QED BY <2>1, PassesIInv
  <1>6. ASSUME NEW t \in Threads, RunFilter(t) PROVE IInv'
    <2>1. Element(t) \in Filters /\ ran[t] \in Seq(Filters)
      BY <1>6 DEF RunFilter, Element, AtEnd, IInv, TypeOK
    <2>2. Append(ran[t], Element(t)) \in Seq(Filters)
      BY <2>1
    <2>3. /\ ran' \in [Threads -> Seq(Filters)]
          /\ \A u \in Threads \ {t} : ran'[u] = ran[u]
      BY <1>6, <2>2 DEF RunFilter, IInv, TypeOK
    <2>4. Passes(t) /\ pc[t] = "run"
      BY <1>6, <2>3 DEF RunFilter, Passes
    <2> QED BY <1>6, <2>4, PassesIInv DEF RunFilter
  <1>7. ASSUME NEW t \in Threads, PassName(t) PROVE IInv'
    <2>1. Passes(t) /\ pc[t] = "find"
      BY <1>7 DEF PassName, Passes, IInv, TypeOK
    <2> QED BY <1>7, <2>1, PassesIInv DEF PassName
  <1>8. ASSUME NEW t \in Threads, EndNames(t) PROVE IInv'
    <2>1. TypeOK'
      BY <1>8 DEF EndNames, Goto, IInv, TypeOK, Adding, PCs
    <2>2. pc'[t] = "orders" /\ \A u \in Threads : u # t => pc'[u] = pc[u] /\ index'[u] = index[u]
      BY <1>8 DEF EndNames, Goto, IInv, TypeOK
    <2>3. NothingMissed'
      BY <1>8, <2>2 DEF EndNames, IInv, NothingMissed, Ahead
    <2> QED BY <2>1, <2>3 DEF IInv
  <1>9. ASSUME NEW t \in Threads, CompareOrder(t) PROVE IInv'
    <2>1. CASE GoesBefore(t) /\ Goto(t, "insert") /\ UNCHANGED index
      <3>1. TypeOK'
        BY <1>9, <2>1 DEF CompareOrder, Goto, IInv, TypeOK, Adding, PCs
      <3>2. /\ pc'[t] = "insert" /\ index'[t] <= Len(chain')
            /\ \A u \in Threads : u # t => pc'[u] = pc[u]
        BY <1>9, <2>1 DEF CompareOrder, Goto, IInv, TypeOK, AtEnd
      <3>3. NothingMissed'
        BY <1>9, <2>1, <3>2 DEF CompareOrder, IInv, NothingMissed, Ahead
      <3> QED BY <3>1, <3>3 DEF IInv
    <2>2. CASE NextElement(t) /\ UNCHANGED pc
      <3>1. Passes(t) /\ pc[t] = "orders"
        BY <1>9, <2>2 DEF CompareOrder, Passes, IInv, TypeOK
      <3> QED BY <3>1, PassesIInv
    <2> QED BY <1>9, <2>1, <2>2 DEF CompareOrder
  <1>10. ASSUME NEW t \in Threads, EndOrders(t) PROVE IInv'
    <2>1. TypeOK'
      BY <1>10 DEF EndOrders, Goto, locals, IInv, TypeOK, Adding, PCs
    <2>2. pc'[t] = "append" /\ \A u \in Threads : u # t => pc'[u] = pc[u]
      BY <1>10 DEF EndOrders, Goto, IInv, TypeOK
    <2>3. NothingMissed'
      BY <1>10, <2>2 DEF EndOrders, locals, IInv, NothingMissed, Ahead
    <2> QED BY <2>1, <2>3 DEF IInv
  <1>11. ASSUME NEW t \in Threads, Insert(t) \/ Add(t) PROVE IInv'
    BY <1>11, AddingGrows, GrowsIInv DEF Insert, Add
  <1>12. CASE UNCHANGED vars
    BY <1>12 DEF vars, locals, IInv, TypeOK, NothingMissed, Ahead, Adding
  <1> QED BY <1>1, <1>2, <1>3, <1>4, <1>5, <1>6, <1>7, <1>8, <1>9, <1>10,
             <1>11, <1>12 DEF Next, Step

LEMMA Invariance == Spec => []IInv
  BY InitIInv, NextIInv, PTL DEF Spec

\* The types of ConfigFilterChain hold for any threads, filters, names and orders.
THEOREM TypeCorrect == Spec => []TypeOK
  BY Invariance, PTL DEF IInv

\* do_filters misses no filter that was in the list when the run began, however
\* many threads add filters while it runs.
THEOREM RunsAllAlways == Spec => []RunsAll
  <1>1. IInv => RunsAll
    BY DEF IInv, TypeOK, NothingMissed, RunsAll, Ahead, AtEnd
  <1> QED BY <1>1, Invariance, PTL

\* do_filter_by_name raises only when no filter of the name was there at the start.
THEOREM FindsPresentAlways == Spec => []FindsPresent
  <1>1. IInv => FindsPresent
    BY DEF IInv, TypeOK, NothingMissed, FindsPresent, Ahead, AtEnd
  <1> QED BY <1>1, Invariance, PTL

-----------------------------------------------------------------------------
(* One thread adds.                                                        *)

OneAdder == \A a, b \in Adders : a = b

\* What the adding thread knows of the elements its loops have passed, and
\* after the loops of the place it has found.
AddsInPlace ==
    \A t \in Adding :
        /\ t \in Adders
        /\ pc[t] = "names" =>
              \A i \in 1 .. index[t] - 1 : Name[chain[i]] # Name[conf[t]]
        /\ pc[t] # "names" =>
              \A i \in 1 .. Len(chain) : Name[chain[i]] # Name[conf[t]]
        /\ pc[t] \in {"orders", "insert"} =>
              \A i \in 1 .. index[t] - 1 : Order[chain[i]] <= Order[conf[t]]
        /\ pc[t] = "insert" => Order[conf[t]] < Order[chain[index[t]]]
        /\ pc[t] = "append" =>
              \A i \in 1 .. Len(chain) : Order[chain[i]] <= Order[conf[t]]

Sorted == ChainSorted /\ AddsInPlace

\* The filters a run has run.  While nothing was inserted, they are those its
\* iterator has passed; after one insertion, they still go before all ahead.
RunUp(t) ==
    LET n == Cardinality(present[t]) IN
    /\ pc[t] # "run" => ran[t] = <<>>
    /\ pc[t] = "run" => n \in Nat /\ n <= Len(chain)
    /\ pc[t] = "run" /\ Len(chain) = n =>
          /\ Len(ran[t]) = index[t] - 1
          /\ \A i \in 1 .. index[t] - 1 : ran[t][i] = chain[i]
    /\ pc[t] = "run" /\ Len(chain) <= n + 1 =>
          /\ InOrder(ran[t])
          /\ \A i \in 1 .. Len(ran[t]), j \in index[t] .. Len(chain) :
                Order[ran[t][i]] <= Order[chain[j]]
RunsUp == \A t \in Threads : RunUp(t)

LEMMA InitSorted == Init => Sorted
  BY DEF Init, Sorted, ChainSorted, AddsInPlace, InOrder, Adding

\* Whatever leaves the list alone and moves no thread that adds keeps it sorted.
LEMMA ElsewhereSorted ==
    ASSUME IInv, Sorted, NEW t \in Threads, chain' = chain,
           \A u \in Threads \ {t} :
              pc'[u] = pc[u] /\ conf'[u] = conf[u] /\ index'[u] = index[u],
           pc'[t] \notin {"names", "orders", "insert", "append"}
    PROVE  Sorted'
  <1>1. Adding' \subseteq Adding
    BY DEF Adding
  <1>2. \A u \in Adding' : u # t /\ u \in Threads
    BY DEF Adding
  <1> QED BY <1>1, <1>2 DEF Sorted, ChainSorted, AddsInPlace, InOrder

\* The adding thread goes on from one loop to the next, or along one.
LEMMA OnwardsSorted ==
    ASSUME IInv, Sorted, NEW t \in Threads, chain' = chain, conf' = conf,
           \A u \in Threads \ {t} : pc'[u] = pc[u] /\ index'[u] = index[u],
           t \in Adding,
           \/ pc[t] = "names" /\ pc'[t] = "names" /\ index'[t] = index[t] + 1
              /\ ~AtEnd(t) /\ ~NameTaken(t)
           \/ pc[t] = "names" /\ pc'[t] = "orders" /\ index'[t] = 1 /\ AtEnd(t)
           \/ pc[t] = "orders" /\ pc'[t] = "orders" /\ index'[t] = index[t] + 1
              /\ ~AtEnd(t) /\ ~GoesBefore(t)
           \/ pc[t] = "orders" /\ pc'[t] = "insert" /\ index'[t] = index[t]
              /\ ~AtEnd(t) /\ GoesBefore(t)
           \/ pc[t] = "orders" /\ pc'[t] = "append" /\ index'[t] = index[t]
              /\ AtEnd(t)
    PROVE  Sorted'
  <1> USE FiltersAssumption
  <1>1. ChainSorted'
    BY DEF Sorted, ChainSorted, InOrder
  <1>2. /\ index[t] \in Nat \ {0} /\ chain \in Seq(Filters) /\ Len(chain) \in Nat
        /\ conf[t] \in Filters /\ Order[conf[t]] \in Int
        /\ \A i \in 1 .. Len(chain) : chain[i] \in Filters /\ Order[chain[i]] \in Int
    BY DEF IInv, TypeOK
  <1>3. /\ t \in Adders
        /\ pc[t] = "names" =>
              \A i \in 1 .. index[t] - 1 : Name[chain[i]] # Name[conf[t]]
        /\ pc[t] = "orders" =>
              /\ \A i \in 1 .. Len(chain) : Name[chain[i]] # Name[conf[t]]
              /\ \A i \in 1 .. index[t] - 1 : Order[chain[i]] <= Order[conf[t]]
    BY DEF Sorted, AddsInPlace
  <1>4. ASSUME NEW u \in Adding', u # t
        PROVE  u \in Adding /\ pc'[u] = pc[u] /\ index'[u] = index[u]
    BY <1>4 DEF Adding
  <1>5. /\ pc'[t] = "names" =>
              \A i \in 1 .. index'[t] - 1 : Name[chain[i]] # Name[conf[t]]
        /\ pc'[t] # "names" =>
              \A i \in 1 .. Len(chain) : Name[chain[i]] # Name[conf[t]]
    <2>1. CASE pc[t] = "names" /\ pc'[t] = "names" /\ index'[t] = index[t] + 1
                 /\ ~AtEnd(t) /\ ~NameTaken(t)
      <3>1. Name[chain[index[t]]] # Name[conf[t]]
        BY <2>1 DEF NameTaken, Element
      <3>2. ASSUME NEW i \in 1 .. index'[t] - 1 PROVE Name[chain[i]] # Name[conf[t]]
        <4>1. i \in 1 .. index[t] - 1 \/ i = index[t]
          BY <1>2, <2>1
        <4> QED BY <1>3, <2>1, <3>1, <4>1
      <3> QED BY <2>1, <3>2
    <2>2. CASE pc[t] = "names" /\ pc'[t] = "orders" /\ AtEnd(t)
      <3>1. \A i \in 1 .. Len(chain) : i \in 1 .. index[t] - 1
        BY <1>2, <2>2 DEF AtEnd
      <3> QED BY <1>3, <2>2, <3>1
    <2>3. CASE pc[t] = "orders" /\ pc'[t] \in {"orders", "insert", "append"}
      BY <1>3, <2>3
    <2> QED BY <2>1, <2>2, <2>3
  <1>6. /\ pc'[t] \in {"orders", "insert"} =>
              \A i \in 1 .. index'[t] - 1 : Order[chain[i]] <= Order[conf[t]]
        /\ pc'[t] = "insert" => Order[conf[t]] < Order[chain[index'[t]]]
        /\ pc'[t] = "append" =>
              \A i \in 1 .. Len(chain) : Order[chain[i]] <= Order[conf[t]]
    <2>1. CASE pc'[t] = "names"
      BY <2>1
    <2>2. CASE pc[t] = "names" /\ pc'[t] = "orders" /\ index'[t] = 1
      BY <2>2
    <2>3. CASE pc[t] = "orders" /\ pc'[t] = "orders" /\ index'[t] = index[t] + 1
                 /\ ~AtEnd(t) /\ ~GoesBefore(t)
      <3>1. index[t] \in 1 .. Len(chain) /\ ~(Order[conf[t]] < Order[chain[index[t]]])
        BY <1>2, <2>3 DEF AtEnd, GoesBefore, Element
      <3>2. Order[chain[index[t]]] <= Order[conf[t]]
        BY <1>2, <3>1
      <3>3. ASSUME NEW i \in 1 .. index'[t] - 1 PROVE Order[chain[i]] <= Order[conf[t]]
        <4>1. i \in 1 .. index[t] - 1 \/ i = index[t]
          BY <1>2, <2>3
        <4> QED BY <1>3, <2>3, <3>2, <4>1
      <3> QED BY <2>3, <3>3
    <2>4. CASE pc[t] = "orders" /\ pc'[t] = "insert" /\ index'[t] = index[t] /\ GoesBefore(t)
      BY <1>3, <2>4 DEF GoesBefore, Element
    <2>5. CASE pc[t] = "orders" /\ pc'[t] = "append" /\ AtEnd(t)
      <3>1. \A i \in 1 .. Len(chain) : i \in 1 .. index[t] - 1
        BY <1>2, <2>5 DEF AtEnd
      <3> QED BY <1>3, <2>5, <3>1
    <2> QED BY <2>1, <2>2, <2>3, <2>4, <2>5
  <1>7. AddsInPlace'
    <2> SUFFICES ASSUME NEW u \in Adding'
                 PROVE  /\ u \in Adders
                        /\ pc'[u] = "names" =>
                              \A i \in 1 .. index'[u] - 1 : Name[chain[i]] # Name[conf[u]]
                        /\ pc'[u] # "names" =>
                              \A i \in 1 .. Len(chain) : Name[chain[i]] # Name[conf[u]]
                        /\ pc'[u] \in {"orders", "insert"} =>
                              \A i \in 1 .. index'[u] - 1 : Order[chain[i]] <= Order[conf[u]]
                        /\ pc'[u] = "insert" => Order[conf[u]] < Order[chain[index'[u]]]
                        /\ pc'[u] = "append" =>
                              \A i \in 1 .. Len(chain) : Order[chain[i]] <= Order[conf[u]]
      BY DEF AddsInPlace
    <2>1. CASE u = t
      BY <2>1, <1>3, <1>5, <1>6
    <2>2. CASE u # t
      <3>1. u \in Adding /\ pc'[u] = pc[u] /\ index'[u] = index[u]
        BY <1>4, <2>2
      <3> QED BY <3>1 DEF Sorted, AddsInPlace
    <2> QED BY <2>1, <2>2
  <1> QED BY <1>1, <1>7 DEF Sorted

\* The list with the new filter in its place is sorted, and nobody else adds.
LEMMA GrownSorted ==
    ASSUME OneAdder, IInv, Sorted, NEW t \in Threads, NEW i \in 1 .. Len(chain) + 1,
           t \in Adding, Leave(t), Grows,
           \A j \in 1 .. i - 1 : chain'[j] = chain[j],
           \A j \in i .. Len(chain) : chain'[j + 1] = chain[j],
           chain'[i] = conf[t],
           \A j \in 1 .. Len(chain) : Name[chain[j]] # Name[conf[t]],
           \A j \in 1 .. i - 1 : Order[chain[j]] <= Order[conf[t]],
           i <= Len(chain) => Order[conf[t]] < Order[chain[i]]
    PROVE  Sorted'
  <1> USE FiltersAssumption
  <1>1. /\ chain \in Seq(Filters) /\ Len(chain) \in Nat /\ conf[t] \in Filters
        /\ Order[conf[t]] \in Int
        /\ \A j \in 1 .. Len(chain) : chain[j] \in Filters /\ Order[chain[j]] \in Int
        /\ DOMAIN chain = 1 .. Len(chain) /\ DOMAIN chain' = 1 .. Len(chain) + 1
    <2>1. chain \in Seq(Filters) /\ conf[t] \in Filters
      BY DEF IInv, TypeOK
    <2>2. chain' \in Seq(Filters) /\ Len(chain') = Len(chain) + 1
      BY DEF Grows
    <2>3. \A f \in Filters : Order[f] \in Int
      OBVIOUS
    <2>4. /\ Len(chain) \in Nat /\ DOMAIN chain = 1 .. Len(chain)
          /\ \A j \in 1 .. Len(chain) : chain[j] \in Filters
      BY ONLY <2>1
    <2>5. DOMAIN chain' = 1 .. Len(chain')
      BY ONLY <2>2
    <2> QED BY ONLY <2>1, <2>2, <2>3, <2>4, <2>5
  <1>2. /\ \A j, k \in 1 .. Len(chain) : j <= k => Order[chain[j]] <= Order[chain[k]]
        /\ \A j, k \in 1 .. Len(chain) : Name[chain[j]] = Name[chain[k]] => j = k
    BY <1>1 DEF Sorted, ChainSorted, InOrder
  <1>3. ASSUME NEW j \in 1 .. Len(chain) + 1, j # i
        PROVE  \E o \in 1 .. Len(chain) : /\ chain'[j] = chain[o]
                                          /\ j < i => o = j
                                          /\ j > i => o = j - 1
    <2>1. CASE j > i
      <3>1. j - 1 \in i .. Len(chain) /\ (j - 1) + 1 = j /\ j - 1 \in 1 .. Len(chain)
        BY <1>1, <2>1
      <3>2. chain'[j] = chain[j - 1]
        BY <3>1
      <3> QED BY <2>1, <3>1, <3>2
    <2>2. CASE j < i
      <3>1. j \in 1 .. i - 1 /\ j \in 1 .. Len(chain)
        BY <1>1, <2>2
      <3> QED BY <2>2, <3>1
    <2> QED BY <1>3, <2>1, <2>2
  <1>4. \A j \in i .. Len(chain) : Order[conf[t]] < Order[chain[j]]
    BY <1>1, <1>2
  <1>5. ASSUME NEW j \in 1 .. Len(chain) + 1, NEW k \in 1 .. Len(chain) + 1, j <= k
        PROVE  Order[chain'[j]] <= Order[chain'[k]]
    <2>1. CASE j = i /\ k = i
      BY <1>1, <2>1
    <2>2. CASE j = i /\ k # i
      <3>1. PICK q \in 1 .. Len(chain) : chain'[k] = chain[q] /\ q = k - 1
        BY <1>3, <1>5, <2>2
      <3>2. q \in i .. Len(chain)
        BY <1>5, <2>2, <3>1
      <3>3. Order[conf[t]] < Order[chain[q]] /\ chain'[j] = conf[t]
        BY <1>4, <2>2, <3>2
      <3>4. Order[chain[q]] \in Int /\ Order[conf[t]] \in Int
        BY <1>1
      <3> QED BY ONLY <3>1, <3>3, <3>4
    <2>3. CASE j # i /\ k = i
      <3>1. PICK o \in 1 .. Len(chain) : chain'[j] = chain[o] /\ o = j
        BY <1>3, <1>5, <2>3
      <3>2. o \in 1 .. i - 1
        BY <1>5, <2>3, <3>1
      <3>3. Order[chain[o]] <= Order[conf[t]] /\ chain'[k] = conf[t]
        BY <2>3, <3>2
      <3> QED BY ONLY <3>1, <3>3
    <2>4. CASE j # i /\ k # i
      <3>1. PICK o \in 1 .. Len(chain) : /\ chain'[j] = chain[o]
                                         /\ j < i => o = j
                                         /\ j > i => o = j - 1
        BY <1>3, <2>4
      <3>2. PICK q \in 1 .. Len(chain) : /\ chain'[k] = chain[q]
                                         /\ k < i => q = k
                                         /\ k > i => q = k - 1
        BY <1>3, <2>4
      <3>3. o <= q
        BY <1>5, <2>4, <3>1, <3>2
      <3> QED BY <1>2, <3>1, <3>2, <3>3
    <2> QED BY <2>1, <2>2, <2>3, <2>4
  <1>6. ASSUME NEW j \in 1 .. Len(chain) + 1, NEW k \in 1 .. Len(chain) + 1,
               Name[chain'[j]] = Name[chain'[k]]
        PROVE  j = k
    <2>1. CASE j = i \/ k = i
      BY <1>3, <1>6, <2>1
    <2>2. CASE j # i /\ k # i
      <3>1. PICK o \in 1 .. Len(chain) : /\ chain'[j] = chain[o]
                                         /\ j < i => o = j
                                         /\ j > i => o = j - 1
        BY <1>3, <2>2
      <3>2. PICK q \in 1 .. Len(chain) : /\ chain'[k] = chain[q]
                                         /\ k < i => q = k
                                         /\ k > i => q = k - 1
        BY <1>3, <2>2
      <3>3. o = q
        BY <1>2, <1>6, <3>1, <3>2
      <3> QED BY <2>2, <3>1, <3>2, <3>3
    <2> QED BY <2>1, <2>2
  <1>7. ChainSorted'
    BY <1>1, <1>5, <1>6 DEF ChainSorted, InOrder
  <1>8. pc'[t] = "idle" /\ \A u \in Threads : u # t => pc'[u] = pc[u]
    BY DEF Leave, Goto, IInv, TypeOK
  <1>9. Adding' = {}
    BY <1>8 DEF Adding, Sorted, AddsInPlace, OneAdder
  <1>10. AddsInPlace'
    BY <1>9 DEF AddsInPlace
  <1> QED BY <1>7, <1>10 DEF Sorted

LEMMA NextSorted == OneAdder /\ IInv /\ Sorted /\ [Next]_vars => Sorted'
  <1> SUFFICES ASSUME OneAdder, IInv, Sorted, [Next]_vars PROVE Sorted'
    OBVIOUS
  <1> USE FiltersAssumption
  <1>1. ASSUME NEW t \in Threads, NEW f \in Filters, AddFilter(t, f) PROVE Sorted'
    <2>1. /\ t \in Adders /\ pc'[t] = "names" /\ index' = index /\ chain' = chain
          /\ index[t] = 1
          /\ \A u \in Threads : u # t => pc'[u] = pc[u] /\ conf'[u] = conf[u]
      BY <1>1 DEF AddFilter, Begin, Goto, IInv, TypeOK, NothingMissed
    <2>2. Adding' = Adding \cup {t}
      BY <2>1 DEF Adding
    <2>3. t \notin Adding
      BY <1>1 DEF Adding, AddFilter, Begin
    <2>4. \A u \in Adding : u \in Threads /\ u # t
      BY <2>3 DEF Adding
    <2>5. ChainSorted'
      BY <2>1 DEF Sorted, ChainSorted, InOrder
    <2>6. AddsInPlace'
      BY <2>1, <2>2, <2>4 DEF Sorted, AddsInPlace
    <2> QED BY <2>5, <2>6 DEF Sorted
  <1>2. ASSUME NEW t \in Threads, NEW label \in {"run", "find"}, Begin(t, label), conf' = conf
        PROVE  Sorted'
    BY <1>2, ElsewhereSorted DEF Begin, Goto, IInv, TypeOK
  <1>3. ASSUME NEW t \in Threads, Leave(t), chain' = chain PROVE Sorted'
    BY <1>3, ElsewhereSorted DEF Leave, Goto, IInv, TypeOK
  <1>4. ASSUME NEW t \in Threads, NextElement(t), UNCHANGED <<chain, pc, conf>>,
               pc[t] \in {"run", "find"}
        PROVE  Sorted'
    BY <1>4, ElsewhereSorted DEF NextElement, IInv, TypeOK
  <1>5. ASSUME NEW t \in Threads,
               NextName(t) \/ EndNames(t) \/ CompareOrder(t) \/ EndOrders(t)
        PROVE  Sorted'
    <2>1. t \in Adding /\ chain' = chain /\ conf' = conf
      BY <1>5 DEF NextName, EndNames, CompareOrder, EndOrders, Adding, locals
    <2>2. \A u \in Threads \ {t} : pc'[u] = pc[u] /\ index'[u] = index[u]
      BY <1>5 DEF NextName, EndNames, CompareOrder, EndOrders, NextElement, Goto,
                  IInv, TypeOK, locals
    <2>3. CASE NextName(t)
      BY <2>1, <2>2, <2>3, OnwardsSorted DEF NextName, NextElement, IInv, TypeOK
    <2>4. CASE EndNames(t)
      BY <2>1, <2>2, <2>4, OnwardsSorted DEF EndNames, Goto, IInv, TypeOK
    <2>5. CASE CompareOrder(t)
      BY <2>1, <2>2, <2>5, OnwardsSorted DEF CompareOrder, Goto, NextElement, IInv, TypeOK
    <2>6. CASE EndOrders(t)
      BY <2>1, <2>2, <2>6, OnwardsSorted DEF EndOrders, Goto, locals, IInv, TypeOK
    <2> QED BY <1>5, <2>3, <2>4, <2>5, <2>6
  <1>6. ASSUME NEW t \in Threads, Insert(t) PROVE Sorted'
    <2>1. /\ t \in Adding /\ conf[t] \in Filters /\ chain \in Seq(Filters)
          /\ index[t] \in 1 .. Len(chain) /\ chain' = InsertAt(chain, index[t], conf[t])
      BY <1>6 DEF Insert, IInv, TypeOK, Adding, NothingMissed
    <2> DEFINE i == index[t]
               e == conf[t]
               longer == InsertAt(chain, i, e)
    <2>2. /\ longer \in Seq(Filters) /\ Len(longer) = Len(chain) + 1
          /\ \A j \in 1 .. i - 1 : longer[j] = chain[j]
          /\ \A j \in i .. Len(chain) : longer[j + 1] = chain[j]
          /\ longer[i] = e
      <3>1. i \in 1 .. Len(chain) /\ e \in Filters /\ chain \in Seq(Filters)
        BY <2>1
      <3> HIDE DEF i, e
      <3>2. /\ InsertAt(chain, i, e) \in Seq(Filters)
            /\ Len(InsertAt(chain, i, e)) = Len(chain) + 1
            /\ \A j \in 1 .. i - 1 : InsertAt(chain, i, e)[j] = chain[j]
            /\ \A j \in i .. Len(chain) : InsertAt(chain, i, e)[j + 1] = chain[j]
            /\ InsertAt(chain, i, e)[i] = e
        BY ONLY <3>1, InsertAtElements, SMTT(30)
      <3> QED BY <3>2, Zenon DEF longer
    <2> HIDE DEF longer
    <2>3. chain' = longer
      BY <2>1 DEF longer
    <2>5. Grows
      BY <1>6, AddingGrows
    <2>6. /\ \A j \in 1 .. Len(chain) : Name[chain[j]] # Name[e]
          /\ \A j \in 1 .. i - 1 : Order[chain[j]] <= Order[e]
          /\ Order[e] < Order[chain[i]]
      BY <1>6, <2>1 DEF Insert, Sorted, AddsInPlace
    <2>7. i \in 1 .. Len(chain) + 1 /\ Leave(t) /\ t \in Adding
      BY <1>6, <2>1 DEF Insert
    <2>8. /\ \A j \in 1 .. i - 1 : chain'[j] = chain[j]
          /\ \A j \in i .. Len(chain) : chain'[j + 1] = chain[j]
          /\ chain'[i] = conf[t]
      BY <2>2, <2>3
    <2> HIDE DEF i
    <2> QED BY <2>5, <2>6, <2>7, <2>8, GrownSorted
  <1>7. ASSUME NEW t \in Threads, Add(t) PROVE Sorted'
    <2>1. /\ t \in Adding /\ conf[t] \in Filters /\ chain \in Seq(Filters)
          /\ Len(chain) \in Nat /\ chain' = Append(chain, conf[t])
      BY <1>7 DEF Add, IInv, TypeOK, Adding
    <2> DEFINE i == Len(chain) + 1
    <2>2. /\ chain' \in Seq(Filters) /\ Len(chain') = i
          /\ \A j \in 1 .. Len(chain) : chain'[j] = chain[j]
          /\ chain'[i] = conf[t]
      BY <2>1, AppendElements
    <2>3. Grows
      BY <1>7, AddingGrows
    <2>4. /\ \A j \in 1 .. Len(chain) : Name[chain[j]] # Name[conf[t]]
          /\ \A j \in 1 .. Len(chain) : Order[chain[j]] <= Order[conf[t]]
      BY <1>7, <2>1 DEF Add, Sorted, AddsInPlace
    <2>5. i \in 1 .. Len(chain) + 1 /\ i - 1 = Len(chain) /\ ~(i <= Len(chain))
      BY <2>1
    <2>6. \A j \in i .. Len(chain) : FALSE
      BY <2>1
    <2> HIDE DEF i
    <2> QED BY <1>7, <2>1, <2>2, <2>3, <2>4, <2>5, <2>6, GrownSorted DEF Add
  <1>8. CASE UNCHANGED vars
    BY <1>8 DEF vars, locals, Sorted, ChainSorted, AddsInPlace, InOrder, Adding
  <1> QED BY <1>1, <1>2, <1>3, <1>4, <1>5, <1>6, <1>7, <1>8
          DEF Next, Step, ReturnTaken, RunFilter, RunRaises, EndRun, PassName,
              RunNamed, RaiseNotFound, DoFilters, DoFilterByName

\* While one thread adds filters the list is sorted by order and free of two
\* filters of a name, at every moment and whatever runs over it meanwhile.
THEOREM OneAdderSorted == OneAdder /\ Spec => []ChainSorted
  <1> SUFFICES ASSUME OneAdder PROVE Spec => []ChainSorted
    OBVIOUS
  <1>1. IInv /\ Sorted /\ [Next]_vars => Sorted'
    BY NextSorted
  <1>2. Sorted => ChainSorted
    BY DEF Sorted
  <1> QED BY <1>1, <1>2, InitSorted, Invariance, PTL DEF Spec

LEMMA InitRunsUp == Init => RunsUp
  BY DEF Init, RunsUp, RunUp

\* A thread that is not running filters changes nothing for those that are.
LEMMA ElsewhereRunsUp ==
    ASSUME RunsUp, NEW t \in Threads, chain' = chain,
           \A u \in Threads \ {t} : /\ pc'[u] = pc[u] /\ index'[u] = index[u]
                                    /\ ran'[u] = ran[u] /\ present'[u] = present[u],
           pc'[t] # "run", ran'[t] = <<>>
    PROVE  RunsUp'
  <1>1. ASSUME NEW u \in Threads, u # t PROVE RunUp(u)'
    <2>1. RunUp(u) /\ u \in Threads \ {t}
      BY <1>1 DEF RunsUp
    <2>2. UNCHANGED <<chain, pc[u], index[u], ran[u], present[u]>>
      BY <2>1
    <2> QED BY ONLY <2>1, <2>2 DEF RunUp, InOrder
  <1>2. RunUp(t)'
    BY DEF RunUp
  <1> QED BY <1>1, <1>2 DEF RunsUp

\* An insertion into the sorted list leaves what a run has run below all that
\* is ahead of it, if it was the first.
LEMMA GrownRunsUp ==
    ASSUME IInv, Sorted', RunsUp, NEW t \in Threads, Leave(t), Grows
    PROVE  RunsUp'
  <1> USE FiltersAssumption
  <1>1. pc'[t] = "idle" /\ ran'[t] = <<>>
    BY DEF Leave, Goto, IInv, TypeOK
  <1>2. /\ Len(chain) \in Nat /\ chain' \in Seq(Filters) /\ Len(chain') = Len(chain) + 1
        /\ DOMAIN chain' = 1 .. Len(chain) + 1
    BY DEF IInv, TypeOK, Grows
  <1>sorted. \A i, j \in 1 .. Len(chain) + 1 : i <= j => Order[chain'[i]] <= Order[chain'[j]]
    BY <1>2 DEF Sorted, ChainSorted, InOrder
  <1>3. ASSUME NEW u \in Threads, u # t, pc[u] = "run",
               Cardinality(present[u]) \in Nat, Cardinality(present[u]) <= Len(chain)
        PROVE  LET n == Cardinality(present[u]) IN
               /\ n <= Len(chain') /\ Len(chain') # n
               /\ Len(chain') <= n + 1 =>
                     /\ InOrder(ran[u])
                     /\ \A i \in 1 .. Len(ran[u]), j \in index[u] .. Len(chain') :
                           Order[ran[u][i]] <= Order[chain'[j]]
    <2> DEFINE n == Cardinality(present[u])
    <2>1. n <= Len(chain') /\ Len(chain') # n
      BY <1>2, <1>3
    <2> SUFFICES ASSUME Len(chain') <= n + 1
                 PROVE  /\ InOrder(ran[u])
                        /\ \A i \in 1 .. Len(ran[u]), j \in index[u] .. Len(chain') :
                              Order[ran[u][i]] <= Order[chain'[j]]
      BY <2>1
    <2>2. Len(chain) = n /\ Len(chain) <= n + 1
      BY <1>2, <1>3
    <2>3. /\ InOrder(ran[u]) /\ Len(ran[u]) = index[u] - 1
          /\ \A i \in 1 .. index[u] - 1 : ran[u][i] = chain[i]
      BY <1>3, <2>2 DEF RunsUp, RunUp
    <2>4. index[u] \in Nat \ {0} /\ index[u] <= Len(chain) + 1
      BY DEF IInv, TypeOK
    <2>5. ASSUME NEW i \in 1 .. Len(ran[u]), NEW j \in index[u] .. Len(chain')
          PROVE  Order[ran[u][i]] <= Order[chain'[j]]
      <3>1. i \in 1 .. index[u] - 1 /\ i \in 1 .. Len(chain)
        BY <1>2, <2>3, <2>4
      <3>2. PICK k \in {i, i + 1} : chain'[k] = chain[i]
        BY <3>1 DEF Grows
      <3>3. k \in 1 .. Len(chain) + 1 /\ j \in 1 .. Len(chain) + 1 /\ k <= j
        <4> DEFINE n0 == Len(chain)
                   n1 == Len(chain')
                   x == index[u]
        <4>1. n0 \in Nat /\ n1 = n0 + 1 /\ x \in Nat \ {0}
          BY <1>2, <2>4
        <4>2. i \in 1 .. x - 1 /\ i \in 1 .. n0 /\ k \in {i, i + 1} /\ j \in x .. n1
          BY <3>1, <3>2
        <4>3. k \in 1 .. n0 + 1 /\ j \in 1 .. n0 + 1 /\ k <= j
          <5> HIDE DEF n0, n1, x
          <5> QED BY ONLY <4>1, <4>2
        <4> QED BY <4>3
      <3>4. Order[chain'[k]] <= Order[chain'[j]]
        BY ONLY <1>sorted, <3>3
      <3>5. ran[u][i] = chain[i]
        BY <2>3, <3>1
      <3> QED BY ONLY <3>2, <3>4, <3>5
    <2> QED BY <2>3, <2>5
  <1>4. \A u \in Threads \ {t} : /\ pc'[u] = pc[u] /\ index'[u] = index[u]
                                 /\ ran'[u] = ran[u] /\ present'[u] = present[u]
    BY DEF Leave, Goto, IInv, TypeOK
  <1>5. RunUp(t)'
    BY <1>1 DEF RunUp, InOrder
  <1>6. ASSUME NEW u \in Threads, u # t PROVE RunUp(u)'
    <2>1. CASE pc[u] # "run"
      BY <1>4, <1>6, <2>1 DEF RunsUp, RunUp
    <2>2. CASE pc[u] = "run"
      <3>1. Cardinality(present[u]) \in Nat /\ Cardinality(present[u]) <= Len(chain)
        BY <2>2 DEF RunsUp, RunUp
      <3> QED BY <1>3, <1>4, <1>6, <2>2, <3>1 DEF RunUp
    <2> QED BY <2>1, <2>2
  <1> QED BY <1>5, <1>6 DEF RunsUp

\* A run goes on with the element its iterator stands at.
LEMMA RunFilterRunsUp ==
    ASSUME IInv, Sorted, RunsUp, NEW t \in Threads, RunFilter(t)
    PROVE  RunsUp'
  <1> USE FiltersAssumption
  <1> DEFINE e == Element(t)
             n == Cardinality(present[t])
             r == ran[t]
  <1>1. /\ chain' = chain /\ pc' = pc /\ present' = present /\ pc[t] = "run"
        /\ ran'[t] = Append(r, e) /\ index'[t] = index[t] + 1
        /\ \A u \in Threads \ {t} : ran'[u] = ran[u] /\ index'[u] = index[u]
    BY DEF RunFilter, NextElement, IInv, TypeOK
  <1>2. /\ Len(chain) \in Nat /\ index[t] \in 1 .. Len(chain) /\ e = chain[index[t]]
        /\ r \in Seq(Filters) /\ Len(r) \in Nat /\ DOMAIN r = 1 .. Len(r)
        /\ e \in Filters /\ DOMAIN chain = 1 .. Len(chain)
        /\ \A i \in 1 .. Len(chain) : Order[chain[i]] \in Int
        /\ \A i \in 1 .. Len(r) : Order[r[i]] \in Int
    BY DEF RunFilter, Element, AtEnd, IInv, TypeOK
  <1>3. /\ Append(r, e) \in Seq(Filters) /\ Len(Append(r, e)) = Len(r) + 1
        /\ DOMAIN Append(r, e) = 1 .. Len(r) + 1
        /\ \A i \in 1 .. Len(r) : Append(r, e)[i] = r[i]
        /\ Append(r, e)[Len(r) + 1] = e
    <2>1. r \in Seq(Filters) /\ e \in Filters
      BY <1>2
    <2> HIDE DEF r, e
    <2> QED BY <2>1, AppendElements, LenProperties
  <1>4. n \in Nat /\ n <= Len(chain)
    BY <1>1 DEF RunsUp, RunUp
  <1> HIDE DEF r, e, n
  <1>5. ASSUME Len(chain) = n
        PROVE  /\ Len(Append(r, e)) = (index[t] + 1) - 1
               /\ \A i \in 1 .. (index[t] + 1) - 1 : Append(r, e)[i] = chain[i]
    <2>1. Len(r) = index[t] - 1 /\ \A i \in 1 .. index[t] - 1 : r[i] = chain[i]
      BY <1>1, <1>5 DEF RunsUp, RunUp, r, n
    <2> DEFINE longer == Append(r, e)
    <2>2. /\ Len(longer) = Len(r) + 1 /\ longer[Len(r) + 1] = e
          /\ \A i \in 1 .. Len(r) : longer[i] = r[i]
      BY <1>3
    <2>3. e = chain[index[t]] /\ index[t] \in Nat \ {0}
      BY <1>2
    <2> HIDE DEF longer
    <2>4. Len(longer) = (index[t] + 1) - 1
      BY ONLY <2>1, <2>2, <2>3
    <2>5. ASSUME NEW i \in 1 .. (index[t] + 1) - 1 PROVE longer[i] = chain[i]
      <3>1. CASE i = index[t]
        <4>1. Len(r) + 1 = i
          BY ONLY <2>1, <2>3, <3>1
        <4> QED BY ONLY <2>2, <2>3, <3>1, <4>1
      <3>2. CASE i # index[t]
        <4>1. i \in 1 .. index[t] - 1
          BY ONLY <2>3, <2>5, <3>2
        <4> QED BY ONLY <2>1, <2>2, <4>1
      <3> QED BY <3>1, <3>2
    <2> QED BY <2>4, <2>5 DEF longer
  <1>6. ASSUME Len(chain) <= n + 1
        PROVE  /\ InOrder(Append(r, e))
               /\ \A i \in 1 .. Len(Append(r, e)), j \in index[t] + 1 .. Len(chain) :
                     Order[Append(r, e)[i]] <= Order[chain[j]]
    <2>1. /\ InOrder(r)
          /\ \A i \in 1 .. Len(r), j \in index[t] .. Len(chain) :
                Order[r[i]] <= Order[chain[j]]
      BY <1>1, <1>6 DEF RunsUp, RunUp, r, n
    <2>2. \A i, j \in 1 .. Len(r) : i <= j => Order[r[i]] <= Order[r[j]]
      BY <1>2, <2>1 DEF InOrder
    <2>3. \A i, j \in 1 .. Len(chain) : i <= j => Order[chain[i]] <= Order[chain[j]]
      BY <1>2 DEF Sorted, ChainSorted, InOrder
    <2>4. \A i \in 1 .. Len(r) + 1 : \/ i \in 1 .. Len(r) /\ Append(r, e)[i] = r[i]
                                     \/ i = Len(r) + 1 /\ Append(r, e)[i] = e
      BY <1>2, <1>3
    <2>5. \A i \in 1 .. Len(r) : Order[r[i]] <= Order[e]
      <3>1. index[t] \in index[t] .. Len(chain)
        BY <1>2
      <3> QED BY <1>2, <2>1, <3>1
    <2>6. \A j \in index[t] .. Len(chain) : Order[e] <= Order[chain[j]]
      BY <1>2, <2>3
    <2>7. ASSUME NEW i \in 1 .. Len(r) + 1, NEW j \in 1 .. Len(r) + 1, i <= j
          PROVE  Order[Append(r, e)[i]] <= Order[Append(r, e)[j]]
      <3>1. CASE j = Len(r) + 1
        BY <1>2, <2>4, <2>5, <3>1
      <3>2. CASE j # Len(r) + 1
        <4>1. i \in 1 .. Len(r) /\ j \in 1 .. Len(r)
          BY <1>2, <2>7, <3>2
        <4> QED BY <1>3, <2>2, <2>7, <4>1
      <3> QED BY <3>1, <3>2
    <2>8. ASSUME NEW i \in 1 .. Len(r) + 1, NEW j \in index[t] + 1 .. Len(chain)
          PROVE  Order[Append(r, e)[i]] <= Order[chain[j]]
      <3>1. j \in index[t] .. Len(chain)
        BY <1>2
      <3> QED BY <2>1, <2>4, <2>6, <3>1
    <2> QED BY <1>3, <2>7, <2>8 DEF InOrder
  <1>7. RunUp(t)'
    <2>1. ran'[t] = Append(r, e) /\ index'[t] = index[t] + 1 /\ Cardinality(present'[t]) = n
      BY <1>1 DEF n
    <2>2. InOrder(Append(r, e)) => InOrder(ran[t])'
      BY <2>1 DEF InOrder
    <2> QED BY <1>1, <1>4, <1>5, <1>6, <2>1, <2>2 DEF RunUp
  <1>8. ASSUME NEW u \in Threads, u # t PROVE RunUp(u)'
    <2>1. ran'[u] = ran[u]
      BY <1>1, <1>8
    <2>2. InOrder(ran[u]) => InOrder(ran[u])'
      BY <2>1 DEF InOrder
    <2> QED BY <1>1, <1>8, <2>1, <2>2 DEF RunsUp, RunUp
  <1> QED BY <1>7, <1>8 DEF RunsUp

\* A run that starts has run nothing; it counts the filters of the list.
LEMMA BeginRunsUp ==
    ASSUME IInv, Sorted, RunsUp, NEW t \in Threads, NEW label \in PCs, Begin(t, label)
    PROVE  RunsUp'
  <1> USE FiltersAssumption
  <1>1. /\ chain' = chain /\ index' = index /\ ran' = ran /\ pc'[t] = label
        /\ present'[t] = ToSet(chain) /\ index[t] = 1 /\ pc[t] = "idle"
        /\ \A u \in Threads \ {t} : pc'[u] = pc[u] /\ present'[u] = present[u]
    BY DEF Begin, Goto, IInv, TypeOK, NothingMissed
  <1>2. chain \in Seq(Filters) /\ Len(chain) \in Nat /\ DOMAIN chain = 1 .. Len(chain)
    BY DEF IInv, TypeOK
  <1>3. \A i, j \in 1 .. Len(chain) : chain[i] = chain[j] => i = j
    BY <1>2 DEF Sorted, ChainSorted
  <1>4. Cardinality(ToSet(chain)) = Len(chain)
    BY <1>2, <1>3, DistinctCardinality
  <1>5. ran[t] = <<>> /\ Len(ran[t]) = 0 /\ InOrder(ran[t])
    BY <1>1 DEF RunsUp, RunUp, InOrder
  <1>6. InOrder(ran[t])'
    BY <1>1, <1>5 DEF InOrder
  <1>7. RunUp(t)'
    BY <1>1, <1>2, <1>4, <1>5, <1>6 DEF RunUp
  <1>8. ASSUME NEW u \in Threads, u # t PROVE RunUp(u)'
    <2>1. InOrder(ran[u]) => InOrder(ran[u])'
      BY <1>1 DEF InOrder
    <2> QED BY <1>1, <1>8, <2>1 DEF RunsUp, RunUp
  <1> QED BY <1>7, <1>8 DEF RunsUp

LEMMA NextRunsUp ==
    IInv /\ Sorted /\ Sorted' /\ RunsUp /\ [Next]_vars => RunsUp'
  <1> SUFFICES ASSUME IInv, Sorted, Sorted', RunsUp, [Next]_vars PROVE RunsUp'
    OBVIOUS
  <1> USE FiltersAssumption
  <1>1. ASSUME NEW t \in Threads, NEW label \in PCs, Begin(t, label) PROVE RunsUp'
    BY <1>1, BeginRunsUp
  <1>2. ASSUME NEW t \in Threads, Leave(t), chain' = chain PROVE RunsUp'
    BY <1>2, ElsewhereRunsUp DEF Leave, Goto, IInv, TypeOK
  <1>3. ASSUME NEW t \in Threads, pc[t] # "run",
               NextName(t) \/ EndNames(t) \/ CompareOrder(t) \/ EndOrders(t) \/ PassName(t)
        PROVE  RunsUp'
    <2>1. ran[t] = <<>>
      BY <1>3 DEF RunsUp, RunUp
    <2>2. /\ chain' = chain /\ ran' = ran /\ present' = present /\ pc'[t] # "run"
          /\ \A u \in Threads \ {t} : pc'[u] = pc[u] /\ index'[u] = index[u]
      BY <1>3 DEF NextName, EndNames, CompareOrder, EndOrders, PassName, NextElement,
                  Goto, locals, IInv, TypeOK
    <2> QED BY <2>1, <2>2, ElsewhereRunsUp
  <1>4. ASSUME NEW t \in Threads, RunFilter(t) PROVE RunsUp'
    BY <1>4, RunFilterRunsUp
  <1>5. ASSUME NEW t \in Threads, Insert(t) \/ Add(t) PROVE RunsUp'
    BY <1>5, AddingGrows, GrownRunsUp DEF Insert, Add
  <1>6. CASE UNCHANGED vars
    BY <1>6 DEF vars, locals, RunsUp, RunUp, InOrder
  <1> QED BY <1>1, <1>2, <1>3, <1>4, <1>5, <1>6
          DEF Next, Step, AddFilter, DoFilters, DoFilterByName, ReturnTaken, NextName,
              EndNames, CompareOrder, EndOrders, RunRaises, EndRun, PassName, RunNamed,
              RaiseNotFound, PCs

\* Then do_filters runs the filters by ascending order, if no more than one of
\* them was added since it began.
THEOREM OneAdderRunsInOrder == OneAdder /\ Spec => []RunsInOrder
  <1> SUFFICES ASSUME OneAdder PROVE Spec => []RunsInOrder
    OBVIOUS
  <1>1. IInv /\ Sorted /\ [Next]_vars => Sorted'
    BY NextSorted
  <1>2. IInv /\ RunsUp => RunsInOrder
    <2> SUFFICES ASSUME IInv, RunsUp, NEW t \in Threads
                 PROVE  InOrder(ran[t]) \/ Len(chain) > Cardinality(present[t]) + 1
      BY DEF RunsInOrder
    <2>1. CASE pc[t] # "run"
      BY <2>1 DEF RunsUp, RunUp, InOrder
    <2>2. CASE pc[t] = "run"
      <3>1. Cardinality(present[t]) \in Nat /\ Len(chain) \in Nat
        BY <2>2 DEF RunsUp, RunUp, IInv, TypeOK
      <3> QED BY <2>2, <3>1 DEF RunsUp, RunUp
    <2> QED BY <2>1, <2>2
  <1> QED BY <1>1, <1>2, InitSorted, InitRunsUp, NextRunsUp, Invariance, PTL DEF Spec
=============================================================================
