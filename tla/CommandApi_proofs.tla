--------------------------- MODULE CommandApi_proofs ---------------------------
(***************************************************************************)
(* Proofs about CommandApi, for every number of requests, every assignment *)
(* of keys and commands to them, and every capacity: a key names one       *)
(* command, which runs at most once; a command without a result is in      *)
(* exactly one place on its way and never leaves the history; a shutdown   *)
(* that is accepted loses nothing.                                         *)
(***************************************************************************)
EXTENDS CommandApi, FiniteSetTheorems, SequenceTheorems, WellFoundedInduction, TLAPS

Keys == {KeyOf(r) : r \in Requests}
Commands == [id : Ids, key : Keys, command : {"go", "open", "shutdown"}]
Outcomes == [id : Ids, state : {"Applied", "Rejected"}]

\* The requests that used the one chance they have to register a command.
Answered == {r \in Requests : conn[r] \in {"waiting", "done"}}

\* The command that a request stands for was registered under its key.
Named(r, id) == \E a \in issued : a.id = id /\ a.key = KeyOf(r)

-----------------------------------------------------------------------------
(* The inductive invariant *)

\* What the handlers know.
TalkInv ==
    /\ conn \in [Requests -> {"unsent", "preparing", "prepared", "waiting", "done"}]
    /\ ticket \in [Requests -> 0 .. Posts]
    /\ preparing \subseteq Requests /\ Cardinality(preparing) <= Preparations
    /\ nextId \in 1 .. Posts + 1
    /\ nextId <= Cardinality(Answered) + 1
    /\ \A r \in Requests : ticket[r] # 0 => Named(r, ticket[r])

\* Ids and keys are given to one command, and a key stays known: by the record
\* of its command or among the retired ones.
NamesInv ==
    /\ issued \subseteq Commands
    /\ retired \subseteq Keys \ {NoKey}
    /\ history \subseteq Records
    /\ IsFiniteSet(history) /\ Cardinality(history) <= HistoryCapacity
    /\ \A a \in issued : a.id < nextId
    /\ \A a, b \in issued : a.id = b.id => a = b
    /\ \A a, b \in issued : a.key = b.key /\ a.key # NoKey => a = b
    /\ \A c \in history : [id |-> c.id, key |-> c.key, command |-> c.command] \in issued
    /\ \A c, d \in history : c.id = d.id => c = d
    /\ \A a \in issued :
        a.key # NoKey => a.key \in retired \/ \E c \in history : c.id = a.id

\* The way of a command to its result.
WayInv ==
    /\ queue \in Seq(Ids) /\ Len(queue) <= QueueCapacity
    /\ batch \in Seq(Ids)
    /\ results \in Seq(Outcomes)
    /\ PendingIsUnderway

\* What an accepted shutdown changes.
EndInv ==
    /\ server \in {"serving", "stopping", "closed", "delivered"}
    /\ ready \in BOOLEAN /\ stopping \in BOOLEAN
    /\ exit \in {"no", "closed", "delivered", "timeout"}
    /\ show \in [dirty : BOOLEAN, active : BOOLEAN]
    /\ ran \subseteq Ids
    /\ ShutdownLosesNothing
    /\ ServerStopsWithLoop
    /\ \A i \in DOMAIN results : \A a \in issued :
        a.id = results[i].id /\ a.command = "shutdown" /\ results[i].state = "Applied"
            => stopping

IndInv == TalkInv /\ NamesInv /\ WayInv /\ EndInv

-----------------------------------------------------------------------------
(* Counting in a sequence                                                  *)

\* How many elements of s lie in H.
Hits(s, H) == Cardinality({i \in DOMAIN s : s[i] \in H})

LEMMA HitsType ==
    ASSUME NEW S, NEW s \in Seq(S), NEW H
    PROVE  /\ IsFiniteSet({i \in DOMAIN s : s[i] \in H})
           /\ Hits(s, H) \in Nat
<1>1. IsFiniteSet(1 .. Len(s))
  BY FS_Interval
<1>2. {i \in DOMAIN s : s[i] \in H} \subseteq 1 .. Len(s)
  OBVIOUS
<1>3. QED
  BY <1>1, <1>2, FS_Subset, FS_CardinalityType DEF Hits

LEMMA HitsEmpty ==
    ASSUME NEW H
    PROVE  Hits(<<>>, H) = 0
<1>1. {i \in DOMAIN <<>> : <<>>[i] \in H} = {}
  OBVIOUS
<1>2. QED
  BY <1>1, FS_EmptySet DEF Hits

\* A sequence that holds an element of H counts at least one.
LEMMA HitsSome ==
    ASSUME NEW S, NEW s \in Seq(S), NEW H, NEW i \in DOMAIN s, s[i] \in H
    PROVE  Hits(s, H) >= 1
<1> DEFINE in == {j \in DOMAIN s : s[j] \in H}
<1>1. IsFiniteSet(in) /\ Hits(s, H) = Cardinality(in) /\ Cardinality(in) \in Nat
  <2>1. IsFiniteSet(in)
    BY HitsType
  <2>2. QED
    BY <2>1, FS_CardinalityType DEF Hits
<1>2. i \in in
  OBVIOUS
<1> HIDE DEF in
<1>3. Cardinality(in) # 0
  BY <1>1, <1>2, FS_EmptySet
<1>4. QED
  BY <1>1, <1>3

LEMMA HitsAppend ==
    ASSUME NEW S, NEW s \in Seq(S), NEW e \in S, NEW H
    PROVE  Hits(Append(s, e), H) = Hits(s, H) + IF e \in H THEN 1 ELSE 0
<1> DEFINE old == {i \in DOMAIN s : s[i] \in H}
           new == {i \in DOMAIN Append(s, e) : Append(s, e)[i] \in H}
           n == Len(s) + 1
<1>1. IsFiniteSet(old) /\ Cardinality(old) \in Nat
  <2>1. IsFiniteSet(old)
    BY HitsType
  <2>2. QED
    BY <2>1, FS_CardinalityType
<1>2. Hits(s, H) = Cardinality(old) /\ Hits(Append(s, e), H) = Cardinality(new)
  BY DEF Hits
<1>3. n \notin old
  OBVIOUS
<1>4. CASE e \in H
  <2>1. new = old \union {n}
    BY <1>4
  <2> HIDE DEF old, new, n
  <2>2. QED
    BY <1>1, <1>2, <1>3, <1>4, <2>1, FS_AddElement
<1>5. CASE e \notin H
  <2>1. new = old
    BY <1>5
  <2> HIDE DEF old, new, n
  <2>2. QED
    BY <1>1, <1>2, <1>5, <2>1
<1>6. QED
  BY <1>4, <1>5

LEMMA HitsTail ==
    ASSUME NEW S, NEW s \in Seq(S), s # <<>>, NEW H
    PROVE  Hits(s, H) = Hits(Tail(s), H) + IF Head(s) \in H THEN 1 ELSE 0
<1> DEFINE old == {i \in DOMAIN s : s[i] \in H}
           new == {i \in DOMAIN Tail(s) : Tail(s)[i] \in H}
           rest == old \ {1}
           f == [i \in new |-> i + 1]
<1>1. /\ Tail(s) \in Seq(S) /\ Len(s) \in Nat \ {0} /\ Head(s) = s[1]
      /\ DOMAIN Tail(s) = 1 .. Len(s) - 1
      /\ \A i \in 1 .. Len(s) - 1 : Tail(s)[i] = s[i + 1]
  OBVIOUS
<1>2. IsFiniteSet(old) /\ IsFiniteSet(new) /\ Cardinality(old) \in Nat
  <2>1. IsFiniteSet(old)
    BY HitsType
  <2>2. IsFiniteSet(new)
    BY <1>1, HitsType
  <2>3. QED
    BY <2>1, <2>2, FS_CardinalityType
<1>3. Hits(s, H) = Cardinality(old) /\ Hits(Tail(s), H) = Cardinality(new)
  BY DEF Hits
<1>4. f \in Bijection(new, rest)
  <2>1. \A i \in new : i \in Nat /\ f[i] \in rest
    BY <1>1
  <2>2. \A i, j \in new : f[i] = f[j] => i = j
    BY <2>1
  <2>3. \A j \in rest : j - 1 \in new /\ f[j - 1] = j
    BY <1>1
  <2>4. f \in [new -> rest]
    BY <2>1
  <2> HIDE DEF new, rest, f
  <2>5. QED
    BY <2>2, <2>3, <2>4 DEF Bijection, Injection, Surjection, IsInjective
<1>5. 1 \in old <=> Head(s) \in H
  BY <1>1
<1> HIDE DEF old, new, f
<1>6. IsFiniteSet(rest) /\ Cardinality(rest) = IF 1 \in old THEN Cardinality(old) - 1
                                                            ELSE Cardinality(old)
  BY <1>2, FS_RemoveElement
<1>7. Cardinality(rest) = Cardinality(new)
  <2>1. ExistsBijection(new, rest)
    BY <1>4 DEF ExistsBijection
  <2> HIDE DEF rest
  <2>2. QED
    BY <1>2, <2>1, FS_Bijection
<1>8. QED
  BY <1>2, <1>3, <1>5, <1>6, <1>7

-----------------------------------------------------------------------------
(* The ids on their way *)

Of(id) == {x \in Outcomes : x.id = id}

Underway(q, b, rs, id) == Hits(q, {id}) + Hits(b, {id}) + Hits(rs, Of(id))

IsPending(h, id) == \E c \in h : c.state = "Pending" /\ c.id = id

LEMMA UnderwayMeaning ==
    ASSUME NEW q \in Seq(Ids), NEW b \in Seq(Ids), NEW rs \in Seq(Outcomes), NEW id \in Ids
    PROVE  /\ Times(id, q) + Times(id, b) + Cardinality({i \in DOMAIN rs : rs[i].id = id})
                = Underway(q, b, rs, id)
           /\ Hits(q, {id}) \in Nat /\ Hits(b, {id}) \in Nat /\ Hits(rs, Of(id)) \in Nat
<1>1. {i \in DOMAIN q : q[i] = id} = {i \in DOMAIN q : q[i] \in {id}}
  OBVIOUS
<1>2. {i \in DOMAIN b : b[i] = id} = {i \in DOMAIN b : b[i] \in {id}}
  OBVIOUS
<1>3. {i \in DOMAIN rs : rs[i].id = id} = {i \in DOMAIN rs : rs[i] \in Of(id)}
  BY DEF Of
<1>4. Hits(q, {id}) \in Nat /\ Hits(b, {id}) \in Nat /\ Hits(rs, Of(id)) \in Nat
  BY HitsType
<1>5. QED
  BY <1>1, <1>2, <1>3, <1>4 DEF Underway, Times, Hits

\* PendingIsUnderway, read with the three sequences and the history named.
LEMMA UnderwayNow ==
    ASSUME WayInv, NEW id \in Ids
    PROVE  Underway(queue, batch, results, id) = IF IsPending(history, id) THEN 1 ELSE 0
<1>1. queue \in Seq(Ids) /\ batch \in Seq(Ids) /\ results \in Seq(Outcomes)
  BY DEF WayInv
<1>2. Times(id, queue) + Times(id, batch) + Cardinality({i \in DOMAIN results : results[i].id = id})
        = IF IsPending(history, id) THEN 1 ELSE 0
  BY DEF WayInv, PendingIsUnderway, Pending, IsPending
<1>3. QED
  BY <1>1, <1>2, UnderwayMeaning

LEMMA UnderwayNext ==
    ASSUME queue' \in Seq(Ids), batch' \in Seq(Ids), results' \in Seq(Outcomes),
           \A id \in Ids : Underway(queue', batch', results', id)
                             = IF IsPending(history', id) THEN 1 ELSE 0
    PROVE  PendingIsUnderway'
BY UnderwayMeaning DEF PendingIsUnderway, Pending, IsPending, Times

\* What is on its way is pending, and in no two places.
LEMMA QueuedIsPending ==
    ASSUME WayInv, NEW i \in DOMAIN queue
    PROVE  IsPending(history, queue[i])
<1> DEFINE id == queue[i]
<1>1. queue \in Seq(Ids) /\ batch \in Seq(Ids) /\ results \in Seq(Outcomes) /\ id \in Ids
  BY DEF WayInv
<1>2. Hits(queue, {id}) >= 1
  BY <1>1, HitsSome
<1> HIDE DEF id
<1>3. Underway(queue, batch, results, id) = IF IsPending(history, id) THEN 1 ELSE 0
  BY <1>1, UnderwayNow
<1>4. Hits(queue, {id}) \in Nat /\ Hits(batch, {id}) \in Nat /\ Hits(results, Of(id)) \in Nat
  BY <1>1, UnderwayMeaning
<1>5. QED
  BY <1>2, <1>3, <1>4 DEF Underway, id

LEMMA BatchedIsPending ==
    ASSUME WayInv, NEW i \in DOMAIN batch
    PROVE  IsPending(history, batch[i])
<1> DEFINE id == batch[i]
<1>1. queue \in Seq(Ids) /\ batch \in Seq(Ids) /\ results \in Seq(Outcomes) /\ id \in Ids
  BY DEF WayInv
<1>2. Hits(batch, {id}) >= 1
  BY <1>1, HitsSome
<1> HIDE DEF id
<1>3. Underway(queue, batch, results, id) = IF IsPending(history, id) THEN 1 ELSE 0
  BY <1>1, UnderwayNow
<1>4. Hits(queue, {id}) \in Nat /\ Hits(batch, {id}) \in Nat /\ Hits(results, Of(id)) \in Nat
  BY <1>1, UnderwayMeaning
<1>5. QED
  BY <1>2, <1>3, <1>4 DEF Underway, id

LEMMA ReportedIsPending ==
    ASSUME WayInv, NEW i \in DOMAIN results
    PROVE  /\ IsPending(history, results[i].id)
           /\ Hits(queue, {results[i].id}) = 0
           /\ Hits(batch, {results[i].id}) = 0
           /\ Hits(results, Of(results[i].id)) = 1
<1> DEFINE id == results[i].id
<1>1. /\ queue \in Seq(Ids) /\ batch \in Seq(Ids) /\ results \in Seq(Outcomes)
      /\ results[i] \in Outcomes
  BY DEF WayInv
<1>2. id \in Ids /\ results[i] \in Of(id)
  BY <1>1 DEF Outcomes, Of
<1>3. Hits(results, Of(id)) >= 1
  BY <1>1, <1>2, HitsSome
<1> HIDE DEF id
<1>4. Underway(queue, batch, results, id) = IF IsPending(history, id) THEN 1 ELSE 0
  BY <1>2, UnderwayNow
<1>5. Hits(queue, {id}) \in Nat /\ Hits(batch, {id}) \in Nat /\ Hits(results, Of(id)) \in Nat
  BY <1>1, <1>2, UnderwayMeaning
<1>6. QED
  BY <1>3, <1>4, <1>5 DEF Underway, id

-----------------------------------------------------------------------------
(* Steps of the handlers that only answer                                  *)

LEMMA RequestsFinite ==
    /\ IsFiniteSet(Requests) /\ Cardinality(Requests) = Posts
    /\ \A T \in SUBSET Requests :
        IsFiniteSet(T) /\ Cardinality(T) \in Nat /\ Cardinality(T) <= Posts
<1>1. IsFiniteSet(Requests) /\ Cardinality(Requests) = Posts
  BY ApiAssumption, FS_Interval DEF Requests
<1>2. QED
  BY <1>1, FS_Subset, FS_CardinalityType

\* The ids suffice: a request that was not answered has not taken one.
LEMMA IdsSuffice ==
    ASSUME TalkInv, NEW r \in Requests, r \notin Answered
    PROVE  nextId \in Ids
<1>1. IsFiniteSet(Requests \ {r}) /\ Cardinality(Requests \ {r}) = Posts - 1
  BY RequestsFinite, FS_RemoveElement
<1>2. Answered \subseteq Requests \ {r}
  BY DEF Answered
<1>3. Cardinality(Answered) <= Posts - 1 /\ Cardinality(Answered) \in Nat
  BY <1>1, <1>2, FS_Subset, FS_CardinalityType
<1>4. QED
  BY <1>3, ApiAssumption DEF TalkInv, Ids

\* A request is answered, or held, with the id of a command under its key, and
\* may have taken the next id for it.
LEMMA AnswerTalk ==
    ASSUME TalkInv, NEW r \in Requests, NEW id \in 0 .. Posts, NEW w \in {"waiting", "done"},
           conn' = [conn EXCEPT ![r] = w],
           ticket' = [ticket EXCEPT ![r] = id],
           issued \subseteq issued',
           id # 0 => \E a \in issued' : a.id = id /\ a.key = KeyOf(r),
           preparing' = preparing,
           nextId' = nextId \/ (r \notin Answered /\ nextId' = nextId + 1)
    PROVE  TalkInv'
<1>1. conn' \in [Requests -> {"unsent", "preparing", "prepared", "waiting", "done"}]
  BY DEF TalkInv
<1>2. ticket' \in [Requests -> 0 .. Posts]
  BY DEF TalkInv
<1>3. Answered' = Answered \union {r}
  BY DEF TalkInv, Answered
<1>4. /\ Cardinality(Answered) \in Nat
      /\ Cardinality(Answered') = IF r \in Answered THEN Cardinality(Answered)
                                                    ELSE Cardinality(Answered) + 1
  <2>1. IsFiniteSet(Answered) /\ Cardinality(Answered) \in Nat
    BY RequestsFinite DEF Answered
  <2>2. QED
    BY <1>3, <2>1, FS_AddElement
<1>5. nextId' \in 1 .. Posts + 1 /\ nextId' <= Cardinality(Answered') + 1
  <2>1. CASE nextId' = nextId
    BY <1>4, <2>1 DEF TalkInv
  <2>2. CASE r \notin Answered /\ nextId' = nextId + 1
    BY <1>4, <2>2, IdsSuffice, ApiAssumption DEF TalkInv, Ids
  <2>3. QED
    BY <2>1, <2>2
<1>6. \A s \in Requests : ticket'[s] # 0 =>
          \E a \in issued' : a.id = ticket'[s] /\ a.key = KeyOf(s)
  BY DEF TalkInv, Named
<1>7. QED
  BY <1>1, <1>2, <1>5, <1>6 DEF TalkInv, Named

\* No answer changes what the names, the way and the end are about.
LEMMA TalkFrame ==
    ASSUME NamesInv, WayInv, EndInv,
           UNCHANGED <<history, retired, nextId, issued, queue, results, server, main, ready>>
    PROVE  NamesInv' /\ WayInv' /\ EndInv'
BY DEF NamesInv, WayInv, EndInv, PendingIsUnderway, Pending, Times, ShutdownLosesNothing,
       ServerStopsWithLoop, main

LEMMA RefuseInv ==
    ASSUME IndInv, NEW r \in Requests, Refuse(r),
           UNCHANGED <<preparing, history, retired, nextId, issued, queue, results, server,
                       main, ready>>
    PROVE  IndInv'
<1>1. 0 \in 0 .. Posts
  BY ApiAssumption
<1>2. TalkInv'
  BY <1>1, AnswerTalk DEF IndInv, Refuse, Answer
<1>3. QED
  BY <1>2, TalkFrame DEF IndInv

\* A record of the history answers for its id and its key.
LEMMA RecordTalk ==
    ASSUME IndInv, NEW c \in history
    PROVE  /\ c.id \in Ids /\ c.id \in 0 .. Posts
           /\ \E a \in issued : a.id = c.id /\ a.key = c.key /\ a.command = c.command
<1>1. c.id \in Ids
  BY DEF IndInv, NamesInv, Records
<1>2. [id |-> c.id, key |-> c.key, command |-> c.command] \in issued
  BY DEF IndInv, NamesInv
<1>3. QED
  BY <1>1, <1>2, ApiAssumption DEF Ids

LEMMA AnswerForKeyInv ==
    ASSUME IndInv, NEW r \in Requests, AnswerForKey(r),
           UNCHANGED <<preparing, history, retired, nextId, issued, queue, results, server,
                       main, ready>>
    PROVE  IndInv'
<1>1. ASSUME NEW c \in Keyed(r), AwaitResult(r, c.id) \/ Answer(r, c.id)
      PROVE  IndInv'
  <2>1. c \in history /\ c.key = KeyOf(r)
    BY DEF Keyed
  <2>2. c.id \in 0 .. Posts /\ \E a \in issued' : a.id = c.id /\ a.key = KeyOf(r)
    BY <2>1, RecordTalk
  <2>3. TalkInv'
    BY <1>1, <2>2, AnswerTalk DEF IndInv, AwaitResult, Answer
  <2>4. QED
    BY <2>3, TalkFrame DEF IndInv
<1>2. QED
  BY <1>1, RefuseInv DEF AnswerForKey

-----------------------------------------------------------------------------
(* Steps that register a command                                           *)

\* Numbers are ordered as their initial segments are, and finite sets by strict
\* inclusion are well founded.
LEMMA OldestExists ==
    ASSUME NEW cs, cs # {}, \A c \in cs : c.id \in Nat
    PROVE  Oldest(cs) # {}
<1> DEFINE T == {1 .. c.id : c \in cs}
           R == StrictSubsetOrdering(Nat)
<1>1. T \subseteq FiniteSubsetsOf(Nat) /\ T # {}
  <2>1. \A c \in cs : IsFiniteSet(1 .. c.id) /\ 1 .. c.id \subseteq Nat
    BY FS_Interval
  <2>2. QED
    BY <2>1 DEF FiniteSubsetsOf
<1>2. PICK x \in T : \A y \in T : <<y, x>> \notin R
  <2>1. IsWellFoundedOn(R, FiniteSubsetsOf(Nat))
    BY FS_StrictSubsetOrderingWellFounded
  <2> HIDE DEF T, R
  <2>2. QED
    BY <1>1, <2>1, WFMin
<1>3. PICK c \in cs : x = 1 .. c.id
  OBVIOUS
<1>4. ASSUME NEW d \in cs PROVE c.id <= d.id
  <2> SUFFICES ASSUME d.id < c.id PROVE FALSE
    OBVIOUS
  <2> DEFINE y == 1 .. d.id
  <2>1. y \in SUBSET Nat /\ x \in SUBSET Nat /\ y \subseteq x /\ y # x
    <3>1. c.id \in x /\ c.id \notin y
      BY <1>3
    <3>2. y \subseteq x /\ x \subseteq Nat
      BY <1>3
    <3>3. QED
      BY <3>1, <3>2
  <2>2. <<y, x>> \in R
    <3> HIDE DEF y
    <3>1. QED
      BY <2>1 DEF StrictSubsetOrdering
  <2>3. QED
    BY <1>2, <2>2
<1>5. c \in Oldest(cs)
  BY <1>4 DEF Oldest
<1>6. QED
  BY <1>5

\* One record leaves a full history, and it has its result.
LEMMA EvictedFacts ==
    ASSUME NamesInv, ~HistoryFull
    PROVE  /\ Evicted \subseteq Settled
           /\ IsFiniteSet(history \ Evicted)
           /\ Cardinality(history \ Evicted) \in Nat
           /\ Cardinality(history \ Evicted) + 1 <= HistoryCapacity
<1>1. IsFiniteSet(history) /\ Cardinality(history) \in Nat
  BY FS_CardinalityType DEF NamesInv
<1>2. CASE Cardinality(history) < HistoryCapacity
  <2>1. Evicted = {} /\ history \ Evicted = history
    BY <1>2 DEF Evicted
  <2>2. QED
    BY <1>1, <1>2, <2>1, ApiAssumption
<1>3. CASE ~(Cardinality(history) < HistoryCapacity)
  <2>1. Cardinality(history) = HistoryCapacity
    BY <1>1, <1>3, ApiAssumption DEF NamesInv
  <2>2. Settled # {} /\ Evicted = Oldest(Settled)
    BY <1>3, <2>1, ApiAssumption DEF HistoryFull, Evicted
  <2>3. \A c \in Settled : c.id \in Nat
    BY ApiAssumption DEF NamesInv, Settled, Records, Ids
  <2>4. PICK c : c \in Evicted
    BY <2>2, <2>3, OldestExists
  <2>5. Evicted \subseteq Settled
    BY <2>2 DEF Oldest
  <2>6. c \in history
    BY <2>4, <2>5 DEF Settled
  <2>7. IsFiniteSet(history \ {c}) /\ Cardinality(history \ {c}) = Cardinality(history) - 1
    BY <1>1, <2>6, FS_RemoveElement
  <2>8. history \ Evicted \subseteq history \ {c}
    BY <2>4
  <2>9. /\ IsFiniteSet(history \ Evicted)
        /\ Cardinality(history \ Evicted) <= Cardinality(history \ {c})
    BY <2>7, <2>8, FS_Subset
  <2>10. QED
    BY <1>1, <2>1, <2>5, <2>7, <2>9, FS_CardinalityType
<1>4. QED
  BY <1>2, <1>3

\* A key that neither the history nor the retired keys know was never used.
LEMMA KeyUnused ==
    ASSUME NamesInv, NEW r \in Requests, Keyed(r) = {}, ~Expired(r), KeyOf(r) # NoKey
    PROVE  \A a \in issued : a.key # KeyOf(r)
<1> SUFFICES ASSUME NEW a \in issued, a.key = KeyOf(r)
             PROVE  FALSE
  OBVIOUS
<1>1. a.key \notin retired
  BY DEF Expired
<1>2. PICK c \in history : c.id = a.id
  BY <1>1 DEF NamesInv
<1>3. [id |-> c.id, key |-> c.key, command |-> c.command] = a
  BY <1>2 DEF NamesInv
<1>4. c.key = a.key
  BY <1>3
<1>5. c \in Keyed(r)
  BY <1>4 DEF Keyed
<1>6. QED
  BY <1>5

LEMMA NewCommandNames ==
    ASSUME NamesInv, NEW r \in Requests, Keyed(r) = {}, ~Expired(r), ~HistoryFull,
           nextId \in Ids, NewCommand(r)
    PROVE  NamesInv'
<1> DEFINE a0 == [id |-> nextId, key |-> KeyOf(r), command |-> CommandOf(r)]
           c0 == [id |-> nextId, key |-> KeyOf(r), command |-> CommandOf(r),
                  state |-> "Pending"]
<1>1. /\ issued' = issued \union {a0} /\ nextId' = nextId + 1
      /\ history' = (history \ Evicted) \union {c0}
      /\ retired' = retired \union ({e.key : e \in Evicted} \ {NoKey})
  BY DEF NewCommand
<1>2. KeyOf(r) \in Keys /\ CommandOf(r) \in {"go", "open", "shutdown"}
  BY ApiAssumption DEF Keys, Requests
<1>3. a0 \in Commands /\ c0 \in Records
  BY <1>2 DEF Commands, Records, States, Keys
<1>4. Evicted \subseteq history
  BY EvictedFacts DEF Settled
<1>5. nextId \in Nat /\ \A a \in issued : a.id \in Nat /\ a.id < nextId
  BY ApiAssumption DEF NamesInv, Commands, Ids
<1>6. \A c \in history : c.id < nextId /\ [id |-> c.id, key |-> c.key, command |-> c.command] \in issued
  BY <1>5 DEF NamesInv
<1>7. issued' \subseteq Commands /\ history' \subseteq Records
  BY <1>1, <1>3 DEF NamesInv
<1>8. retired' \subseteq Keys \ {NoKey}
  BY <1>1, <1>4 DEF NamesInv, Records, Keys
<1>9. IsFiniteSet(history') /\ Cardinality(history') <= HistoryCapacity
  <2> DEFINE rest == history \ Evicted
  <2>1. IsFiniteSet(rest) /\ Cardinality(rest) \in Nat /\ Cardinality(rest) + 1 <= HistoryCapacity
    BY EvictedFacts
  <2>2. history' = rest \union {c0}
    BY <1>1
  <2> HIDE DEF rest, c0
  <2>3. /\ IsFiniteSet(rest \union {c0})
        /\ Cardinality(rest \union {c0}) = Cardinality(rest)
            \/ Cardinality(rest \union {c0}) = Cardinality(rest) + 1
    BY <2>1, FS_AddElement
  <2>4. QED
    BY <2>1, <2>2, <2>3, ApiAssumption
<1>10. \A a \in issued' : a.id < nextId'
  <2>1. a0.id = nextId
    OBVIOUS
  <2> HIDE DEF a0
  <2>2. QED
    BY <1>1, <1>5, <2>1
<1>11. \A a, b \in issued' : a.id = b.id => a = b
  BY <1>1, <1>5 DEF NamesInv
<1>12. \A a, b \in issued' : a.key = b.key /\ a.key # NoKey => a = b
  BY <1>1, KeyUnused DEF NamesInv
<1>13. \A c \in history' : [id |-> c.id, key |-> c.key, command |-> c.command] \in issued'
  <2>1. [id |-> c0.id, key |-> c0.key, command |-> c0.command] = a0
    OBVIOUS
  <2> HIDE DEF a0, c0
  <2>2. QED
    BY <1>1, <1>6, <2>1
<1>14. \A c, d \in history' : c.id = d.id => c = d
  <2>1. c0.id = nextId /\ \A c \in history : c.id # nextId
    <3>1. ASSUME NEW c \in history PROVE c.id # nextId
      <4>1. c.id \in Ids /\ c.id < nextId
        BY <1>6 DEF NamesInv, Records
      <4>2. QED
        BY <1>5, <4>1, ApiAssumption DEF Ids
    <3>2. QED
      BY <3>1
  <2>2. \A c, d \in history : c.id = d.id => c = d
    BY DEF NamesInv
  <2> HIDE DEF c0
  <2>3. QED
    BY <1>1, <2>1, <2>2
<1>15. \A a \in issued' :
          a.key # NoKey => a.key \in retired' \/ \E c \in history' : c.id = a.id
  <2> SUFFICES ASSUME NEW a \in issued', a.key # NoKey, a.key \notin retired'
               PROVE  \E c \in history' : c.id = a.id
    OBVIOUS
  <2>1. CASE a = a0
    <3>1. a.id = c0.id /\ c0 \in history'
      BY <1>1, <2>1
    <3>2. QED
      BY <3>1
  <2>2. CASE a \in issued
    <3>1. PICK c \in history : c.id = a.id
      BY <1>1, <2>2 DEF NamesInv
    <3>2. [id |-> c.id, key |-> c.key, command |-> c.command] = a
      BY <1>6, <2>2, <3>1 DEF NamesInv
    <3>3. c.key = a.key
      BY <3>2
    <3>4. c \notin Evicted
      BY <1>1, <3>3
    <3>5. QED
      BY <1>1, <3>1, <3>4
  <2>3. QED
    BY <1>1, <2>1, <2>2
<1>16. QED
  BY <1>7, <1>8, <1>9, <1>10, <1>11, <1>12, <1>13, <1>14, <1>15 DEF NamesInv

LEMMA NewCommandWay ==
    ASSUME NamesInv, WayInv, NEW r \in Requests, ~HistoryFull, Len(queue) < QueueCapacity,
           nextId \in Ids, NewCommand(r), UNCHANGED <<batch, results>>
    PROVE  WayInv'
<1> DEFINE c0 == [id |-> nextId, key |-> KeyOf(r), command |-> CommandOf(r),
                  state |-> "Pending"]
<1>1. history' = (history \ Evicted) \union {c0} /\ queue' = Append(queue, nextId)
  BY DEF NewCommand
<1>2. /\ queue \in Seq(Ids) /\ batch \in Seq(Ids) /\ results \in Seq(Outcomes)
      /\ batch' = batch /\ results' = results
  BY DEF WayInv
<1>3. queue' \in Seq(Ids) /\ Len(queue') <= QueueCapacity
  BY <1>1, <1>2, ApiAssumption
<1>4. \A e \in Evicted : e.state # "Pending"
  BY EvictedFacts DEF Settled
<1>5. ASSUME NEW id \in Ids
      PROVE  Underway(queue', batch', results', id) = IF IsPending(history', id) THEN 1 ELSE 0
  <2>1. Hits(queue', {id}) = Hits(queue, {id}) + IF nextId \in {id} THEN 1 ELSE 0
    BY <1>1, <1>2, HitsAppend
  <2>2. Underway(queue, batch, results, id) = IF IsPending(history, id) THEN 1 ELSE 0
    BY UnderwayNow
  <2>3. Hits(queue, {id}) \in Nat /\ Hits(batch, {id}) \in Nat /\ Hits(results, Of(id)) \in Nat
    BY <1>2, UnderwayMeaning
  <2>4. CASE id = nextId
    <3>1. ~IsPending(history, id)
      <4>1. \A c \in history : c.id # nextId
        <5>1. \A c \in history : [id |-> c.id, key |-> c.key, command |-> c.command].id < nextId
          BY DEF NamesInv
        <5>2. QED
          BY <5>1, ApiAssumption DEF Ids
      <4>2. QED
        BY <2>4, <4>1 DEF IsPending
    <3>2. IsPending(history', id)
      <4>1. c0 \in history' /\ c0.id = id /\ c0.state = "Pending"
        BY <1>1, <2>4
      <4>2. QED
        BY <4>1 DEF IsPending
    <3>3. QED
      BY <1>2, <2>1, <2>2, <2>3, <2>4, <3>1, <3>2 DEF Underway
  <2>5. CASE id # nextId
    <3>1. IsPending(history', id) <=> IsPending(history, id)
      <4>1. c0.id = nextId
        OBVIOUS
      <4> HIDE DEF c0
      <4>2. QED
        BY <1>1, <1>4, <2>5, <4>1 DEF IsPending
    <3>2. QED
      BY <1>2, <2>1, <2>2, <2>3, <2>5, <3>1 DEF Underway
  <2>6. QED
    BY <2>4, <2>5
<1>6. PendingIsUnderway'
  BY <1>2, <1>3, <1>5, UnderwayNext
<1>7. QED
  BY <1>2, <1>3, <1>6 DEF WayInv

\* The result of an older command says nothing of the new one.
LEMMA NewCommandEnd ==
    ASSUME NamesInv, WayInv, EndInv, NEW r \in Requests, NewCommand(r),
           UNCHANGED <<server, main, results, ready>>
    PROVE  EndInv'
<1> DEFINE a0 == [id |-> nextId, key |-> KeyOf(r), command |-> CommandOf(r)]
<1>1. issued' = issued \union {a0}
  BY DEF NewCommand
<1>2. ASSUME NEW i \in DOMAIN results'
      PROVE  a0.id # results'[i].id
  <2>1. PICK c \in history : c.id = results[i].id
    BY <1>2, ReportedIsPending DEF IsPending
  <2>2. [id |-> c.id, key |-> c.key, command |-> c.command].id < nextId
    BY DEF NamesInv
  <2>3. c.id \in Ids
    BY DEF NamesInv, Records
  <2>4. QED
    BY <2>1, <2>2, <2>3, ApiAssumption DEF Ids
<1> HIDE DEF a0
<1>3. QED
  BY <1>1, <1>2 DEF EndInv, main, ShutdownLosesNothing, ServerStopsWithLoop

LEMMA RegisterInv ==
    ASSUME IndInv, NEW r \in Requests, r \notin Answered, Register(r),
           UNCHANGED <<preparing, server, main, results, ready>>
    PROVE  IndInv'
<1>1. CASE AnswerForKey(r) /\ UNCHANGED <<history, retired, nextId, queue, issued>>
  BY <1>1, AnswerForKeyInv
<1>2. CASE Refuse(r) /\ UNCHANGED <<history, retired, nextId, queue, issued>>
  BY <1>2, RefuseInv
<1>3. CASE /\ Refuse(r) /\ nextId' = nextId + 1
           /\ UNCHANGED <<history, retired, queue, issued>>
  <2>1. 0 \in 0 .. Posts /\ nextId \in Nat
    BY ApiAssumption DEF IndInv, TalkInv
  <2>2. TalkInv'
    BY <1>3, <2>1, AnswerTalk DEF IndInv, Refuse, Answer
  <2>3. NamesInv'
    <3>1. \A a \in issued : a.id < nextId'
      BY <1>3, <2>1, ApiAssumption DEF IndInv, NamesInv, Commands, Ids
    <3>2. QED
      BY <1>3, <3>1 DEF IndInv, NamesInv
  <2>4. WayInv' /\ EndInv'
    BY <1>3 DEF IndInv, WayInv, EndInv, PendingIsUnderway, Pending, Times,
                ShutdownLosesNothing, ServerStopsWithLoop, main
  <2>5. QED
    BY <2>2, <2>3, <2>4 DEF IndInv
<1>4. CASE /\ Keyed(r) = {} /\ ~Expired(r) /\ Len(queue) < QueueCapacity /\ ~HistoryFull
           /\ NewCommand(r)
  <2>1. nextId \in Ids /\ nextId \in 0 .. Posts /\ nextId' = nextId + 1
    BY <1>4, IdsSuffice DEF IndInv, NewCommand, Ids
  <2>2. issued \subseteq issued' /\ \E a \in issued' : a.id = nextId /\ a.key = KeyOf(r)
    <3> DEFINE a0 == [id |-> nextId, key |-> KeyOf(r), command |-> CommandOf(r)]
    <3>1. issued' = issued \union {a0}
      BY <1>4 DEF NewCommand
    <3>2. a0.id = nextId /\ a0.key = KeyOf(r)
      OBVIOUS
    <3> HIDE DEF a0
    <3>3. QED
      BY <3>1, <3>2
  <2>3. AwaitResult(r, nextId) \/ Answer(r, nextId)
    BY <1>4 DEF NewCommand
  <2>4. TalkInv'
    BY <2>1, <2>2, <2>3, AnswerTalk DEF IndInv, AwaitResult, Answer
  <2>5. NamesInv'
    BY <1>4, <2>1, NewCommandNames DEF IndInv
  <2>6. WayInv'
    BY <1>4, <2>1, NewCommandWay DEF IndInv, main
  <2>7. EndInv'
    BY <1>4, NewCommandEnd DEF IndInv
  <2>8. QED
    BY <2>4, <2>5, <2>6, <2>7 DEF IndInv
<1>5. QED
  BY <1>1, <1>2, <1>3, <1>4 DEF Register

-----------------------------------------------------------------------------
(* The other steps *)

\* A step that leaves ids and answers alone and takes nothing from what the
\* handlers know.
LEMMA ConnTalk ==
    ASSUME TalkInv,
           conn' \in [Requests -> {"unsent", "preparing", "prepared", "waiting", "done"}],
           \A r \in Requests : conn[r] \in {"waiting", "done"} => conn'[r] \in {"waiting", "done"},
           ticket' \in [Requests -> 0 .. Posts],
           \A r \in Requests : ticket'[r] # 0 => ticket'[r] = ticket[r],
           preparing' \subseteq Requests, Cardinality(preparing') <= Preparations,
           UNCHANGED <<nextId, issued>>
    PROVE  TalkInv'
<1>1. Answered \subseteq Answered' /\ Answered' \subseteq Requests
  BY DEF Answered
<1>2. /\ Cardinality(Answered) <= Cardinality(Answered')
      /\ Cardinality(Answered) \in Nat /\ Cardinality(Answered') \in Nat
  <2>1. IsFiniteSet(Answered')
    BY <1>1, RequestsFinite
  <2>2. QED
    BY <1>1, <2>1, FS_Subset, FS_CardinalityType
<1>3. nextId' <= Cardinality(Answered') + 1
  BY <1>2, ApiAssumption DEF TalkInv
<1>4. \A r \in Requests : ticket'[r] # 0 =>
          \E a \in issued' : a.id = ticket'[r] /\ a.key = KeyOf(r)
  BY DEF TalkInv, Named
<1>5. QED
  BY <1>3, <1>4 DEF TalkInv, Named

LEMMA PostOpenInv ==
    ASSUME IndInv, NEW r \in Requests, PostOpen(r)
    PROVE  IndInv'
<1>1. CASE Refuse(r) /\ preparing' = preparing
  BY <1>1, RefuseInv DEF PostOpen
<1>2. CASE /\ Cardinality(preparing) < Preparations
           /\ preparing' = preparing \union {r}
           /\ conn' = [conn EXCEPT ![r] = "preparing"]
           /\ UNCHANGED ticket
  <2>1. conn[r] = "unsent" /\ UNCHANGED <<nextId, issued>>
    BY DEF PostOpen, Arrives
  <2>2. preparing' \subseteq Requests /\ Cardinality(preparing') <= Preparations
    <3>1. IsFiniteSet(preparing) /\ Cardinality(preparing) \in Nat
      BY RequestsFinite DEF IndInv, TalkInv
    <3>2. Cardinality(preparing \union {r}) <= Cardinality(preparing) + 1
      BY <3>1, FS_AddElement
    <3>3. IsFiniteSet(preparing \union {r}) /\ Cardinality(preparing \union {r}) \in Nat
      BY <3>1, FS_AddElement, FS_CardinalityType
    <3>4. QED
      BY <1>2, <3>1, <3>2, <3>3, ApiAssumption DEF IndInv, TalkInv
  <2>3. TalkInv'
    BY <1>2, <2>1, <2>2, ConnTalk DEF IndInv, TalkInv
  <2>4. QED
    BY <2>3, TalkFrame DEF IndInv, PostOpen
<1>3. QED
  BY <1>1, <1>2 DEF PostOpen

LEMMA PrepareDoneInv ==
    ASSUME IndInv, NEW r \in Requests, PrepareDone(r)
    PROVE  IndInv'
<1>1. preparing' \subseteq Requests /\ Cardinality(preparing') <= Preparations
  <2>1. IsFiniteSet(preparing) /\ Cardinality(preparing) \in Nat
    BY RequestsFinite DEF IndInv, TalkInv
  <2>2. preparing' \subseteq preparing
    BY DEF PrepareDone
  <2>3. Cardinality(preparing') <= Cardinality(preparing) /\ Cardinality(preparing') \in Nat
    BY <2>1, <2>2, FS_Subset, FS_CardinalityType
  <2>4. QED
    BY <2>1, <2>2, <2>3, ApiAssumption DEF IndInv, TalkInv
<1>2. TalkInv'
  BY <1>1, ConnTalk DEF IndInv, TalkInv, PrepareDone
<1>3. QED
  BY <1>2, TalkFrame DEF IndInv, PrepareDone

LEMMA GraceOverInv ==
    ASSUME IndInv, GraceOver
    PROVE  IndInv'
<1>1. TalkInv'
  <2>1. 0 \in 0 .. Posts
    BY ApiAssumption
  <2>2. QED
    BY <2>1, ConnTalk DEF IndInv, TalkInv, GraceOver, Open
<1>2. EndInv'
  BY DEF IndInv, EndInv, ShutdownLosesNothing, ServerStopsWithLoop, GraceOver, main
<1>3. NamesInv' /\ WayInv'
  BY DEF IndInv, NamesInv, WayInv, PendingIsUnderway, Pending, Times, GraceOver, main
<1>4. QED
  BY <1>1, <1>2, <1>3 DEF IndInv

\* A handler that waited gets its answer.
LEMMA WakeUpInv ==
    ASSUME IndInv, NEW r \in Requests, WakeUp(r) \/ WaitTimesOut(r)
    PROVE  IndInv'
<1>1. CASE Refuse(r)
  BY <1>1, RefuseInv DEF WakeUp, WaitTimesOut
<1>2. CASE \E c \in history : c.id = ticket[r] /\ Answer(r, c.id)
  <2>1. PICK c \in history : c.id = ticket[r] /\ Answer(r, c.id)
    BY <1>2
  <2>2. ticket[r] \in 0 .. Posts /\ UNCHANGED <<nextId, issued, preparing>>
    BY DEF IndInv, TalkInv, WakeUp, WaitTimesOut
  <2>3. ticket[r] # 0 => \E a \in issued' : a.id = ticket[r] /\ a.key = KeyOf(r)
    BY <2>2 DEF IndInv, TalkInv, Named
  <2>4. TalkInv'
    BY <2>1, <2>2, <2>3, AnswerTalk DEF IndInv, Answer
  <2>5. QED
    BY <2>4, TalkFrame DEF IndInv, WakeUp, WaitTimesOut
<1>3. QED
  BY <1>1, <1>2 DEF WakeUp, WaitTimesOut

\* Steps that change no more than the state of the server, the windows and the
\* operator's show.
LEMMA QuietInv ==
    ASSUME IndInv, ServerEnds \/ Deliver \/ MarkReady \/ OperatorActs \/ CloseWindow
                   \/ ExitDelivered \/ ExitTimeout \/ UNCHANGED vars
    PROVE  IndInv'
<1>1. UNCHANGED <<conn, ticket, preparing, history, retired, nextId, issued, batch, queue,
                  results, ran>>
  BY DEF ServerEnds, Deliver, MarkReady, OperatorActs, CloseWindow, ExitDelivered,
         ExitTimeout, vars, api, main
<1>2. TalkInv'
  BY <1>1 DEF IndInv, TalkInv, Answered, Named
<1>3. NamesInv'
  BY <1>1 DEF IndInv, NamesInv
<1>4. WayInv'
  BY <1>1 DEF IndInv, WayInv, PendingIsUnderway, Pending, Times
<1>5. EndInv'
  <2>1. show' \in [dirty : BOOLEAN, active : BOOLEAN]
    <3>1. CASE OperatorActs
      <4>1. PICK part \in {"dirty", "active"} : show' = [show EXCEPT ![part] = ~@]
        BY <3>1 DEF OperatorActs, IndInv, EndInv
      <4>2. QED
        BY <4>1 DEF IndInv, EndInv
    <3>2. CASE UNCHANGED show
      BY <3>2 DEF IndInv, EndInv
    <3>3. QED
      BY <3>1, <3>2 DEF ServerEnds, Deliver, MarkReady, CloseWindow, ExitDelivered,
                        ExitTimeout, vars, api, main
  <2>2. /\ server' \in {"serving", "stopping", "closed", "delivered"}
        /\ ready' \in BOOLEAN /\ UNCHANGED stopping
        /\ exit' \in {"no", "closed", "delivered", "timeout"}
        /\ server' = server \/ server # "serving"
        /\ stopping => UNCHANGED show
    BY DEF IndInv, EndInv, ServerEnds, Deliver, MarkReady, OperatorActs, CloseWindow,
           ExitDelivered, ExitTimeout, vars, api, main
  <2>3. QED
    BY <1>1, <2>1, <2>2 DEF IndInv, EndInv, ShutdownLosesNothing, ServerStopsWithLoop
<1>6. QED
  BY <1>2, <1>3, <1>4, <1>5 DEF IndInv

LEMMA TakeBatchInv ==
    ASSUME IndInv, TakeBatch
    PROVE  IndInv'
<1>1. /\ batch = <<>> /\ batch' = queue /\ queue' = <<>>
      /\ UNCHANGED <<conn, ticket, preparing, history, retired, nextId, issued, results>>
      /\ UNCHANGED <<server, ready, stopping, exit, show, ran>>
  BY DEF TakeBatch, api
<1>2. queue \in Seq(Ids) /\ batch \in Seq(Ids) /\ results \in Seq(Outcomes)
  BY DEF IndInv, WayInv
<1>3. queue' \in Seq(Ids) /\ Len(queue') = 0
  BY <1>1, <1>2
<1>4. ASSUME NEW id \in Ids
      PROVE  Underway(queue', batch', results', id) = IF IsPending(history', id) THEN 1 ELSE 0
  <2>1. Underway(queue, batch, results, id) = IF IsPending(history, id) THEN 1 ELSE 0
    BY UnderwayNow DEF IndInv
  <2>2. Hits(<<>>, {id}) = 0 /\ Hits(queue, {id}) \in Nat /\ Hits(results, Of(id)) \in Nat
    BY <1>2, UnderwayMeaning, HitsEmpty
  <2>3. QED
    BY <1>1, <2>1, <2>2 DEF Underway
<1>5. PendingIsUnderway'
  BY <1>1, <1>2, <1>3, <1>4, UnderwayNext
<1>6. WayInv'
  BY <1>1, <1>2, <1>3, <1>5, ApiAssumption DEF WayInv
<1>7. TalkInv'
  BY <1>1 DEF IndInv, TalkInv, Answered, Named
<1>8. NamesInv'
  BY <1>1 DEF IndInv, NamesInv
<1>9. EndInv'
  BY <1>1 DEF IndInv, EndInv, ShutdownLosesNothing, ServerStopsWithLoop
<1>10. QED
  BY <1>6, <1>7, <1>8, <1>9 DEF IndInv

\* The command of an id that is in the batch.
LEMMA CommandFound ==
    ASSUME IndInv, batch # <<>>
    PROVE  /\ Head(batch) \in Ids
           /\ CommandOfId(Head(batch)) \in {"go", "open", "shutdown"}
           /\ \A a \in issued : a.id = Head(batch) => a.command = CommandOfId(Head(batch))
<1>1. batch \in Seq(Ids) /\ Head(batch) = batch[1] /\ 1 \in DOMAIN batch
  BY DEF IndInv, WayInv
<1>2. PICK c \in history : c.id = Head(batch)
  BY <1>1, BatchedIsPending DEF IndInv, IsPending
<1>3. PICK a \in issued : a.id = Head(batch)
  BY <1>2, RecordTalk
<1>4. \A b \in issued : b.id = Head(batch) => b = a
  BY <1>3 DEF IndInv, NamesInv
<1>5. a = CHOOSE x \in issued : x.id = Head(batch)
  BY <1>3, <1>4
<1>6. CommandOfId(Head(batch)) = a.command /\ a.command \in {"go", "open", "shutdown"}
  BY <1>5 DEF CommandOfId, IndInv, NamesInv, Commands
<1>7. QED
  BY <1>1, <1>4, <1>6

\* The head of the batch becomes a result.
LEMMA ReportWay ==
    ASSUME WayInv, batch # <<>>, NEW st \in {"Applied", "Rejected"},
           results' = Append(results, [id |-> Head(batch), state |-> st]),
           batch' = Tail(batch), UNCHANGED <<queue, history>>
    PROVE  WayInv'
<1> DEFINE res == [id |-> Head(batch), state |-> st]
<1>1. /\ queue \in Seq(Ids) /\ batch \in Seq(Ids) /\ results \in Seq(Outcomes)
      /\ Head(batch) \in Ids /\ batch' \in Seq(Ids)
  BY DEF WayInv
<1>2. res \in Outcomes /\ results' \in Seq(Outcomes)
  BY <1>1 DEF Outcomes
<1>3. ASSUME NEW id \in Ids
      PROVE  Underway(queue', batch', results', id) = IF IsPending(history', id) THEN 1 ELSE 0
  <2>1. Underway(queue, batch, results, id) = IF IsPending(history, id) THEN 1 ELSE 0
    BY UnderwayNow
  <2>2. Hits(batch, {id}) = Hits(batch', {id}) + IF Head(batch) \in {id} THEN 1 ELSE 0
    BY <1>1, HitsTail
  <2>3. Hits(results', Of(id)) = Hits(results, Of(id)) + IF res \in Of(id) THEN 1 ELSE 0
    BY <1>1, <1>2, HitsAppend
  <2>4. res \in Of(id) <=> Head(batch) \in {id}
    BY <1>2 DEF Of
  <2>5. /\ Hits(queue, {id}) \in Nat /\ Hits(batch', {id}) \in Nat
        /\ Hits(results, Of(id)) \in Nat
    BY <1>1, UnderwayMeaning
  <2> HIDE DEF res
  <2>6. QED
    BY <2>1, <2>2, <2>3, <2>4, <2>5 DEF Underway
<1>4. PendingIsUnderway'
  BY <1>1, <1>2, <1>3, UnderwayNext
<1>5. QED
  BY <1>1, <1>2, <1>4 DEF WayInv

LEMMA ExecuteInv ==
    ASSUME IndInv, Execute
    PROVE  IndInv'
<1> DEFINE id == Head(batch)
           reject == [id |-> id, state |-> "Rejected"]
           apply == [id |-> id, state |-> "Applied"]
<1>1. /\ batch # <<>> /\ batch' = Tail(batch)
      /\ UNCHANGED <<conn, ticket, preparing, history, retired, nextId, issued, queue>>
      /\ UNCHANGED <<server, exit>>
  BY DEF Execute, api
<1>2. /\ id \in Ids /\ CommandOfId(id) \in {"go", "open", "shutdown"}
      /\ \A a \in issued : a.id = id => a.command = CommandOfId(id)
  BY <1>1, CommandFound
<1>3. /\ results \in Seq(Outcomes) /\ reject \in Outcomes /\ apply \in Outcomes
      /\ ready \in BOOLEAN /\ stopping \in BOOLEAN
      /\ show \in [dirty : BOOLEAN, active : BOOLEAN]
      /\ stopping => ~show.dirty /\ ~show.active
      /\ server # "serving" => stopping
  BY <1>2 DEF IndInv, WayInv, EndInv, Outcomes, ShutdownLosesNothing, ServerStopsWithLoop
<1>4. /\ ran' \subseteq Ids
      /\ stopping' \in BOOLEAN
      /\ stopping => stopping'
      /\ \/ results' = Append(results, reject) /\ UNCHANGED <<show, stopping, ready>>
         \/ /\ results' = Append(results, apply)
            /\ ready' \in BOOLEAN
            /\ show' \in [dirty : BOOLEAN, active : BOOLEAN]
            /\ stopping' => ~show'.dirty /\ ~show'.active
            /\ CommandOfId(id) = "shutdown" => stopping'
  <2>1. CASE stopping
    BY <1>3, <2>1 DEF Execute, Reject, IndInv, EndInv
  <2>2. CASE ~stopping /\ CommandOfId(id) = "go"
    BY <1>2, <1>3, <2>2 DEF Execute, ExecuteGo, Reject, Apply, IndInv, EndInv
  <2>3. CASE ~stopping /\ CommandOfId(id) = "open"
    BY <1>2, <1>3, <2>3 DEF Execute, ExecuteOpen, Reject, Apply, IndInv, EndInv
  <2>4. CASE ~stopping /\ CommandOfId(id) = "shutdown"
    BY <1>2, <1>3, <2>4 DEF Execute, ExecuteShutdown, Reject, Apply, IndInv, EndInv
  <2>5. QED
    BY <1>2, <1>3, <2>1, <2>2, <2>3, <2>4
<1>5. WayInv'
  BY <1>1, <1>4, ReportWay DEF IndInv
<1>6. TalkInv'
  BY <1>1 DEF IndInv, TalkInv, Answered, Named
<1>7. NamesInv'
  BY <1>1 DEF IndInv, NamesInv
<1>8. \A i \in DOMAIN results' : \A a \in issued :
          a.id = results'[i].id /\ a.command = "shutdown" /\ results'[i].state = "Applied"
            => stopping'
  <2> SUFFICES ASSUME NEW i \in DOMAIN results', NEW a \in issued, a.id = results'[i].id,
                      a.command = "shutdown", results'[i].state = "Applied"
               PROVE  stopping'
    OBVIOUS
  <2>1. CASE i \in DOMAIN results
    <3>1. results'[i] = results[i]
      <4>1. \A e \in Outcomes : Append(results, e)[i] = results[i]
        BY <1>3, <2>1
      <4>2. \E e \in Outcomes : results' = Append(results, e)
        BY <1>3, <1>4
      <4>3. QED
        BY <4>1, <4>2
    <3>2. stopping
      BY <2>1, <3>1 DEF IndInv, EndInv
    <3>3. QED
      BY <1>4, <3>2
  <2>2. CASE i = Len(results) + 1
    <3>1. CASE results' = Append(results, reject)
      <4>1. results'[i] = reject
        BY <1>3, <2>2, <3>1
      <4>2. QED
        BY <4>1
    <3>2. CASE results' = Append(results, apply)
      <4>1. results'[i] = apply
        BY <1>3, <2>2, <3>2
      <4>2. a.id = id /\ CommandOfId(id) = "shutdown"
        BY <1>2, <4>1
      <4>3. results' # Append(results, reject)
        <5>1. Append(results, reject)[i] = reject
          BY <1>3, <2>2
        <5>2. QED
          BY <3>2, <4>1, <5>1
      <4>4. QED
        BY <1>4, <4>2, <4>3
    <3>3. QED
      BY <1>4, <3>1, <3>2
  <2>3. i \in DOMAIN results \/ i = Len(results) + 1
    BY <1>3, <1>4
  <2>4. QED
    BY <2>1, <2>2, <2>3
<1>9. EndInv'
  <2>1. stopping' => ~show'.dirty /\ ~show'.active
    BY <1>3, <1>4
  <2>2. show' \in [dirty : BOOLEAN, active : BOOLEAN] /\ ready' \in BOOLEAN
    BY <1>3, <1>4
  <2>3. ShutdownLosesNothing' /\ ServerStopsWithLoop'
    BY <1>1, <1>3, <1>4, <2>1 DEF ShutdownLosesNothing, ServerStopsWithLoop
  <2>4. /\ server' \in {"serving", "stopping", "closed", "delivered"}
        /\ exit' \in {"no", "closed", "delivered", "timeout"}
        /\ stopping' \in BOOLEAN /\ ran' \subseteq Ids
    BY <1>1, <1>4 DEF IndInv, EndInv
  <2>5. QED
    BY <1>1, <1>8, <2>2, <2>3, <2>4 DEF EndInv
<1>10. QED
  BY <1>5, <1>6, <1>7, <1>9 DEF IndInv

\* The record of a result: its command is pending until then.
LEMMA RecordResultInv ==
    ASSUME IndInv, RecordResult
    PROVE  IndInv'
<1> DEFINE res == Head(results)
<1>1. /\ results # <<>> /\ results' = Tail(results)
      /\ UNCHANGED <<conn, ticket, preparing, retired, nextId, issued, queue, batch>>
      /\ UNCHANGED <<ready, stopping, exit, show, ran>>
  BY DEF RecordResult, main
<1>2. /\ queue \in Seq(Ids) /\ batch \in Seq(Ids) /\ results \in Seq(Outcomes)
      /\ results' \in Seq(Outcomes) /\ 1 \in DOMAIN results /\ res = results[1]
      /\ res \in Outcomes /\ res.id \in Ids /\ res.state \in {"Applied", "Rejected"}
  <2>1. queue \in Seq(Ids) /\ batch \in Seq(Ids) /\ results \in Seq(Outcomes)
    BY DEF IndInv, WayInv
  <2>2. results' \in Seq(Outcomes) /\ 1 \in DOMAIN results /\ res = results[1]
    BY <1>1, <2>1
  <2>3. res \in Outcomes
    BY <2>1, <2>2
  <2>4. QED
    BY <2>1, <2>2, <2>3 DEF Outcomes
<1>3. PICK c \in history : c.state = "Pending" /\ c.id = res.id
  BY <1>2, ReportedIsPending DEF IndInv, IsPending
<1>4. {d \in history : d.id = res.id} = {c}
  BY <1>3 DEF IndInv, NamesInv
<1> DEFINE c1 == [c EXCEPT !.state = res.state]
<1>5. history' = (history \ {c}) \union {c1}
  BY <1>4 DEF RecordResult
<1>6. /\ c1 \in Records /\ c1.id = c.id /\ c1.key = c.key /\ c1.command = c.command
      /\ c1.state = res.state /\ c.id \in Ids
  BY <1>2 DEF IndInv, NamesInv, Records, States
<1>7. server' = server \/ (server' = "stopping" /\ c.command = "shutdown" /\ res.state = "Applied")
  BY <1>4 DEF RecordResult
<1> HIDE DEF c1
<1>8. TalkInv'
  BY <1>1 DEF IndInv, TalkInv, Answered, Named
<1>9. NamesInv'
  <2>1. IsFiniteSet(history') /\ Cardinality(history') <= HistoryCapacity
    <3>1. /\ IsFiniteSet(history) /\ Cardinality(history) \in Nat
          /\ Cardinality(history) <= HistoryCapacity
      BY FS_CardinalityType DEF IndInv, NamesInv
    <3>2. IsFiniteSet(history \ {c}) /\ Cardinality(history \ {c}) = Cardinality(history) - 1
      BY <1>3, <3>1, FS_RemoveElement
    <3> DEFINE rest == history \ {c}
    <3>3. /\ IsFiniteSet(rest \union {c1})
          /\ Cardinality(rest \union {c1}) = Cardinality(rest)
              \/ Cardinality(rest \union {c1}) = Cardinality(rest) + 1
      BY <3>2, FS_AddElement
    <3>4. QED
      BY <1>5, <3>1, <3>2, <3>3, ApiAssumption
  <2>2. history' \subseteq Records
    BY <1>5, <1>6 DEF IndInv, NamesInv
  <2>3. \A d \in history' : [id |-> d.id, key |-> d.key, command |-> d.command] \in issued
    BY <1>5, <1>6 DEF IndInv, NamesInv
  <2>4. \A d, e \in history' : d.id = e.id => d = e
    BY <1>5, <1>6 DEF IndInv, NamesInv
  <2>5. \A a \in issued :
            a.key # NoKey => a.key \in retired \/ \E d \in history' : d.id = a.id
    BY <1>5, <1>6 DEF IndInv, NamesInv
  <2>6. QED
    BY <1>1, <2>1, <2>2, <2>3, <2>4, <2>5 DEF IndInv, NamesInv
<1>10. WayInv'
  <2>1. ASSUME NEW id \in Ids
        PROVE  Underway(queue', batch', results', id) = IF IsPending(history', id) THEN 1 ELSE 0
    <3>1. Underway(queue, batch, results, id) = IF IsPending(history, id) THEN 1 ELSE 0
      BY UnderwayNow DEF IndInv
    <3>2. Hits(results, Of(id)) = Hits(results', Of(id)) + IF res \in Of(id) THEN 1 ELSE 0
      BY <1>1, <1>2, HitsTail
    <3>3. res \in Of(id) <=> res.id = id
      BY <1>2 DEF Of
    <3>4. /\ Hits(queue, {id}) \in Nat /\ Hits(batch, {id}) \in Nat
          /\ Hits(results', Of(id)) \in Nat
      BY <1>2, UnderwayMeaning
    <3>5. CASE id = res.id
      <4>1. ~IsPending(history', id)
        BY <1>2, <1>3, <1>4, <1>5, <1>6, <3>5 DEF IsPending
      <4>2. /\ Hits(queue, {id}) = 0 /\ Hits(batch, {id}) = 0 /\ Hits(results, Of(id)) = 1
        BY <1>2, <3>5, ReportedIsPending DEF IndInv
      <4>3. QED
        BY <1>1, <3>2, <3>3, <3>4, <3>5, <4>1, <4>2 DEF Underway
    <3>6. CASE id # res.id
      <4>1. IsPending(history', id) <=> IsPending(history, id)
        BY <1>3, <1>5, <1>6, <3>6 DEF IsPending
      <4>2. QED
        BY <1>1, <3>1, <3>2, <3>3, <3>4, <3>6, <4>1 DEF Underway
    <3>7. QED
      BY <3>5, <3>6
  <2>2. PendingIsUnderway'
    BY <1>1, <1>2, <2>1, UnderwayNext
  <2>3. QED
    BY <1>1, <1>2, <2>2 DEF IndInv, WayInv
<1>11. EndInv'
  <2>1. \A i \in DOMAIN results' : i + 1 \in DOMAIN results /\ results'[i] = results[i + 1]
    BY <1>1, <1>2
  <2>2. server' # "serving" => stopping
    <3>1. PICK a \in issued : a.id = c.id /\ a.command = c.command
      BY RecordTalk
    <3>2. c.command = "shutdown" /\ res.state = "Applied" => stopping
      BY <1>2, <1>3, <3>1 DEF IndInv, EndInv
    <3>3. QED
      BY <1>7, <3>2 DEF IndInv, EndInv, ServerStopsWithLoop
  <2>3. QED
    BY <1>1, <1>7, <2>1, <2>2 DEF IndInv, EndInv, ShutdownLosesNothing, ServerStopsWithLoop
<1>12. QED
  BY <1>8, <1>9, <1>10, <1>11 DEF IndInv

-----------------------------------------------------------------------------
(* The theorems *)

LEMMA InitInv == Init => IndInv
<1> SUFFICES ASSUME Init PROVE IndInv
  OBVIOUS
<1> USE ApiAssumption DEF Init
<1>1. TalkInv
  <2>1. preparing = {} /\ Cardinality(preparing) = 0
    BY FS_EmptySet
  <2>2. Answered = {} /\ Cardinality(Answered) = 0
    <3>1. Answered = {}
      BY DEF Answered
    <3>2. QED
      BY <3>1, FS_EmptySet
  <2>3. QED
    BY <2>1, <2>2 DEF TalkInv
<1>2. NamesInv
  <2>1. IsFiniteSet(history) /\ Cardinality(history) = 0
    BY FS_EmptySet
  <2>2. QED
    BY <2>1 DEF NamesInv
<1>3. WayInv
  <2>1. queue \in Seq(Ids) /\ batch \in Seq(Ids) /\ results \in Seq(Outcomes) /\ Len(queue) = 0
    OBVIOUS
  <2>2. ASSUME NEW id \in Ids
        PROVE  Times(id, queue) + Times(id, batch)
                 + Cardinality({i \in DOMAIN results : results[i].id = id}) = 0
    <3>1. {i \in DOMAIN <<>> : <<>>[i] = id} = {} /\ {i \in DOMAIN <<>> : <<>>[i].id = id} = {}
      OBVIOUS
    <3>2. QED
      BY <3>1, FS_EmptySet DEF Times
  <2>3. PendingIsUnderway
    BY <2>2 DEF PendingIsUnderway, Pending
  <2>4. QED
    BY <2>1, <2>3 DEF WayInv
<1>4. EndInv
  BY DEF EndInv, ShutdownLosesNothing, ServerStopsWithLoop
<1>5. QED
  BY <1>1, <1>2, <1>3, <1>4 DEF IndInv

LEMMA NextInv == IndInv /\ [Next]_vars => IndInv'
<1> SUFFICES ASSUME IndInv, [Next]_vars PROVE IndInv'
  OBVIOUS
<1>1. ASSUME NEW r \in Requests, PostKnown(r) PROVE IndInv'
  BY <1>1, AnswerForKeyInv DEF PostKnown
<1>2. ASSUME NEW r \in Requests, PostUnresponsive(r) \/ ClientLeaves(r) PROVE IndInv'
  BY <1>2, RefuseInv DEF PostUnresponsive, ClientLeaves
<1>3. ASSUME NEW r \in Requests, PostOther(r) PROVE IndInv'
  BY <1>3, RegisterInv DEF PostOther, Arrives, Answered
<1>4. ASSUME NEW r \in Requests, Resume(r) PROVE IndInv'
  <2>1. r \notin Answered
    BY <1>4 DEF Resume, Answered
  <2>2. QED
    BY <1>4, <2>1, RefuseInv, RegisterInv DEF Resume
<1>5. QED
  BY <1>1, <1>2, <1>3, <1>4, PostOpenInv, PrepareDoneInv, WakeUpInv, RecordResultInv,
     GraceOverInv, TakeBatchInv, ExecuteInv, QuietInv DEF Next

\* Every reachable state satisfies the inductive invariant, for any number of
\* requests, keys and capacities.
THEOREM Invariance == Spec => []IndInv
BY InitInv, NextInv, PTL DEF Spec

\* The types, and the limits of api.rs: the queue, the history and the permits
\* are never exceeded, whatever the handlers do between their awaits.
THEOREM TypeCorrect == Spec => []TypeOK
<1>1. IndInv => TypeOK
  BY DEF IndInv, TalkInv, NamesInv, WayInv, EndInv, TypeOK, Keys, Outcomes, Requests
<1>2. QED
  BY Invariance, <1>1, PTL

\* A key runs its command at most once and all its answers name that command:
\* the second look-up of register_command, the record and the retired keys.
THEOREM KeysCorrect == Spec => []KeyContract
<1>1. IndInv => KeyRunsOnce
  BY DEF IndInv, NamesInv, KeyRunsOnce
<1>2. IndInv => KeyNamesOneCommand
  BY DEF IndInv, TalkInv, NamesInv, Named, KeyNamesOneCommand
<1>3. QED
  BY Invariance, <1>1, <1>2, PTL DEF KeyContract

\* A command is on its way in exactly one place until it has its result, the
\* server stops only with the event loop, and an accepted shutdown loses nothing:
\* process_api_commands, complete_command and about_to_wait.
THEOREM NothingIsLost == Spec => []NothingLost
<1>1. IndInv => NothingLost
  BY DEF IndInv, WayInv, EndInv, NothingLost
<1>2. QED
  BY Invariance, <1>1, PTL
=============================================================================
