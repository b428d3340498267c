--------------------------- MODULE AzureDiscoveryProofs ---------------------------
(***************************************************************************)
(* The invariants of AzureDiscovery, proved for any subscriptions, names,   *)
(* connection strings, cache sizes and lengths of the hour, and for any     *)
(* number of changes and failures.                                          *)
(***************************************************************************)
EXTENDS AzureDiscovery, FiniteSetTheorems, SequenceTheorems, TLAPS

-----------------------------------------------------------------------------
(* The strengthening. *)

String == [mongo : BOOLEAN, primary : BOOLEAN, readOnly : BOOLEAN]
ListEntry(S) == Entry(SUBSET S) \cup {None}

\* What a call may be doing.
Calls ==
    {Idle}
    \cup [step : {"lookup"}, account : Names \cup {None}, prefer : BOOLEAN]
    \cup [step : {"list"}, account : Names \cup {None}, prefer : BOOLEAN,
          todo : SUBSET Subs, found : SUBSET Ids, late : 0..Lag]
    \cup [step : {"fetch"}, id : Ids, prefer : BOOLEAN]
    \cup [step : {"ping"}, prefer : BOOLEAN, string : Strings]

\* TypeOK, with the history, the call and the domains it leaves open.
Typed ==
    /\ visible \subseteq Subs /\ accounts \subseteq Ids
    /\ offers \in [Ids -> Seq(Offers)]
    /\ changes \in 0..MaxChanges /\ failures \in 0..MaxFailures
    /\ \A id \in Ids : Len(offers[id]) \in 1..(changes + 1)
    /\ subsCache \in ListEntry(Subs) /\ accountsCache \in ListEntry(Ids)
    /\ IsFiniteSet(DOMAIN connCache) /\ Cardinality(DOMAIN connCache) <= MaxConnStrs
    /\ DOMAIN connCache \subseteq Ids \X BOOLEAN
    /\ \A k \in DOMAIN connCache : connCache[k] \in Entry(Strings)
    /\ call \in Calls
    /\ since \in [Ids -> Nat]
    /\ skipped \in [Subs -> Nat]
    /\ DOMAIN outdated = Ids
    /\ \A id \in Ids : outdated[id] \in Seq(Nat) /\ Len(outdated[id]) = Len(offers[id])

\* The key in use is not outdated, and a cached string is of a key there has been, which
\* has been outdated for no longer than the entry is old.
KeysAge ==
    /\ \A id \in Ids : outdated[id][Current(id)] = 0
    /\ \A k \in DOMAIN connCache :
          LET s == connCache[k].value
          IN /\ s.version <= Current(s.id)
             /\ outdated[s.id][s.version] + connCache[k].left <= TTL

\* What is wrongly in a list of accounts has been gone for no longer than the list is old
\* and took to make; or, while it is made, has gone since.
ListsAge ==
    /\ accountsCache # None =>
          \A id \in accountsCache.value :
              Listable(id) \/ since[id] + accountsCache.left <= TTL + Lag
    /\ At("list") => \A id \in call.found : Listable(id) \/ since[id] <= call.late

\* An account has been there for so many ticks at most, or its subscription was left out of
\* a list, or cut to a page, within so many.
Recent(id, age) == since[id] <= age \/ skipped[id[1]] <= age

\* What is wrongly in no list is no less recent than the list; one of accounts may be as
\* much older as that of subscriptions it was made from could be, and took to make.
ListsCatchUp ==
    /\ subsCache # None =>
          \A id \in Ids : Listable(id) /\ id[1] \notin subsCache.value
                            => Recent(id, TTL - subsCache.left)
    /\ At("list") =>
          \A id \in Ids : Listable(id) =>
              \/ id \in call.found \/ id[1] \in call.todo
              \/ Recent(id, TTL - 1 + call.late)
    /\ accountsCache # None =>
          \A id \in Ids : Listable(id) =>
              id \in accountsCache.value \/ Recent(id, Settled - accountsCache.left)

\* A string was chosen for the account and the preference it is kept under: one that can
\* write is there for a reader only if its keys were offered with no other.
Kept(s, prefer) ==
    LET offered == offers[s.id][s.version]
    IN /\ s.version <= Current(s.id)
       /\ prefer /\ ~s.readOnly => \A i \in Pool(offered) : ~offered[i].readOnly
StringsKept ==
    /\ \A k \in DOMAIN connCache :
          connCache[k].value.id = k[1] /\ Kept(connCache[k].value, k[2])
    /\ At("ping") => Kept(call.string, call.prefer)

-----------------------------------------------------------------------------
(* Which string is chosen. *)

\* A set of positions that is not empty has a first one.
LEMMA FirstExists ==
    ASSUME NEW n \in Nat, NEW S \in SUBSET (1..n), S # {}
    PROVE  First(S) \in S
<1> DEFINE Family == {1..i : i \in S}
<1>1. Family \subseteq FiniteSubsetsOf(1..n) /\ Family # {}
  <2>1. \A i \in S : 1..i \subseteq 1..n
    OBVIOUS
  <2>2. \A i \in S : IsFiniteSet(1..i)
    BY <2>1, FS_Interval, FS_Subset
  <2> QED
    BY <2>1, <2>2 DEF FiniteSubsetsOf
<1>2. IsWellFoundedOn(StrictSubsetOrdering(1..n), FiniteSubsetsOf(1..n))
  BY FS_StrictSubsetOrderingWellFounded
<1>3. PICK A \in Family : \A B \in Family : <<B, A>> \notin StrictSubsetOrdering(1..n)
  <2> HIDE DEF Family
  <2> QED
    BY <1>1, <1>2, WFMin
<1>4. PICK i \in S : A = 1..i
  OBVIOUS
<1>5. ASSUME NEW j \in S, ~(i <= j)
      PROVE  FALSE
  <2>1. 1..j \subseteq 1..i /\ 1..i \subseteq 1..n
    BY <1>5
  <2>2. i \in 1..i /\ i \notin 1..j
    BY <1>5
  <2>3. <<1..j, 1..i>> \in StrictSubsetOrdering(1..n)
    BY <2>1, <2>2 DEF StrictSubsetOrdering
  <2> QED
    BY <1>3, <1>4, <2>3
<1> QED
  BY <1>5 DEF First

\* The string chosen is one of those offered, and for a reader a read-only one if any of
\* the pool is.
LEMMA SelectSound ==
    ASSUME NEW strings \in Seq(String), strings # <<>>, NEW prefer \in BOOLEAN
    PROVE  /\ Select(strings, prefer) \in String
           /\ prefer /\ ~Select(strings, prefer).readOnly
                => \A i \in Pool(strings) : ~strings[i].readOnly
<1> DEFINE pool == Pool(strings)
           readOnly == {i \in pool : strings[i].readOnly}
           readOnlyPrimary == {i \in readOnly : strings[i].primary}
           readWritePrimary == {i \in pool \ readOnly : strings[i].primary}
           kind == IF prefer /\ readOnlyPrimary # {} THEN readOnlyPrimary
                   ELSE IF prefer /\ readOnly # {} THEN readOnly
                   ELSE IF readWritePrimary # {} THEN readWritePrimary
                   ELSE pool
<1>1. /\ DOMAIN strings = 1..Len(strings) /\ Len(strings) \in Nat /\ Len(strings) # 0
      /\ \A i \in 1..Len(strings) : strings[i] \in String
  OBVIOUS
<1>2. pool \subseteq 1..Len(strings) /\ pool # {}
  <2>1. 1 \in 1..Len(strings)
    BY <1>1
  <2> QED
    BY <1>1, <2>1 DEF Pool
<1>3. kind \subseteq 1..Len(strings) /\ kind # {}
  BY <1>2
<1>4. Select(strings, prefer) = strings[First(kind)]
  BY DEF Select
<1>5. prefer /\ readOnly # {} => kind \subseteq readOnly
  OBVIOUS
<1> HIDE DEF kind
<1>6. First(kind) \in kind
  BY <1>1, <1>3, FirstExists
<1> HIDE DEF pool
<1> QED
  BY <1>1, <1>3, <1>4, <1>5, <1>6 DEF String, pool

-----------------------------------------------------------------------------
(* The caches. *)

\* The constants' types.
LEMMA ConstantTypes ==
    /\ TTL \in Nat /\ TTL >= 1 /\ MaxConnStrs \in Nat /\ MaxConnStrs >= 1
    /\ MaxChanges \in Nat /\ MaxFailures \in Nat
    /\ Lag \in Nat /\ Settled \in Nat /\ Settled = 2 * TTL - 1 + Lag
    /\ Offers \subseteq Seq(String)
BY DiscoveryAssumption DEF String, Settled

\* A new entry is one; a tick makes an entry older by one, or ends it.
LEMMA EntryAges ==
    ASSUME NEW V
    PROVE  /\ \A v \in V : /\ Fresh(v) \in Entry(V)
                           /\ Fresh(v).left = TTL /\ Fresh(v).value = v
           /\ \A e \in Entry(V) : e.left \in 1..TTL /\ e.value \in V
           /\ \A e \in Entry(V) \cup {None} : Aged(e) # None =>
                 /\ e # None /\ e \in Entry(V) /\ Aged(e) \in Entry(V)
                 /\ Aged(e).left = e.left - 1 /\ Aged(e).value = e.value
<1>1. ASSUME NEW v \in V
      PROVE  /\ Fresh(v) \in Entry(V) /\ Fresh(v).left = TTL /\ Fresh(v).value = v
  BY ConstantTypes DEF Fresh, Entry
<1>2. ASSUME NEW e \in Entry(V) PROVE e.left \in 1..TTL /\ e.value \in V
  BY DEF Entry
<1>3. ASSUME NEW e \in Entry(V) \cup {None}, Aged(e) # None
      PROVE  /\ e # None /\ e \in Entry(V) /\ Aged(e) \in Entry(V)
             /\ Aged(e).left = e.left - 1 /\ Aged(e).value = e.value
  <2>1. e # None /\ e \in Entry(V) /\ e.left # 1 /\ Aged(e) = [e EXCEPT !.left = e.left - 1]
    BY <1>3 DEF Aged
  <2>2. e.left \in 2..TTL /\ e.value \in V
    BY <2>1, <1>2, ConstantTypes
  <2>3. /\ Aged(e).left = e.left - 1 /\ Aged(e).value = e.value
    BY <2>1 DEF Entry
  <2>4. Aged(e) \in Entry(V)
    <3>1. e.left - 1 \in 1..TTL
      BY <2>2, ConstantTypes
    <3> QED
      BY <2>1, <2>2, <3>1 DEF Entry
  <2> QED
    BY <2>1, <2>3, <2>4
<1> QED
  BY <1>1, <1>2, <1>3

\* A tick turns an entry into an entry or nothing.
LEMMA AgedType ==
    ASSUME NEW V, NEW e \in Entry(V) \cup {None}
    PROVE  Aged(e) \in Entry(V) \cup {None}
BY EntryAges

\* The cache after a string is stored: the new entry, and others that were there before,
\* no more than fit.
LEMMA StoredFits ==
    ASSUME IsFiniteSet(DOMAIN connCache), Cardinality(DOMAIN connCache) <= MaxConnStrs,
           NEW k, NEW entry, NEW cache \in Stored(k, entry)
    PROVE  /\ IsFiniteSet(DOMAIN cache) /\ Cardinality(DOMAIN cache) <= MaxConnStrs
           /\ k \in DOMAIN cache /\ cache[k] = entry
           /\ \A x \in DOMAIN cache \ {k} : x \in DOMAIN connCache /\ cache[x] = connCache[x]
<1> DEFINE others == DOMAIN connCache \ {k}
<1>1. IsFiniteSet(others) /\ Cardinality(others) \in Nat /\ Cardinality(others) <= MaxConnStrs
  <2>1. IsFiniteSet(others) /\ Cardinality(others) <= Cardinality(DOMAIN connCache)
    BY FS_Subset
  <2> QED
    BY <2>1, FS_CardinalityType, ConstantTypes
<1>2. PICK keep : /\ cache = [x \in keep \cup {k} |-> IF x = k THEN entry ELSE connCache[x]]
                  /\ \/ keep = others /\ Cardinality(others) < MaxConnStrs
                     \/ \E x \in others : keep = others \ {x}
  BY DEF Stored
<1> HIDE DEF others
<1>3. /\ IsFiniteSet(keep) /\ Cardinality(keep) \in Nat /\ Cardinality(keep) + 1 <= MaxConnStrs
      /\ keep \subseteq others
  <2>1. CASE keep = others /\ Cardinality(others) < MaxConnStrs
    BY <1>1, <2>1, ConstantTypes
  <2>2. ASSUME NEW x \in others, keep = others \ {x}
        PROVE  IsFiniteSet(keep) /\ Cardinality(keep) = Cardinality(others) - 1
    BY <1>1, <2>2, FS_RemoveElement
  <2>3. CASE \E x \in others : keep = others \ {x}
    <3>1. IsFiniteSet(keep) /\ Cardinality(keep) = Cardinality(others) - 1
      BY <2>2, <2>3
    <3>2. Cardinality(keep) \in Nat
      BY <3>1, FS_CardinalityType
    <3> QED
      BY <1>1, <2>3, <3>1, <3>2, ConstantTypes
  <2> QED
    BY <1>2, <2>1, <2>3
<1>4. k \notin keep
  BY <1>3 DEF others
<1>5. IsFiniteSet(keep \cup {k}) /\ Cardinality(keep \cup {k}) = Cardinality(keep) + 1
  BY <1>3, <1>4, FS_AddElement
<1>6. DOMAIN cache = keep \cup {k}
  BY <1>2
<1> QED
  BY <1>2, <1>3, <1>4, <1>5, <1>6 DEF others

-----------------------------------------------------------------------------
(* Type correctness. *)

\* What a call is known to be at each of its steps.
LEMMA CallTypes ==
    ASSUME call \in Calls
    PROVE  /\ At("lookup") => call \in [step : {"lookup"}, account : Names \cup {None},
                                        prefer : BOOLEAN]
           /\ At("list") => call \in [step : {"list"}, account : Names \cup {None},
                                      prefer : BOOLEAN, todo : SUBSET Subs,
                                      found : SUBSET Ids, late : 0..Lag]
           /\ At("fetch") => call \in [step : {"fetch"}, id : Ids, prefer : BOOLEAN]
           /\ At("ping") => call \in [step : {"ping"}, prefer : BOOLEAN, string : Strings]
           /\ call = Idle => \A s \in {"lookup", "list", "fetch", "ping"} : ~At(s)
BY DEF Calls, At, Idle

\* A list being made is one, whatever its parts.
LEMMA ListingType ==
    ASSUME call \in Calls, At("lookup") \/ At("list"),
           NEW todo \in SUBSET Subs, NEW found \in SUBSET Ids, NEW late \in 0..Lag
    PROVE  /\ Listing(todo, found, late) \in Calls /\ Listing(todo, found, late).step = "list"
           /\ Listing(todo, found, late).todo = todo
           /\ Listing(todo, found, late).found = found
           /\ Listing(todo, found, late).late = late
           /\ [step |-> "lookup", account |-> call.account, prefer |-> call.prefer] \in Calls
<1>1. call.account \in Names \cup {None} /\ call.prefer \in BOOLEAN
  BY CallTypes
<1> QED
  BY <1>1 DEF Listing, Calls

\* A string fetched is one of the keys that are valid, chosen from what was offered.
LEMMA ConnectionStringType ==
    ASSUME Typed, At("fetch"), offers[call.id][Current(call.id)] # <<>>
    PROVE  /\ ConnectionString \in Strings
           /\ ConnectionString.id = call.id /\ ConnectionString.version = Current(call.id)
           /\ Kept(ConnectionString, call.prefer)
<1> DEFINE strings == offers[call.id][Current(call.id)]
<1>1. call.id \in Ids /\ call.prefer \in BOOLEAN
  BY CallTypes DEF Typed
<1>2. /\ offers[call.id] \in Seq(Offers) /\ Current(call.id) = Len(offers[call.id])
      /\ Current(call.id) \in 1..(changes + 1) /\ changes \in 0..MaxChanges
  BY <1>1 DEF Typed, Current
<1>3. strings \in Seq(String) /\ Current(call.id) \in 1..(MaxChanges + 1)
  <2>1. Current(call.id) \in 1..Len(offers[call.id]) /\ Current(call.id) \in 1..(MaxChanges + 1)
    BY <1>2, ConstantTypes
  <2>2. strings \in Offers
    BY <1>2, <2>1, ElementOfSeq
  <2> QED
    BY <2>1, <2>2, ConstantTypes
<1>4. /\ Select(strings, call.prefer) \in String
      /\ call.prefer /\ ~Select(strings, call.prefer).readOnly
           => \A i \in Pool(strings) : ~strings[i].readOnly
  BY <1>1, <1>3, SelectSound
<1>5. Select(strings, call.prefer).readOnly \in BOOLEAN
  BY <1>4 DEF String
<1>6. /\ ConnectionString.id = call.id /\ ConnectionString.version = Current(call.id)
      /\ ConnectionString.readOnly = Select(strings, call.prefer).readOnly
  BY DEF ConnectionString
<1>7. ConnectionString \in Strings
  BY <1>1, <1>3, <1>5 DEF ConnectionString, Strings
<1> HIDE DEF strings
<1>8. Kept(ConnectionString, call.prefer)
  BY <1>1, <1>2, <1>4, <1>6, ConstantTypes DEF Kept, strings
<1> QED
  BY <1>6, <1>7, <1>8

\* The parts of the state that a change of the world, a tick and a call each leave alone.
LEMMA WorldTypes ==
    ASSUME Typed,
           \/ \E s \in Subs : ChangeSubscription(s)
           \/ \E id \in Ids : ChangeAccount(id) \/ RotateKeys(id)
           \/ \E id \in Ids, s \in Subs : MoveAccount(id, s)
    PROVE  Typed' /\ Changes
<1>1. Changes
  BY DEF ChangeSubscription, ChangeAccount, RotateKeys, MoveAccount
<1>2. /\ changes' = changes + 1 /\ changes' \in 0..MaxChanges
      /\ since' \in [Ids -> Nat]
      /\ UNCHANGED <<failures, subsCache, accountsCache, connCache, call, skipped>>
  BY <1>1, ConstantTypes DEF Changes, Typed, caches
<1>3. visible' \subseteq Subs /\ accounts' \subseteq Ids
  BY DEF Typed, ChangeSubscription, ChangeAccount, RotateKeys, MoveAccount, Ids
<1>4. /\ offers' \in [Ids -> Seq(Offers)]
      /\ \A id \in Ids : Len(offers'[id]) \in 1..(changes' + 1)
      /\ DOMAIN outdated' = Ids
      /\ \A id \in Ids : outdated'[id] \in Seq(Nat) /\ Len(outdated'[id]) = Len(offers'[id])
  <2>1. CASE UNCHANGED <<offers, outdated>>
    BY <1>2, <2>1, ConstantTypes DEF Typed
  <2>2. ASSUME NEW r \in Ids, RotateKeys(r)
        PROVE  /\ offers' \in [Ids -> Seq(Offers)]
               /\ \A id \in Ids : Len(offers'[id]) \in 1..(changes' + 1)
               /\ DOMAIN outdated' = Ids
               /\ \A id \in Ids : /\ outdated'[id] \in Seq(Nat)
                                  /\ Len(outdated'[id]) = Len(offers'[id])
    <3>1. PICK o \in Offers : offers' = [offers EXCEPT ![r] = Append(offers[r], o)]
      BY <2>2 DEF RotateKeys
    <3>2. outdated' = [outdated EXCEPT ![r] = Append(outdated[r], 0)]
      BY <2>2 DEF RotateKeys
    <3>3. /\ offers \in [Ids -> Seq(Offers)] /\ DOMAIN outdated = Ids
          /\ \A id \in Ids : /\ Len(offers[id]) \in 1..(changes + 1)
                             /\ outdated[id] \in Seq(Nat) /\ Len(outdated[id]) = Len(offers[id])
          /\ changes \in Nat
      <4>1. changes \in Nat
        BY ConstantTypes DEF Typed
      <4> QED
        BY <4>1 DEF Typed
    <3>4. /\ Append(offers[r], o) \in Seq(Offers)
          /\ Len(Append(offers[r], o)) = Len(offers[r]) + 1
          /\ Append(outdated[r], 0) \in Seq(Nat)
          /\ Len(Append(outdated[r], 0)) = Len(outdated[r]) + 1
      BY <3>3, AppendProperties
    <3>5. offers' \in [Ids -> Seq(Offers)] /\ DOMAIN outdated' = Ids
      BY <3>1, <3>2, <3>3, <3>4
    <3>6. ASSUME NEW id \in Ids
          PROVE  /\ Len(offers'[id]) \in 1..(changes' + 1)
                 /\ outdated'[id] \in Seq(Nat) /\ Len(outdated'[id]) = Len(offers'[id])
      <4>1. CASE id = r
        BY <1>2, <3>1, <3>2, <3>3, <3>4, <4>1
      <4>2. CASE id # r
        <5>1. offers'[id] = offers[id] /\ outdated'[id] = outdated[id]
          BY <3>1, <3>2, <3>3, <4>2
        <5> QED
          BY <1>2, <3>3, <5>1
      <4> QED
        BY <4>1, <4>2
    <3> QED
      BY <3>5, <3>6
  <2> QED
    BY <2>1, <2>2 DEF ChangeSubscription, ChangeAccount, MoveAccount
<1> QED
  BY <1>1, <1>2, <1>3, <1>4 DEF Typed

\* A tick leaves a call as it is, but for how long a list has taken.
LEMMA TickCalls ==
    ASSUME Typed, Tick
    PROVE  /\ call' \in Calls
           /\ ~At("list") => call' = call
           /\ At("list") => /\ At("list")' /\ call'.todo = call.todo
                            /\ call'.found = call.found
                            /\ call.late \in Nat /\ call'.late = call.late + 1
           /\ At("ping")' => At("ping")
<1>1. call \in Calls
  BY DEF Typed
<1>2. CASE ~At("list")
  BY <1>1, <1>2 DEF Tick, At
<1>3. CASE At("list")
  <2>1. /\ call.todo \in SUBSET Subs /\ call.found \in SUBSET Ids /\ call.late \in 0..Lag
        /\ ~At("lookup") /\ ~At("fetch") /\ ~At("ping") /\ call # Idle
    BY <1>1, <1>3, CallTypes DEF At
  <2>2. call.late + 1 \in 0..Lag /\ call.late \in Nat
    BY <2>1, ConstantTypes DEF Tick, Waiting
  <2>3. PICK late : late = call.late + 1
    OBVIOUS
  <2>4. call' = Listing(call.todo, call.found, late)
    BY <1>3, <2>3 DEF Tick
  <2>5. /\ call' \in Calls /\ call'.step = "list" /\ call'.todo = call.todo
        /\ call'.found = call.found /\ call'.late = late
    BY <1>1, <1>3, <2>1, <2>2, <2>3, <2>4, ListingType
  <2> QED
    BY <1>3, <2>2, <2>3, <2>5 DEF At
<1> QED
  BY <1>2, <1>3

\* What a tick makes of the caches and of the history.
LEMMA TickTypes ==
    ASSUME Typed, Tick
    PROVE  Typed'
<1>1. UNCHANGED <<visible, accounts, offers, changes, failures>> /\ call' \in Calls
  BY TickCalls DEF Tick, world
<1>2. /\ subsCache' \in ListEntry(Subs) /\ accountsCache' \in ListEntry(Ids)
  BY AgedType DEF Tick, Typed, ListEntry
<1>3. since' \in [Ids -> Nat] /\ skipped' \in [Subs -> Nat]
  BY ConstantTypes DEF Tick, Typed, Later
<1>4. DOMAIN connCache' = {x \in DOMAIN connCache : Aged(connCache[x]) # None}
  BY DEF Tick
<1>5. /\ IsFiniteSet(DOMAIN connCache') /\ Cardinality(DOMAIN connCache') <= MaxConnStrs
      /\ DOMAIN connCache' \subseteq Ids \X BOOLEAN
  <2>1. /\ IsFiniteSet(DOMAIN connCache) /\ Cardinality(DOMAIN connCache) <= MaxConnStrs
        /\ DOMAIN connCache \subseteq Ids \X BOOLEAN
    BY DEF Typed
  <2>2. /\ IsFiniteSet(DOMAIN connCache')
        /\ Cardinality(DOMAIN connCache') <= Cardinality(DOMAIN connCache)
    BY <1>4, <2>1, FS_Subset
  <2>3. Cardinality(DOMAIN connCache') \in Nat /\ Cardinality(DOMAIN connCache) \in Nat
    BY <2>1, <2>2, FS_CardinalityType
  <2> QED
    BY <1>4, <2>1, <2>2, <2>3, ConstantTypes
<1>6. \A k \in DOMAIN connCache' : connCache'[k] \in Entry(Strings)
  <2> SUFFICES ASSUME NEW k \in DOMAIN connCache' PROVE connCache'[k] \in Entry(Strings)
    OBVIOUS
  <2>1. k \in DOMAIN connCache /\ Aged(connCache[k]) # None
    BY <1>4
  <2>2. connCache'[k] = Aged(connCache[k])
    BY <1>4 DEF Tick
  <2>3. connCache[k] \in Entry(Strings)
    BY <2>1 DEF Typed
  <2> QED
    BY <2>1, <2>2, <2>3, EntryAges
<1>7. /\ DOMAIN outdated' = Ids
      /\ \A id \in Ids : outdated'[id] \in Seq(Nat) /\ Len(outdated'[id]) = Len(offers'[id])
  <2>1. outdated' = [id \in Ids |-> [v \in DOMAIN outdated[id] |->
                       IF v = Current(id) THEN 0 ELSE Later(outdated[id][v], TTL)]]
    BY DEF Tick
  <2>2. ASSUME NEW id \in Ids
        PROVE  outdated'[id] \in Seq(Nat) /\ Len(outdated'[id]) = Len(offers'[id])
    <3>1. /\ outdated[id] \in Seq(Nat) /\ Len(outdated[id]) = Len(offers[id])
      BY DEF Typed
    <3>2. /\ Len(outdated[id]) \in Nat /\ DOMAIN outdated[id] = 1..Len(outdated[id])
          /\ \A v \in DOMAIN outdated[id] : outdated[id][v] \in Nat
      BY <3>1
    <3>3. \A t \in Nat : Later(t, TTL) \in Nat
      BY ConstantTypes DEF Later
    <3>4. outdated'[id] \in [1..Len(outdated[id]) -> Nat]
      BY <2>1, <3>2, <3>3
    <3>5. outdated'[id] \in Seq(Nat) /\ Len(outdated'[id]) = Len(outdated[id])
      BY <3>2, <3>4
    <3> QED
      BY <1>1, <3>1, <3>5
  <2> QED
    BY <2>1, <2>2
<1> QED
  BY <1>1, <1>2, <1>3, <1>5, <1>6, <1>7 DEF Typed

\* The steps of a call, by what they touch.
CallStep == Proceed \/ \E a \in Names \cup Ids \cup {None}, p \in BOOLEAN : Connect(a, p)

\* A call changes neither the world nor how long things have been in it.
LEMMA CallKeepsWorld ==
    ASSUME CallStep
    PROVE  UNCHANGED <<visible, accounts, offers, changes, since, outdated>>
BY DEF CallStep, Proceed, Connect, CachedSubscriptions, ListSubscriptions, CacheAccounts, Resolve,
   ListAccounts, SkipSubscription, CachedString, FetchString, NothingToFetch, RequestRaises,
   Ping, world, history

\* The string kept under the key of a call, and what reading it leaves.
LEMMA CachedStringTypes ==
    ASSUME Typed, CachedString
    PROVE  /\ DOMAIN connCache' = DOMAIN connCache
           /\ \A k \in DOMAIN connCache : connCache'[k] = connCache[k]
           /\ Key = <<call.id, call.prefer>> /\ Key \in DOMAIN connCache
           /\ connCache[Key].value \in Strings /\ call.prefer \in BOOLEAN
           /\ call' = [step |-> "ping", prefer |-> call.prefer, string |-> connCache[Key].value]
           /\ call' \in Calls
<1>1. Key = <<call.id, call.prefer>> /\ Key \in DOMAIN connCache
  BY DEF CachedString, Key, ConnKey
<1>2. connCache' = [connCache EXCEPT ![Key] = Hit(connCache[Key])]
  BY DEF CachedString
<1>3. /\ DOMAIN connCache' = DOMAIN connCache
      /\ \A k \in DOMAIN connCache : connCache'[k] = connCache[k]
  BY <1>2 DEF Hit
<1>4. connCache[Key] \in Entry(Strings) /\ call.prefer \in BOOLEAN
  BY <1>1, CallTypes DEF Typed, CachedString
<1>5. connCache[Key].value \in Strings
  BY <1>4, EntryAges
<1>6. call' = [step |-> "ping", prefer |-> call.prefer, string |-> connCache[Key].value]
  BY DEF CachedString
<1>7. call' \in Calls
  BY <1>4, <1>5, <1>6 DEF Calls
<1> QED
  BY <1>1, <1>3, <1>4, <1>5, <1>6, <1>7

\* The string a call fetches, and where it is kept.
LEMMA FetchStringTypes ==
    ASSUME Typed, FetchString
    PROVE  /\ Key = <<call.id, call.prefer>> /\ Key \in Ids \X BOOLEAN
           /\ ConnectionString \in Strings
           /\ ConnectionString.id = call.id /\ ConnectionString.version = Current(call.id)
           /\ Kept(ConnectionString, call.prefer)
           /\ call' = [step |-> "ping", prefer |-> call.prefer, string |-> ConnectionString]
           /\ call' \in Calls
           /\ IsFiniteSet(DOMAIN connCache') /\ Cardinality(DOMAIN connCache') <= MaxConnStrs
           /\ Key \in DOMAIN connCache' /\ connCache'[Key] = Fresh(ConnectionString)
           /\ \A x \in DOMAIN connCache' \ {Key} :
                 x \in DOMAIN connCache /\ connCache'[x] = connCache[x]
<1>1. At("fetch") /\ offers[call.id][Current(call.id)] # <<>>
      /\ connCache' \in Stored(Key, Fresh(ConnectionString))
      /\ call' = [step |-> "ping", prefer |-> call.prefer, string |-> ConnectionString]
  BY DEF FetchString
<1>2. call.id \in Ids /\ call.prefer \in BOOLEAN
  BY <1>1, CallTypes DEF Typed
<1>3. /\ ConnectionString \in Strings
      /\ ConnectionString.id = call.id /\ ConnectionString.version = Current(call.id)
      /\ Kept(ConnectionString, call.prefer)
  BY <1>1, ConnectionStringType
<1>4. call' \in Calls
  BY <1>1, <1>2, <1>3 DEF Calls
<1>5. Key = <<call.id, call.prefer>> /\ Key \in Ids \X BOOLEAN
  BY <1>2 DEF Key, ConnKey
<1> QED
  BY <1>1, <1>3, <1>4, <1>5, StoredFits DEF Typed

\* Every step of a call leaves a call, and caches of entries.
LEMMA CallStepTypes ==
    ASSUME Typed, CallStep
    PROVE  Typed'
<1> DEFINE Conns == /\ IsFiniteSet(DOMAIN connCache)
                    /\ Cardinality(DOMAIN connCache) <= MaxConnStrs
                    /\ DOMAIN connCache \subseteq Ids \X BOOLEAN
                    /\ \A k \in DOMAIN connCache : connCache[k] \in Entry(Strings)
<1>0. /\ failures \in 0..MaxFailures /\ call \in Calls /\ skipped \in [Subs -> Nat]
      /\ subsCache \in ListEntry(Subs) /\ accountsCache \in ListEntry(Ids) /\ Conns
      /\ visible \subseteq Subs /\ accounts \subseteq Ids
  BY DEF Typed
<1>1. SUFFICES /\ failures' \in 0..MaxFailures /\ call' \in Calls
               /\ skipped' \in [Subs -> Nat]
               /\ subsCache' \in ListEntry(Subs) /\ accountsCache' \in ListEntry(Ids) /\ Conns'
  BY CallKeepsWorld DEF Typed
<1> HIDE DEF Conns
<1>2. UNCHANGED connCache => Conns'
  BY <1>0 DEF Conns
<1>3. Idle \in Calls
  BY DEF Calls
<1>4. Fails => failures' \in 0..MaxFailures
  BY <1>0, ConstantTypes DEF Fails
<1>5. ASSUME NEW a \in Names \cup Ids \cup {None}, NEW p \in BOOLEAN, Connect(a, p)
      PROVE  call' \in Calls /\ UNCHANGED <<failures, skipped, subsCache, accountsCache, connCache>>
  BY <1>5 DEF Connect, Calls, caches, history
<1>6. CASE CachedSubscriptions
  <2>1. subsCache.value \in SUBSET Subs /\ At("lookup") /\ subsCache' = subsCache
    BY <1>0, <1>6, EntryAges DEF CachedSubscriptions, ListEntry, Hit
  <2>2. Listing(subsCache.value, {}, 0) \in Calls
    BY <1>0, <2>1, ConstantTypes, ListingType
  <2> QED
    BY <1>0, <1>2, <1>6, <2>1, <2>2 DEF CachedSubscriptions, history
<1>7. CASE ListSubscriptions
  <2>1. PICK page \in SUBSET visible :
              /\ call' = Listing(page, {}, 0) /\ subsCache' = Fresh(page)
              /\ skipped' = [s \in Subs |-> IF s \in visible \ page THEN 0 ELSE skipped[s]]
    BY <1>7 DEF ListSubscriptions, FirstPages
  <2>2. page \in SUBSET Subs /\ At("lookup")
    BY <1>0, <1>7, <2>1 DEF ListSubscriptions
  <2>3. Fresh(page) \in Entry(SUBSET Subs) /\ Listing(page, {}, 0) \in Calls
    BY <1>0, <2>2, ConstantTypes, EntryAges, ListingType
  <2>4. skipped' \in [Subs -> Nat]
    BY <1>0, <2>1
  <2> QED
    BY <1>0, <1>2, <1>7, <2>1, <2>3, <2>4 DEF ListSubscriptions, ListEntry
<1>8. ASSUME NEW s \in Subs, ListAccounts(s)
      PROVE  /\ call' \in Calls /\ UNCHANGED <<failures, subsCache, accountsCache, connCache>>
             /\ skipped' \in [Subs -> Nat]
  <2>1. PICK page \in SUBSET AccountsOf(s) :
              /\ call' = Listing(call.todo \ {s}, call.found \cup page, call.late)
              /\ skipped' = IF page = AccountsOf(s) THEN skipped ELSE [skipped EXCEPT ![s] = 0]
    BY <1>8 DEF ListAccounts, FirstPages
  <2>2. /\ call.todo \in SUBSET Subs /\ call.found \in SUBSET Ids /\ At("list")
        /\ call.late \in 0..Lag
    BY <1>0, <1>8, CallTypes DEF ListAccounts
  <2>3. call.todo \ {s} \in SUBSET Subs /\ call.found \cup page \in SUBSET Ids
    BY <1>0, <2>1, <2>2 DEF AccountsOf
  <2>4. call' \in Calls
    BY <1>0, <2>1, <2>2, <2>3, ListingType
  <2>5. skipped' \in [Subs -> Nat]
    BY <1>0, <2>1
  <2> QED
    BY <1>8, <2>4, <2>5 DEF ListAccounts, caches
<1>9. ASSUME NEW s \in Subs, SkipSubscription(s)
      PROVE  /\ call' \in Calls /\ UNCHANGED <<subsCache, accountsCache, connCache>>
             /\ failures' \in 0..MaxFailures /\ skipped' \in [Subs -> Nat]
  <2>1. /\ call.todo \in SUBSET Subs /\ call.found \in SUBSET Ids /\ At("list")
        /\ call.late \in 0..Lag
    BY <1>0, <1>9, CallTypes DEF SkipSubscription
  <2>2. call' \in Calls
    BY <1>0, <1>9, <2>1, ListingType DEF SkipSubscription, LeaveOut
  <2>3. failures' \in 0..MaxFailures
    BY <1>0, <1>4, <1>9 DEF SkipSubscription
  <2> QED
    BY <1>0, <1>9, <2>2, <2>3 DEF SkipSubscription, caches
<1>10. CASE CacheAccounts
  <2>1. call.found \in SUBSET Ids /\ At("list")
    BY <1>0, <1>10, CallTypes DEF CacheAccounts
  <2>2. Fresh(call.found) \in Entry(SUBSET Ids)
    BY <2>1, EntryAges
  <2>3. call' \in Calls
    <3>1. call.account \in Names \cup {None} /\ call.prefer \in BOOLEAN
      BY <1>0, <2>1, CallTypes
    <3> QED
      BY <1>10, <3>1 DEF CacheAccounts, Calls
  <2> QED
    BY <1>0, <1>2, <1>10, <2>2, <2>3 DEF CacheAccounts, ListEntry, history
<1>11. CASE Resolve
  <2>1. accountsCache' = accountsCache
    BY <1>11 DEF Resolve, Hit
  <2>2. accountsCache.value \in SUBSET Ids /\ call.prefer \in BOOLEAN
    BY <1>0, <1>11, CallTypes, EntryAges DEF Resolve, ListEntry
  <2> DEFINE matches == {id \in accountsCache.value : id[2] = call.account}
  <2>3. call' \in Calls
    <3>1. CASE Cardinality(matches) = 1
      <4>1. matches # {}
        BY <3>1, FS_EmptySet
      <4>2. (CHOOSE id \in matches : TRUE) \in Ids
        BY <2>2, <4>1
      <4>3. call' = [step |-> "fetch", id |-> CHOOSE id \in matches : TRUE,
                     prefer |-> call.prefer]
        BY <1>11, <3>1 DEF Resolve
      <4> QED
        BY <2>2, <4>2, <4>3 DEF Calls
    <3>2. CASE Cardinality(matches) # 1
      BY <1>3, <1>11, <3>2 DEF Resolve
    <3> QED
      BY <3>1, <3>2
  <2> QED
    BY <1>0, <1>2, <1>11, <2>1, <2>3 DEF Resolve, history
<1>12. CASE CachedString
  <2>1. Conns'
    <3>1. /\ DOMAIN connCache' = DOMAIN connCache
          /\ \A k \in DOMAIN connCache : connCache'[k] = connCache[k]
      BY <1>12, CachedStringTypes
    <3> QED
      BY <1>0, <3>1 DEF Conns
  <2> QED
    BY <1>0, <1>12, <2>1, CachedStringTypes DEF CachedString, history
<1>13. CASE FetchString
  <2>1. Fresh(ConnectionString) \in Entry(Strings)
    BY <1>13, FetchStringTypes, EntryAges
  <2>2. Conns'
    BY <1>0, <1>13, <2>1, FetchStringTypes DEF Conns
  <2> QED
    BY <1>0, <1>13, <2>2, FetchStringTypes DEF FetchString, history
<1>14. CASE NothingToFetch \/ RequestRaises \/ Ping
  <2>1. failures' \in 0..MaxFailures
    BY <1>0, <1>4, <1>14 DEF NothingToFetch, RequestRaises, Ping
  <2>2. call' = Idle /\ UNCHANGED <<subsCache, accountsCache, connCache, skipped>>
    BY <1>14 DEF NothingToFetch, RequestRaises, Ping, Raises, caches, history
  <2> QED
    BY <1>0, <1>2, <1>3, <2>1, <2>2
<1> QED
  BY <1>0, <1>2, <1>5, <1>6, <1>7, <1>8, <1>9, <1>10, <1>11, <1>12, <1>13, <1>14
  DEF CallStep, Proceed

\* What a step of the specification is.
LEMMA NextSteps ==
    ASSUME Next
    PROVE  \/ \E s \in Subs : ChangeSubscription(s)
           \/ \E id \in Ids : ChangeAccount(id) \/ RotateKeys(id)
           \/ \E id \in Ids, s \in Subs : MoveAccount(id, s)
           \/ CallStep
           \/ Tick
<1>1. ASSUME NEW a \in Asked, NEW p \in BOOLEAN, Connect(a, p) PROVE CallStep
  BY <1>1, DiscoveryAssumption DEF CallStep
<1>2. CASE Connect(None, TRUE)
  BY <1>2 DEF CallStep
<1>3. CASE Proceed
  BY <1>3 DEF CallStep
<1> QED
  BY <1>1, <1>2, <1>3 DEF Next

\* Every state of a discovery is typed.
LEMMA TypedAlways == Spec => []Typed
<1>1. Init => Typed
  <2> SUFFICES ASSUME Init PROVE Typed
    OBVIOUS
  <2>1. /\ offers \in [Ids -> Seq(Offers)] /\ \A id \in Ids : Len(offers[id]) = 1
    <3>1. PICK o \in Offers : offers = [id \in Ids |-> <<o>>]
      BY DEF Init
    <3>2. <<o>> \in Seq(Offers) /\ Len(<<o>>) = 1
      OBVIOUS
    <3> QED
      BY <3>1, <3>2
  <2>2. DOMAIN connCache = {} /\ IsFiniteSet({}) /\ Cardinality({}) = 0
    BY FS_EmptySet DEF Init
  <2>3. \A id \in Ids : outdated[id] \in Seq(Nat) /\ Len(outdated[id]) = 1
    BY DEF Init
  <2> QED
    BY <2>1, <2>2, <2>3, ConstantTypes DEF Init, Typed, ListEntry, Calls
<1>2. Typed /\ [Next]_vars => Typed'
  <2> SUFFICES ASSUME Typed, [Next]_vars PROVE Typed'
    OBVIOUS
  <2>1. CASE UNCHANGED vars
    BY <2>1 DEF Typed, vars, world, caches, history
  <2>2. CASE Next
    BY <2>2, NextSteps, WorldTypes, TickTypes, CallStepTypes
  <2> QED
    BY <2>1, <2>2
<1> QED
  BY <1>1, <1>2, PTL DEF Spec

\* World, caches and call have their types, and no cache is over its size.
THEOREM TypeCorrect == Spec => []TypeOK
<1>1. Typed => TypeOK
  <2> SUFFICES ASSUME Typed PROVE TypeOK
    OBVIOUS
  <2>1. call = Idle \/ call.prefer \in BOOLEAN
    BY DEF Typed, Calls
  <2>2. At("ping") => call.string \in Strings
    BY CallTypes DEF Typed
  <2> QED
    BY <2>1, <2>2 DEF Typed, TypeOK, ListEntry
<1> QED
  BY <1>1, TypedAlways, PTL

-----------------------------------------------------------------------------
(* Nothing stale for more than an hour: connection strings. *)

\* A tick adds one at most.
LEMMA LaterBounds ==
    ASSUME NEW t \in Nat, NEW max \in Nat
    PROVE  Later(t, max) \in Nat /\ Later(t, max) <= t + 1
BY DEF Later

\* What is outdated ages with the entries that have it.
LEMMA KeysAgeSteps ==
    ASSUME Typed, KeysAge, Next
    PROVE  KeysAge'
<1>0. /\ \A id \in Ids : /\ outdated[id] \in Seq(Nat) /\ Len(outdated[id]) = Len(offers[id])
                         /\ Current(id) = Len(offers[id]) /\ Current(id) >= 1
                         /\ Current(id) \in Nat
      /\ TTL \in Nat /\ TTL >= 1 /\ DOMAIN outdated = Ids /\ DOMAIN offers = Ids
  <2>1. \A id \in Ids : Len(offers[id]) \in 1..(changes + 1) /\ changes \in Nat
    BY ConstantTypes DEF Typed
  <2> QED
    BY <2>1, ConstantTypes DEF Typed, Current
<1>1. ASSUME NEW k \in DOMAIN connCache
      PROVE  /\ connCache[k] \in Entry(Strings) /\ connCache[k].left \in 1..TTL
             /\ connCache[k].value \in Strings
             /\ connCache[k].value.id \in Ids
             /\ connCache[k].value.version \in 1..Current(connCache[k].value.id)
             /\ outdated[connCache[k].value.id][connCache[k].value.version]
                  + connCache[k].left <= TTL
  <2>1. connCache[k] \in Entry(Strings)
    BY DEF Typed
  <2>2. connCache[k].left \in 1..TTL /\ connCache[k].value \in Strings
    BY <2>1, EntryAges
  <2>3. connCache[k].value.id \in Ids /\ connCache[k].value.version \in 1..(MaxChanges + 1)
    BY <2>2 DEF Strings
  <2>4. /\ connCache[k].value.version <= Current(connCache[k].value.id)
        /\ outdated[connCache[k].value.id][connCache[k].value.version]
             + connCache[k].left <= TTL
    BY DEF KeysAge
  <2> QED
    BY <1>0, <2>1, <2>2, <2>3, <2>4, ConstantTypes
<1>2. CASE UNCHANGED <<connCache, offers, outdated>>
  BY <1>2 DEF KeysAge, Current
<1>3. ASSUME NEW r \in Ids, RotateKeys(r) PROVE KeysAge'
  <2>1. PICK o : offers' = [offers EXCEPT ![r] = Append(offers[r], o)]
    BY <1>3 DEF RotateKeys
  <2>2. outdated' = [outdated EXCEPT ![r] = Append(outdated[r], 0)] /\ connCache' = connCache
    BY <1>3 DEF RotateKeys, Changes, caches
  <2>3. /\ offers[r] \in Seq(Offers)
        /\ \A x \in Offers : Len(Append(offers[r], x)) = Len(offers[r]) + 1
    BY DEF Typed
  <2>4. /\ Len(offers'[r]) = Len(offers[r]) + 1
    <3>1. PICK x \in Offers : offers' = [offers EXCEPT ![r] = Append(offers[r], x)]
      BY <1>3 DEF RotateKeys
    <3> QED
      BY <1>0, <2>3, <3>1
  <2>5. /\ \A id \in Ids \ {r} : outdated'[id] = outdated[id] /\ Len(offers'[id]) = Len(offers[id])
        /\ outdated'[r] = Append(outdated[r], 0)
    BY <1>0, <2>1, <2>2
  <2>6. /\ \A v \in 1..Len(outdated[r]) : outdated'[r][v] = outdated[r][v]
        /\ outdated'[r][Len(outdated[r]) + 1] = 0
    BY <1>0, <2>5, AppendProperties
  <2>7. \A id \in Ids : outdated'[id][Len(offers'[id])] = 0
    BY <1>0, <2>4, <2>5, <2>6 DEF KeysAge
  <2>8. \A id \in Ids : /\ Len(offers[id]) <= Len(offers'[id])
                        /\ \A v \in 1..Len(offers[id]) : outdated'[id][v] = outdated[id][v]
    <3> SUFFICES ASSUME NEW id \in Ids
                 PROVE  /\ Len(offers[id]) <= Len(offers'[id])
                        /\ \A v \in 1..Len(offers[id]) : outdated'[id][v] = outdated[id][v]
      OBVIOUS
    <3>1. Len(offers[id]) \in Nat
      BY <1>0
    <3>2. CASE id = r
      BY <1>0, <2>4, <2>6, <3>1, <3>2
    <3>3. CASE id # r
      BY <2>5, <3>1, <3>3
    <3> QED
      BY <3>2, <3>3
  <2>9. ASSUME NEW k \in DOMAIN connCache'
        PROVE  /\ connCache'[k].value.version <= Len(offers'[connCache'[k].value.id])
               /\ outdated'[connCache'[k].value.id][connCache'[k].value.version]
                    + connCache'[k].left <= TTL
    <3>1. k \in DOMAIN connCache /\ connCache'[k] = connCache[k]
      BY <2>2
    <3> DEFINE i == connCache[k].value.id
               v == connCache[k].value.version
    <3>2. i \in Ids /\ v \in 1..Len(offers[i]) /\ outdated[i][v] + connCache[k].left <= TTL
      BY <1>0, <1>1, <3>1
    <3>3. Len(offers[i]) <= Len(offers'[i]) /\ outdated'[i][v] = outdated[i][v]
      BY <2>8, <3>2
    <3>4. Len(offers[i]) \in Nat /\ Len(offers'[i]) \in Int
      BY <1>0, <2>4, <2>5, <3>2
    <3> QED
      BY <3>1, <3>2, <3>3, <3>4
  <2> QED
    BY <2>7, <2>9 DEF KeysAge, Current
<1>4. CASE Tick
  <2>1. /\ outdated' = [id \in Ids |-> [v \in DOMAIN outdated[id] |->
                          IF v = Current(id) THEN 0 ELSE Later(outdated[id][v], TTL)]]
        /\ offers' = offers
        /\ connCache' = [k \in {x \in DOMAIN connCache : Aged(connCache[x]) # None}
                          |-> Aged(connCache[k])]
    BY <1>4 DEF Tick, world
  <2>2. ASSUME NEW id \in Ids, NEW v \in 1..Current(id)
        PROVE  outdated'[id][v] = IF v = Current(id) THEN 0 ELSE Later(outdated[id][v], TTL)
    <3>1. DOMAIN outdated[id] = 1..Current(id)
      BY <1>0
    <3> QED
      BY <2>1, <3>1
  <2>3. \A id \in Ids : outdated'[id][Current(id)] = 0
    BY <1>0, <2>2
  <2>4. ASSUME NEW k \in DOMAIN connCache'
        PROVE  /\ connCache'[k].value.version <= Current(connCache'[k].value.id)
               /\ outdated'[connCache'[k].value.id][connCache'[k].value.version]
                    + connCache'[k].left <= TTL
    <3>1. k \in DOMAIN connCache /\ Aged(connCache[k]) # None /\ connCache'[k] = Aged(connCache[k])
      BY <2>1
    <3> DEFINE i == connCache[k].value.id
               v == connCache[k].value.version
    <3>2. /\ i \in Ids /\ v \in 1..Current(i) /\ outdated[i][v] + connCache[k].left <= TTL
          /\ connCache[k].left \in 1..TTL
      BY <1>1, <3>1
    <3>3. connCache'[k].left = connCache[k].left - 1 /\ connCache'[k].value = connCache[k].value
      BY <1>1, <3>1, EntryAges
    <3>4. outdated'[i][v] = IF v = Current(i) THEN 0 ELSE Later(outdated[i][v], TTL)
      BY <2>2, <3>2
    <3>5. outdated[i][v] \in Nat
      BY <1>0, <3>2
    <3> HIDE DEF i, v
    <3>6. Later(outdated[i][v], TTL) \in Nat /\ Later(outdated[i][v], TTL) <= outdated[i][v] + 1
      BY <1>0, <3>5, LaterBounds
    <3>7. outdated'[i][v] <= outdated[i][v] + 1 /\ outdated'[i][v] \in Nat
      BY <3>4, <3>5, <3>6
    <3>8. v <= Current(i) /\ Current(i) \in Nat
      BY <1>0, <3>2
    <3>9. outdated'[i][v] + (connCache[k].left - 1) <= TTL
      <4>1. \A a, b, c \in Nat : a <= b + 1 /\ b + c <= TTL => a + (c - 1) <= TTL
        BY ConstantTypes
      <4>2. connCache[k].left \in Nat /\ outdated[i][v] + connCache[k].left <= TTL
        BY <3>2
      <4> QED
        BY <3>5, <3>7, <4>1, <4>2
    <3> QED
      BY <3>3, <3>8, <3>9 DEF i, v
  <2>5. \A id : Current(id)' = Current(id)
    BY <2>1 DEF Current
  <2> QED
    BY <2>3, <2>4, <2>5 DEF KeysAge
<1>5. CASE CachedString
  <2>1. UNCHANGED <<offers, outdated>>
    BY <1>5, CallKeepsWorld DEF CallStep, Proceed
  <2>2. /\ DOMAIN connCache' = DOMAIN connCache
        /\ \A k \in DOMAIN connCache : connCache'[k] = connCache[k]
    BY <1>5, CachedStringTypes
  <2> QED
    BY <2>1, <2>2 DEF KeysAge, Current
<1>6. CASE FetchString
  <2>1. UNCHANGED <<offers, outdated>>
    BY <1>6, CallKeepsWorld DEF CallStep, Proceed
  <2>2. /\ connCache'[Key] = Fresh(ConnectionString) /\ ConnectionString \in Strings
        /\ ConnectionString.id = call.id /\ ConnectionString.version = Current(call.id)
        /\ \A x \in DOMAIN connCache' \ {Key} :
                 x \in DOMAIN connCache /\ connCache'[x] = connCache[x]
    BY <1>6, FetchStringTypes
  <2>3. call.id \in Ids
    BY <2>2 DEF Strings
  <2>4. connCache'[Key].left = TTL /\ connCache'[Key].value = ConnectionString
    BY <2>2, EntryAges
  <2>5. outdated[call.id][Current(call.id)] + TTL <= TTL
    BY <1>0, <2>3 DEF KeysAge
  <2>6. ASSUME NEW k \in DOMAIN connCache'
        PROVE  /\ connCache'[k].value.version <= Current(connCache'[k].value.id)
               /\ outdated[connCache'[k].value.id][connCache'[k].value.version]
                    + connCache'[k].left <= TTL
    <3>1. CASE k = Key
      BY <1>0, <2>2, <2>3, <2>4, <2>5, <3>1
    <3>2. CASE k # Key
      BY <2>2, <3>2 DEF KeysAge
    <3> QED
      BY <3>1, <3>2
  <2> QED
    BY <2>1, <2>6 DEF KeysAge, Current
<1>7. CASE CallStep /\ ~CachedString /\ ~FetchString
  <2>1. UNCHANGED connCache
    BY <1>7 DEF CallStep, Proceed, Connect, CachedSubscriptions, ListSubscriptions,
       CacheAccounts, Resolve, ListAccounts, SkipSubscription, NothingToFetch, RequestRaises,
       Raises, Ping, caches
  <2> QED
    BY <1>2, <1>7, <2>1, CallKeepsWorld
<1>8. ASSUME NEW id \in Ids, NEW s \in Subs, MoveAccount(id, s)
      PROVE  UNCHANGED <<connCache, offers, outdated>>
  BY <1>8 DEF MoveAccount, Changes, caches
<1>9. ASSUME NEW s \in Subs, ChangeSubscription(s)
      PROVE  UNCHANGED <<connCache, offers, outdated>>
  BY <1>9 DEF ChangeSubscription, Changes, caches
<1>10. ASSUME NEW id \in Ids, ChangeAccount(id)
      PROVE  UNCHANGED <<connCache, offers, outdated>>
  BY <1>10 DEF ChangeAccount, Changes, caches
<1> QED
  BY <1>2, <1>3, <1>4, <1>5, <1>6, <1>7, <1>8, <1>9, <1>10, NextSteps

\* Keys age together with the entries they are in, always.
LEMMA KeysAgeAlways == Spec => []KeysAge
<1>1. Init => KeysAge
  <2> SUFFICES ASSUME Init PROVE KeysAge
    OBVIOUS
  <2>1. PICK o \in Offers : offers = [id \in Ids |-> <<o>>]
    BY DEF Init
  <2>2. \A id \in Ids : Current(id) = 1 /\ outdated[id] = <<0>>
    BY <2>1 DEF Init, Current
  <2>3. \A id \in Ids : outdated[id][Current(id)] = 0
    BY <2>2
  <2>4. DOMAIN connCache = {}
    BY DEF Init
  <2> QED
    BY <2>3, <2>4 DEF KeysAge
<1>2. Typed /\ KeysAge /\ [Next]_vars => KeysAge'
  <2> SUFFICES ASSUME Typed, KeysAge, [Next]_vars PROVE KeysAge'
    OBVIOUS
  <2>1. CASE UNCHANGED vars
    BY <2>1 DEF KeysAge, Current, vars, world, caches, history
  <2>2. CASE Next
    BY <2>2, KeysAgeSteps
  <2> QED
    BY <2>1, <2>2
<1> QED
  BY <1>1, <1>2, TypedAlways, PTL DEF Spec

-----------------------------------------------------------------------------
(* Nothing stale for more than an hour, and nothing missing for long: lists. *)

\* A change of the world leaves an account in or out of sight, or starts its time anew.
LEMMA SinceChanges ==
    ASSUME Typed, Changes, NEW id \in Ids
    PROVE  \/ since'[id] = 0
           \/ since'[id] = since[id] /\ (Listable(id)' <=> Listable(id))
<1>1. since'[id] = IF Listable(id)' = Listable(id) THEN since[id] ELSE 0
  BY DEF Changes
<1>2. CASE Listable(id)' = Listable(id)
  BY <1>1, <1>2
<1>3. CASE Listable(id)' # Listable(id)
  BY <1>1, <1>3
<1> QED
  BY <1>2, <1>3

\* What a call does to the lists, and to the one it is making: it starts on the
\* subscriptions there are, asks one, leaves one out, or caches what it has found.
LEMMA ListSteps ==
    ASSUME Typed, CallStep
    PROVE  /\ \/ accountsCache' = accountsCache
              \/ /\ accountsCache' = Fresh(call.found)
                 /\ At("list") /\ call.todo = {} /\ ~At("list")'
           /\ \/ subsCache' = subsCache
              \/ \E page \in SUBSET visible :
                    subsCache' = Fresh(page) /\ \A s \in visible \ page : skipped'[s] = 0
           /\ \A s \in Subs : skipped'[s] = skipped[s] \/ skipped'[s] = 0
           /\ At("list")' =>
                 \/ /\ call'.found = {} /\ call'.late = 0
                    /\ \/ \A s \in visible \ call'.todo : skipped'[s] = 0
                       \/ subsCache # None /\ call'.todo = subsCache.value
                 \/ /\ At("list") /\ call'.late = call.late
                    /\ \E s \in visible, page \in SUBSET accounts :
                          /\ call'.todo = call.todo \ {s}
                          /\ call'.found = call.found \cup page
                          /\ \A id \in page : id[1] = s
                          /\ page = AccountsOf(s) \/ skipped'[s] = 0
                 \/ /\ At("list") /\ call'.late = call.late /\ call'.found = call.found
                    /\ \E s \in Subs : call'.todo = call.todo \ {s} /\ skipped'[s] = 0
<1>0. /\ call \in Calls /\ visible \subseteq Subs /\ accounts \subseteq Ids
      /\ subsCache \in ListEntry(Subs) /\ skipped \in [Subs -> Nat] /\ 0 \in 0..Lag
  BY ConstantTypes DEF Typed
<1>1. ASSUME NEW a \in Names \cup Ids \cup {None}, NEW p \in BOOLEAN, Connect(a, p)
      PROVE  ~At("list")' /\ UNCHANGED <<skipped, subsCache, accountsCache>>
  BY <1>1 DEF Connect, At, caches, history
<1>2. CASE CachedSubscriptions
  <2>1. /\ subsCache' = subsCache /\ subsCache # None /\ At("lookup")
        /\ call' = Listing(subsCache.value, {}, 0)
        /\ UNCHANGED <<accountsCache, skipped>>
    BY <1>2 DEF CachedSubscriptions, Hit, history
  <2>2. subsCache.value \in SUBSET Subs
    BY <1>0, <2>1, EntryAges DEF ListEntry
  <2>3. call'.found = {} /\ call'.todo = subsCache.value /\ call'.late = 0
    BY <1>0, <2>1, <2>2, ListingType
  <2> QED
    BY <2>1, <2>3
<1>3. CASE ListSubscriptions
  <2>1. PICK page \in SUBSET visible :
              /\ call' = Listing(page, {}, 0) /\ subsCache' = Fresh(page)
              /\ skipped' = [s \in Subs |-> IF s \in visible \ page THEN 0 ELSE skipped[s]]
    BY <1>3 DEF ListSubscriptions, FirstPages
  <2>2. At("lookup") /\ accountsCache' = accountsCache
    BY <1>3 DEF ListSubscriptions
  <2>3. call'.found = {} /\ call'.todo = page /\ call'.late = 0
    BY <1>0, <2>1, <2>2, ListingType
  <2>4. /\ \A s \in visible \ page : skipped'[s] = 0
        /\ \A s \in Subs : skipped'[s] = skipped[s] \/ skipped'[s] = 0
    BY <1>0, <2>1
  <2> QED
    BY <2>1, <2>2, <2>3, <2>4
<1>4. ASSUME NEW s \in Subs, ListAccounts(s)
      PROVE  /\ At("list") /\ call'.late = call.late /\ UNCHANGED <<subsCache, accountsCache>>
             /\ \E page \in SUBSET accounts :
                   /\ call'.todo = call.todo \ {s}
                   /\ call'.found = call.found \cup page
                   /\ \A id \in page : id[1] = s
                   /\ page = AccountsOf(s) \/ skipped'[s] = 0
             /\ s \in visible
             /\ \A t \in Subs : skipped'[t] = skipped[t] \/ skipped'[t] = 0
  <2>1. /\ call.todo \in SUBSET Subs /\ call.found \in SUBSET Ids /\ At("list")
        /\ call.late \in 0..Lag
    BY <1>0, <1>4, CallTypes DEF ListAccounts
  <2>2. PICK page \in SUBSET AccountsOf(s) :
              /\ call' = Listing(call.todo \ {s}, call.found \cup page, call.late)
              /\ skipped' = IF page = AccountsOf(s) THEN skipped ELSE [skipped EXCEPT ![s] = 0]
    BY <1>4 DEF ListAccounts, FirstPages
  <2>3. page \in SUBSET accounts /\ \A id \in page : id[1] = s
    BY <2>2 DEF AccountsOf
  <2>4. call.todo \ {s} \in SUBSET Subs /\ call.found \cup page \in SUBSET Ids
    BY <1>0, <2>1, <2>3
  <2>5. /\ call'.todo = call.todo \ {s} /\ call'.found = call.found \cup page
        /\ call'.late = call.late
    BY <1>0, <2>1, <2>2, <2>4, ListingType
  <2>6. /\ page = AccountsOf(s) \/ skipped'[s] = 0
        /\ \A t \in Subs : skipped'[t] = skipped[t] \/ skipped'[t] = 0
    BY <1>0, <2>2
  <2> QED
    BY <1>4, <2>1, <2>3, <2>5, <2>6 DEF ListAccounts, caches
<1>5. ASSUME NEW s \in Subs, SkipSubscription(s)
      PROVE  /\ At("list") /\ call'.todo = call.todo \ {s} /\ call'.found = call.found
             /\ call'.late = call.late
             /\ skipped'[s] = 0
             /\ \A t \in Subs : skipped'[t] = skipped[t] \/ skipped'[t] = 0
             /\ UNCHANGED <<subsCache, accountsCache>>
  <2>1. /\ call.todo \in SUBSET Subs /\ call.found \in SUBSET Ids /\ At("list")
        /\ call.late \in 0..Lag
    BY <1>0, <1>5, CallTypes DEF SkipSubscription
  <2>2. call' = Listing(call.todo \ {s}, call.found, call.late)
    BY <1>5 DEF SkipSubscription, LeaveOut
  <2>3. /\ call'.todo = call.todo \ {s} /\ call'.found = call.found
        /\ call'.late = call.late
    BY <1>0, <2>1, <2>2, ListingType
  <2>4. skipped' = [skipped EXCEPT ![s] = 0]
    BY <1>5 DEF SkipSubscription
  <2> QED
    BY <1>0, <1>5, <2>1, <2>3, <2>4 DEF SkipSubscription, caches
<1>6. CASE CacheAccounts
  BY <1>6 DEF CacheAccounts, At, history
<1>7. CASE Resolve
  <2>1. UNCHANGED <<accountsCache, subsCache, skipped>>
    BY <1>7 DEF Resolve, Hit, history
  <2>2. call' = Idle \/ call'.step = "fetch"
    BY <1>7 DEF Resolve
  <2>3. ~At("list")'
    BY <2>2 DEF At, Idle
  <2> QED
    BY <2>1, <2>3
<1>8. CASE CachedString \/ FetchString
  BY <1>8 DEF CachedString, FetchString, At, history
<1>9. CASE NothingToFetch \/ RequestRaises \/ Ping
  BY <1>9 DEF NothingToFetch, RequestRaises, Ping, Raises, At, Idle, caches, history
<1>10. CASE \E s \in Subs : ListAccounts(s)
  BY <1>4, <1>10
<1>11. CASE \E s \in Subs : SkipSubscription(s)
  BY <1>5, <1>11
<1>12. CASE \E a \in Names \cup Ids \cup {None}, p \in BOOLEAN : Connect(a, p)
  BY <1>1, <1>12
<1> QED
  BY <1>2, <1>3, <1>6, <1>7, <1>8, <1>9, <1>10, <1>11, <1>12 DEF CallStep, Proceed

\* The types that the lists' arithmetic is about.
LEMMA ListTypes ==
    ASSUME Typed
    PROVE  /\ TTL \in Nat /\ TTL >= 1 /\ Lag \in Nat
           /\ \A id \in Ids : id[1] \in Subs /\ since[id] \in Nat /\ skipped[id[1]] \in Nat
           /\ accountsCache # None => /\ accountsCache \in Entry(SUBSET Ids)
                                      /\ accountsCache.left \in 1..TTL
                                      /\ accountsCache.value \in SUBSET Ids
           /\ subsCache # None => /\ subsCache \in Entry(SUBSET Subs)
                                  /\ subsCache.left \in 1..TTL
                                  /\ subsCache.value \in SUBSET Subs
           /\ visible \subseteq Subs /\ accounts \subseteq Ids
           /\ At("list") => /\ call.todo \in SUBSET Subs /\ call.found \in SUBSET Ids
                            /\ call.late \in 0..Lag /\ call.late \in Nat
<1>1. accountsCache # None => accountsCache \in Entry(SUBSET Ids)
  BY DEF Typed, ListEntry
<1>2. subsCache # None => subsCache \in Entry(SUBSET Subs)
  BY DEF Typed, ListEntry
<1>3. \A id \in Ids : id[1] \in Subs /\ since[id] \in Nat /\ skipped[id[1]] \in Nat
  BY DEF Typed, Ids
<1>4. At("list") => /\ call.todo \in SUBSET Subs /\ call.found \in SUBSET Ids
                    /\ call.late \in 0..Lag /\ call.late \in Nat
  BY CallTypes, ConstantTypes DEF Typed
<1> QED
  BY <1>1, <1>2, <1>3, <1>4, EntryAges, ConstantTypes DEF Typed

\* What a tick leaves of the lists, and what it makes of the time they are about.
LEMMA TickLists ==
    ASSUME Typed, Tick
    PROVE  /\ \A id : Listable(id)' <=> Listable(id)
           /\ \A id \in Ids : since'[id] \in Nat /\ since'[id] <= since[id] + 1
           /\ \A s \in Subs : skipped'[s] \in Nat /\ skipped'[s] <= skipped[s] + 1
           /\ accountsCache' # None => /\ accountsCache # None
                                       /\ accountsCache'.left = accountsCache.left - 1
                                       /\ accountsCache'.value = accountsCache.value
           /\ subsCache' # None => /\ subsCache # None
                                   /\ subsCache'.left = subsCache.left - 1
                                   /\ subsCache'.value = subsCache.value
           /\ At("list")' => /\ At("list") /\ call'.todo = call.todo /\ call'.found = call.found
                             /\ call'.late = call.late + 1
<1>1. visible' = visible /\ accounts' = accounts
  BY DEF Tick, world
<1>2. \A id : Listable(id)' <=> Listable(id)
  BY <1>1 DEF Listable
<1>3. At("list")' => /\ At("list") /\ call'.todo = call.todo /\ call'.found = call.found
                     /\ call'.late = call.late + 1
  BY TickCalls DEF At
<1>4. \A id \in Ids : since[id] \in Nat /\ since'[id] = Later(since[id], Settled)
  BY DEF Tick, Typed
<1>5. \A s \in Subs : skipped[s] \in Nat /\ skipped'[s] = Later(skipped[s], Settled)
  BY DEF Tick, Typed
<1>6. /\ \A id \in Ids : since'[id] \in Nat /\ since'[id] <= since[id] + 1
      /\ \A s \in Subs : skipped'[s] \in Nat /\ skipped'[s] <= skipped[s] + 1
  BY <1>4, <1>5, ConstantTypes, LaterBounds
<1>7. accountsCache' = Aged(accountsCache) /\ subsCache' = Aged(subsCache)
  BY DEF Tick
<1>8. /\ accountsCache \in Entry(SUBSET Ids) \cup {None}
      /\ subsCache \in Entry(SUBSET Subs) \cup {None}
  BY DEF Typed, ListEntry
<1> QED
  BY <1>2, <1>3, <1>6, <1>7, <1>8, EntryAges

\* What goes is missed for no longer than a list lives.
LEMMA ListsAgeSteps ==
    ASSUME Typed, ListsAge, Next
    PROVE  ListsAge'
<1>1. CASE Changes
  <2>1. UNCHANGED <<accountsCache, call>>
    BY <1>1 DEF Changes, caches
  <2>2. ASSUME accountsCache # None, NEW id \in accountsCache.value
        PROVE  Listable(id)' \/ since'[id] + accountsCache.left <= TTL + Lag
    BY <1>1, <2>2, ListTypes, SinceChanges DEF ListsAge
  <2>3. ASSUME At("list"), NEW id \in call.found
        PROVE  Listable(id)' \/ since'[id] <= call.late
    BY <1>1, <2>3, ListTypes, SinceChanges DEF ListsAge
  <2> QED
    BY <2>1, <2>2, <2>3 DEF ListsAge, At
<1>2. CASE Tick
  <2>1. ASSUME accountsCache' # None, NEW id \in accountsCache'.value
        PROVE  Listable(id)' \/ since'[id] + accountsCache'.left <= TTL + Lag
    <3>1. /\ accountsCache # None /\ id \in accountsCache.value /\ id \in Ids
          /\ accountsCache'.left = accountsCache.left - 1 /\ accountsCache.left \in 1..TTL
      BY <1>2, <2>1, TickLists, ListTypes
    <3>2. /\ since[id] \in Nat /\ since'[id] \in Nat /\ since'[id] <= since[id] + 1
          /\ (Listable(id)' <=> Listable(id))
      BY <1>2, <3>1, TickLists, ListTypes
    <3>3. Listable(id) \/ since[id] + accountsCache.left <= TTL + Lag
      BY <3>1 DEF ListsAge
    <3>4. \A a, b, c \in Nat : a <= b + 1 /\ b + c <= TTL + Lag => a + (c - 1) <= TTL + Lag
      BY ConstantTypes
    <3>5. accountsCache.left \in Nat
      BY <3>1
    <3> QED
      BY <3>1, <3>2, <3>3, <3>4, <3>5
  <2>2. ASSUME At("list")', NEW id \in call'.found
        PROVE  Listable(id)' \/ since'[id] <= call'.late
    <3>1. /\ At("list") /\ id \in call.found /\ id \in Ids /\ call.late \in Nat
          /\ call'.late = call.late + 1
      BY <1>2, <2>2, TickLists, ListTypes
    <3>2. /\ since[id] \in Nat /\ since'[id] \in Nat /\ since'[id] <= since[id] + 1
          /\ (Listable(id)' <=> Listable(id))
      BY <1>2, <3>1, TickLists, ListTypes
    <3>3. Listable(id) \/ since[id] <= call.late
      BY <3>1 DEF ListsAge
    <3> QED
      BY <3>1, <3>2, <3>3
  <2> QED
    BY <2>1, <2>2 DEF ListsAge
<1>3. CASE CallStep
  <2>1. since' = since /\ \A id : Listable(id)' <=> Listable(id)
    BY <1>3, CallKeepsWorld DEF Listable
  <2>2. ASSUME accountsCache' # None, NEW id \in accountsCache'.value
        PROVE  Listable(id) \/ since[id] + accountsCache'.left <= TTL + Lag
    <3>1. CASE accountsCache' = accountsCache
      BY <2>2, <3>1 DEF ListsAge
    <3>2. CASE accountsCache' = Fresh(call.found) /\ At("list")
      <4>1. /\ accountsCache'.value = call.found /\ accountsCache'.left = TTL
            /\ id \in Ids /\ call.late \in 0..Lag
        BY <2>2, <3>2, ListTypes, EntryAges
      <4>2. Listable(id) \/ since[id] <= call.late
        BY <2>2, <3>2, <4>1 DEF ListsAge
      <4>3. since[id] \in Nat
        BY <4>1, ListTypes
      <4>4. \A a, b \in Nat : a <= b /\ b <= Lag => a + TTL <= TTL + Lag
        BY ConstantTypes
      <4> QED
        BY <4>1, <4>2, <4>3, <4>4, ConstantTypes
    <3> QED
      BY <1>3, <3>1, <3>2, ListSteps
  <2>3. ASSUME At("list")', NEW id \in call'.found
        PROVE  Listable(id) \/ since[id] <= call'.late
    <3>1. CASE call'.found = {}
      BY <2>3, <3>1
    <3>2. ASSUME At("list"), call'.late = call.late, id \in call.found
          PROVE  Listable(id) \/ since[id] <= call'.late
      BY <3>2 DEF ListsAge
    <3>3. ASSUME NEW s \in visible, NEW page \in SUBSET accounts,
                 \A x \in page : x[1] = s, id \in page
          PROVE  Listable(id)
      BY <3>3 DEF Listable
    <3> QED
      BY <1>3, <2>3, <3>1, <3>2, <3>3, ListSteps
  <2> QED
    BY <2>1, <2>2, <2>3 DEF ListsAge
<1> QED
  BY <1>1, <1>2, <1>3, NextSteps, WorldTypes

\* What is recent stays so when the world changes, is an hour's tick older after a tick, and
\* stays so in a call.
LEMMA RecentSteps ==
    ASSUME Typed, NEW id \in Ids, NEW age \in Nat
    PROVE  /\ Changes /\ Listable(id)' /\ (Listable(id) => Recent(id, age))
                => since'[id] <= age \/ skipped'[id[1]] <= age
           /\ Tick /\ Recent(id, age) => since'[id] <= age + 1 \/ skipped'[id[1]] <= age + 1
           /\ CallStep /\ Recent(id, age) => since'[id] <= age \/ skipped'[id[1]] <= age
<1>0. id[1] \in Subs /\ since[id] \in Nat /\ skipped[id[1]] \in Nat
  BY ListTypes
<1>1. ASSUME Changes, Listable(id)', Listable(id) => Recent(id, age)
      PROVE  since'[id] <= age \/ skipped'[id[1]] <= age
  <2>1. skipped' = skipped
    BY <1>1 DEF Changes
  <2>2. CASE since'[id] = 0
    BY <2>2
  <2>3. CASE since'[id] = since[id] /\ Listable(id)
    BY <1>1, <2>1, <2>3 DEF Recent
  <2> QED
    BY <1>1, <2>2, <2>3, SinceChanges
<1>2. ASSUME Tick, Recent(id, age)
      PROVE  since'[id] <= age + 1 \/ skipped'[id[1]] <= age + 1
  <2>1. /\ since'[id] \in Nat /\ since'[id] <= since[id] + 1
        /\ skipped'[id[1]] \in Nat /\ skipped'[id[1]] <= skipped[id[1]] + 1
    BY <1>0, <1>2, TickLists
  <2> QED
    BY <1>0, <1>2, <2>1 DEF Recent
<1>3. ASSUME CallStep, Recent(id, age)
      PROVE  since'[id] <= age \/ skipped'[id[1]] <= age
  <2>1. since' = since /\ (skipped'[id[1]] = skipped[id[1]] \/ skipped'[id[1]] = 0)
    BY <1>0, <1>3, CallKeepsWorld, ListSteps
  <2> QED
    BY <1>3, <2>1 DEF Recent
<1> QED
  BY <1>1, <1>2, <1>3

\* The ages the lists allow for are no less than none.
LEMMA AgesOfLists ==
    ASSUME Typed
    PROVE  /\ subsCache # None => TTL - subsCache.left \in Nat
           /\ At("list") => TTL - 1 + call.late \in Nat
           /\ accountsCache # None => Settled - accountsCache.left \in Nat
<1>1. subsCache # None => TTL - subsCache.left \in Nat
  BY ListTypes
<1>2. At("list") => TTL - 1 + call.late \in Nat
  BY ListTypes
<1>3. accountsCache # None => Settled - accountsCache.left \in Nat
  <2>1. \A left \in 1..TTL : Settled - left \in Nat
    BY ConstantTypes
  <2> QED
    BY <2>1, ListTypes
<1> QED
  BY <1>1, <1>2, <1>3

\* What comes is missing for no longer than two lists live.
LEMMA ListsCatchUpSteps ==
    ASSUME Typed, ListsCatchUp, Next
    PROVE  ListsCatchUp'
<1>0. TTL \in Nat /\ TTL >= 1 /\ Lag \in Nat /\ Settled \in Nat /\ Settled = 2 * TTL - 1 + Lag
  BY ConstantTypes
<1>1. CASE Changes
  <2>1. UNCHANGED <<accountsCache, subsCache, call, skipped>>
    BY <1>1 DEF Changes, caches
  <2>2. ASSUME subsCache # None, NEW id \in Ids, Listable(id)', id[1] \notin subsCache.value
        PROVE  since'[id] <= TTL - subsCache.left \/ skipped'[id[1]] <= TTL - subsCache.left
    BY <1>1, <2>2, AgesOfLists, RecentSteps DEF ListsCatchUp
  <2>3. ASSUME At("list"), NEW id \in Ids, Listable(id)',
               id \notin call.found, id[1] \notin call.todo
        PROVE  since'[id] <= TTL - 1 + call.late \/ skipped'[id[1]] <= TTL - 1 + call.late
    BY <1>1, <2>3, AgesOfLists, RecentSteps DEF ListsCatchUp
  <2>4. ASSUME accountsCache # None, NEW id \in Ids, Listable(id)',
               id \notin accountsCache.value
        PROVE  \/ since'[id] <= Settled - accountsCache.left
               \/ skipped'[id[1]] <= Settled - accountsCache.left
    BY <1>1, <2>4, AgesOfLists, RecentSteps DEF ListsCatchUp
  <2> QED
    BY <2>1, <2>2, <2>3, <2>4 DEF ListsCatchUp, Recent, At
<1>2. CASE Tick
  <2>1. ASSUME subsCache' # None, NEW id \in Ids, Listable(id)', id[1] \notin subsCache'.value
        PROVE  since'[id] <= TTL - subsCache'.left \/ skipped'[id[1]] <= TTL - subsCache'.left
    <3>1. /\ subsCache # None /\ Listable(id) /\ id[1] \notin subsCache.value
          /\ subsCache'.left = subsCache.left - 1 /\ subsCache.left \in 1..TTL
      BY <1>2, <2>1, TickLists, ListTypes
    <3>2. PICK age \in Nat : age = TTL - subsCache.left
      BY <3>1, AgesOfLists
    <3>3. Recent(id, age)
      BY <3>1, <3>2 DEF ListsCatchUp
    <3>4. since'[id] <= age + 1 \/ skipped'[id[1]] <= age + 1
      BY <1>2, <3>3, RecentSteps
    <3>5. age + 1 = TTL - subsCache'.left
      BY <1>0, <3>1, <3>2
    <3> QED
      BY <3>4, <3>5
  <2>2. ASSUME At("list")', NEW id \in Ids, Listable(id)',
               id \notin call'.found, id[1] \notin call'.todo
        PROVE  since'[id] <= TTL - 1 + call'.late \/ skipped'[id[1]] <= TTL - 1 + call'.late
    <3>1. /\ At("list") /\ Listable(id) /\ id \notin call.found /\ id[1] \notin call.todo
          /\ call'.late = call.late + 1 /\ call.late \in Nat
      BY <1>2, <2>2, TickLists, ListTypes
    <3>2. PICK age \in Nat : age = TTL - 1 + call.late
      BY <3>1, AgesOfLists
    <3>3. Recent(id, age)
      BY <3>1, <3>2 DEF ListsCatchUp
    <3>4. since'[id] <= age + 1 \/ skipped'[id[1]] <= age + 1
      BY <1>2, <3>3, RecentSteps
    <3>5. age + 1 = TTL - 1 + call'.late
      BY <1>0, <3>1, <3>2
    <3> QED
      BY <3>4, <3>5
  <2>3. ASSUME accountsCache' # None, NEW id \in Ids, Listable(id)',
               id \notin accountsCache'.value
        PROVE  \/ since'[id] <= Settled - accountsCache'.left
               \/ skipped'[id[1]] <= Settled - accountsCache'.left
    <3>1. /\ accountsCache # None /\ Listable(id) /\ id \notin accountsCache.value
          /\ accountsCache'.left = accountsCache.left - 1 /\ accountsCache.left \in 1..TTL
      BY <1>2, <2>3, TickLists, ListTypes
    <3>2. PICK age \in Nat : age = Settled - accountsCache.left
      BY <3>1, AgesOfLists
    <3>3. Recent(id, age)
      BY <3>1, <3>2 DEF ListsCatchUp
    <3>4. since'[id] <= age + 1 \/ skipped'[id[1]] <= age + 1
      BY <1>2, <3>3, RecentSteps
    <3>5. age + 1 = Settled - accountsCache'.left
      BY <1>0, <3>1, <3>2
    <3> QED
      BY <3>4, <3>5
  <2> QED
    BY <2>1, <2>2, <2>3 DEF ListsCatchUp, Recent
<1>3. CASE CallStep
  <2>1. since' = since /\ \A id : Listable(id)' <=> Listable(id)
    BY <1>3, CallKeepsWorld DEF Listable
  <2>2. ASSUME subsCache' # None, NEW id \in Ids, Listable(id), id[1] \notin subsCache'.value
        PROVE  since'[id] <= TTL - subsCache'.left \/ skipped'[id[1]] <= TTL - subsCache'.left
    <3>1. CASE subsCache' = subsCache
      BY <1>3, <2>2, <3>1, AgesOfLists, RecentSteps DEF ListsCatchUp
    <3>2. ASSUME NEW page \in SUBSET visible, subsCache' = Fresh(page),
                 \A s \in visible \ page : skipped'[s] = 0
          PROVE  skipped'[id[1]] <= TTL - subsCache'.left
      <4>1. subsCache'.value = page /\ subsCache'.left = TTL
        BY <3>2, EntryAges
      <4>2. skipped'[id[1]] = 0
        BY <2>2, <3>2, <4>1 DEF Listable
      <4> QED
        BY <1>0, <4>1, <4>2
    <3> QED
      BY <1>3, <3>1, <3>2, ListSteps
  <2>3. ASSUME At("list")', NEW id \in Ids, Listable(id),
               id \notin call'.found, id[1] \notin call'.todo
        PROVE  since'[id] <= TTL - 1 + call'.late \/ skipped'[id[1]] <= TTL - 1 + call'.late
    <3>1. id \in AccountsOf(id[1]) /\ id[1] \in visible /\ id[1] \in Subs
      BY <2>3, ListTypes DEF Listable, AccountsOf
    <3>2. At("list")' => call'.late \in Nat
      <4>1. Typed'
        BY <1>3, CallStepTypes
      <4>2. call' \in Calls
        BY <4>1 DEF Typed
      <4>3. PICK c : c = call'
        OBVIOUS
      <4>4. c \in Calls /\ c.step = "list" => c.late \in Nat
        BY <4>2, <4>3, ConstantTypes DEF Calls, Idle
      <4> QED
        BY <4>2, <4>3, <4>4 DEF At
    <3>3. skipped'[id[1]] = 0 => skipped'[id[1]] <= TTL - 1 + call'.late
      BY <1>0, <2>3, <3>2
    <3>4. ASSUME subsCache # None, call'.todo = subsCache.value, call'.late = 0
          PROVE  since'[id] <= TTL - 1 + call'.late \/ skipped'[id[1]] <= TTL - 1 + call'.late
      <4>1. subsCache.left \in 1..TTL
        BY <3>4, ListTypes
      <4>2. PICK age \in Nat : age = TTL - subsCache.left
        BY <3>4, AgesOfLists
      <4>3. Recent(id, age)
        BY <2>3, <3>4, <4>2 DEF ListsCatchUp
      <4>4. Recent(id, TTL - 1)
        BY <1>0, <4>1, <4>2, <4>3, ListTypes DEF Recent
      <4>5. since'[id] <= TTL - 1 \/ skipped'[id[1]] <= TTL - 1
        BY <1>0, <1>3, <4>4, RecentSteps
      <4> QED
        BY <1>0, <3>4, <4>5
    <3>5. ASSUME At("list"), call'.late = call.late, id \notin call.found, id[1] \notin call.todo
          PROVE  since'[id] <= TTL - 1 + call'.late \/ skipped'[id[1]] <= TTL - 1 + call'.late
      BY <1>3, <2>3, <3>5, AgesOfLists, RecentSteps DEF ListsCatchUp
    <3>6. ASSUME At("list"), call'.late = call.late,
                 NEW s \in visible, NEW page \in SUBSET accounts,
                 call'.todo = call.todo \ {s}, call'.found = call.found \cup page,
                 page = AccountsOf(s) \/ skipped'[s] = 0
          PROVE  since'[id] <= TTL - 1 + call'.late \/ skipped'[id[1]] <= TTL - 1 + call'.late
      <4>1. CASE s = id[1]
        BY <2>3, <3>1, <3>3, <3>6, <4>1
      <4>2. CASE s # id[1]
        BY <2>3, <3>5, <3>6, <4>2
      <4> QED
        BY <4>1, <4>2
    <3>7. ASSUME At("list"), call'.late = call.late, call'.found = call.found,
                 NEW s \in Subs, call'.todo = call.todo \ {s}, skipped'[s] = 0
          PROVE  since'[id] <= TTL - 1 + call'.late \/ skipped'[id[1]] <= TTL - 1 + call'.late
      BY <2>3, <3>3, <3>5, <3>7
    <3>8. (\A s \in visible \ call'.todo : skipped'[s] = 0) => skipped'[id[1]] = 0
      BY <2>3, <3>1
    <3> QED
      BY <1>3, <2>3, <3>3, <3>4, <3>6, <3>7, <3>8, ListSteps
  <2>4. ASSUME accountsCache' # None, NEW id \in Ids, Listable(id),
               id \notin accountsCache'.value
        PROVE  \/ since'[id] <= Settled - accountsCache'.left
               \/ skipped'[id[1]] <= Settled - accountsCache'.left
    <3>1. CASE accountsCache' = accountsCache
      BY <1>3, <2>4, <3>1, AgesOfLists, RecentSteps DEF ListsCatchUp
    <3>2. CASE accountsCache' = Fresh(call.found) /\ At("list") /\ call.todo = {}
      <4>1. /\ accountsCache'.value = call.found /\ accountsCache'.left = TTL
            /\ call.late \in 0..Lag
        BY <3>2, ListTypes, EntryAges
      <4>2. PICK age \in Nat : age = TTL - 1 + call.late
        BY <3>2, AgesOfLists
      <4>3. Recent(id, age)
        BY <2>4, <3>2, <4>1, <4>2 DEF ListsCatchUp
      <4>4. Recent(id, Settled - TTL) /\ Settled - TTL \in Nat
        <5>1. age <= Settled - TTL /\ Settled - TTL \in Nat
          BY <1>0, <4>1, <4>2
        <5> QED
          BY <4>3, <5>1, ListTypes DEF Recent
      <4>5. since'[id] <= Settled - TTL \/ skipped'[id[1]] <= Settled - TTL
        BY <1>3, <4>4, RecentSteps
      <4> QED
        BY <4>1, <4>5
    <3> QED
      BY <1>3, <3>1, <3>2, ListSteps
  <2> QED
    BY <2>1, <2>2, <2>3, <2>4 DEF ListsCatchUp, Recent
<1> QED
  BY <1>1, <1>2, <1>3, NextSteps, WorldTypes

-----------------------------------------------------------------------------
(* The string of a reader. *)

\* What was offered with a key stays what it was, whatever is offered after it.
LEMMA OffersStay ==
    ASSUME Typed, Next, NEW s \in Strings, NEW prefer \in BOOLEAN, Kept(s, prefer)
    PROVE  Kept(s, prefer)'
<1>1. /\ s.id \in Ids /\ s.version \in Nat /\ s.version >= 1
      /\ s.version <= Current(s.id) /\ Current(s.id) = Len(offers[s.id])
      /\ offers[s.id] \in Seq(Offers)
  BY ConstantTypes DEF Strings, Kept, Current, Typed
<1>2. CASE UNCHANGED offers
  BY <1>2 DEF Kept, Current
<1>3. ASSUME NEW r \in Ids, RotateKeys(r) PROVE Kept(s, prefer)'
  <2>1. PICK o \in Offers : offers' = [offers EXCEPT ![r] = Append(offers[r], o)]
    BY <1>3 DEF RotateKeys
  <2>2. CASE r = s.id
    <3>1. offers'[s.id] = Append(offers[s.id], o)
      BY <1>1, <2>1, <2>2 DEF Typed
    <3>2. /\ offers'[s.id][s.version] = offers[s.id][s.version]
          /\ s.version <= Len(offers'[s.id])
      BY <1>1, <3>1, AppendProperties
    <3> QED
      BY <3>2 DEF Kept, Current
  <2>3. CASE r # s.id
    <3>1. offers'[s.id] = offers[s.id]
      BY <1>1, <2>1, <2>3 DEF Typed
    <3> QED
      BY <3>1 DEF Kept, Current
  <2> QED
    BY <2>2, <2>3
<1>4. CASE Tick
  BY <1>2, <1>4 DEF Tick, world
<1>5. CASE CallStep
  BY <1>2, <1>5, CallKeepsWorld
<1>6. ASSUME NEW id \in Ids, NEW t \in Subs,
             MoveAccount(id, t) \/ ChangeSubscription(t) \/ ChangeAccount(id)
      PROVE  UNCHANGED offers
  BY <1>6 DEF MoveAccount, ChangeSubscription, ChangeAccount
<1>7. ASSUME NEW id \in Ids, ChangeAccount(id) PROVE UNCHANGED offers
  BY <1>7 DEF ChangeAccount
<1>8. ASSUME NEW t \in Subs, ChangeSubscription(t) PROVE UNCHANGED offers
  BY <1>8 DEF ChangeSubscription
<1> QED
  BY <1>2, <1>3, <1>4, <1>5, <1>6, <1>7, <1>8, NextSteps

\* Where the strings of a step come from: the cache, as they were, or the keys in use.
LEMMA StringSteps ==
    ASSUME Typed, Next
    PROVE  /\ \A k \in DOMAIN connCache' :
                 \/ k \in DOMAIN connCache /\ connCache'[k].value = connCache[k].value
                 \/ /\ FetchString /\ k = <<call.id, call.prefer>>
                    /\ connCache'[k].value = ConnectionString
           /\ At("ping")' =>
                 \/ At("ping") /\ call' = call
                 \/ /\ CachedString /\ <<call.id, call.prefer>> \in DOMAIN connCache
                    /\ call'.string = connCache[<<call.id, call.prefer>>].value
                    /\ call'.prefer = call.prefer
                 \/ /\ FetchString /\ call'.string = ConnectionString
                    /\ call'.prefer = call.prefer
<1>1. CASE Changes
  BY <1>1 DEF Changes, caches, At
<1>2. CASE Tick
  <2>1. /\ connCache' = [k \in {x \in DOMAIN connCache : Aged(connCache[x]) # None}
                          |-> Aged(connCache[k])]
    BY <1>2 DEF Tick
  <2>2. ASSUME NEW k \in DOMAIN connCache'
        PROVE  k \in DOMAIN connCache /\ connCache'[k].value = connCache[k].value
    <3>1. k \in DOMAIN connCache /\ Aged(connCache[k]) # None /\ connCache'[k] = Aged(connCache[k])
      BY <2>1, <2>2
    <3>2. connCache[k] \in Entry(Strings)
      BY <3>1 DEF Typed
    <3> QED
      BY <3>1, <3>2, EntryAges
  <2>3. At("ping")' => At("ping") /\ call' = call
    <3>1. At("ping")' => At("ping")
      BY <1>2, TickCalls
    <3>2. At("ping") => ~At("list")
      BY DEF At
    <3> QED
      BY <1>2, <3>1, <3>2, TickCalls
  <2> QED
    BY <2>2, <2>3
<1>3. CASE CachedString
  BY <1>3, CachedStringTypes
<1>4. CASE FetchString
  <2>1. ASSUME NEW k \in DOMAIN connCache'
        PROVE  \/ k \in DOMAIN connCache /\ connCache'[k].value = connCache[k].value
               \/ /\ FetchString /\ k = <<call.id, call.prefer>>
                  /\ connCache'[k].value = ConnectionString
    <3>1. CASE k = Key
      BY <1>4, <3>1, FetchStringTypes, EntryAges
    <3>2. CASE k # Key
      BY <1>4, <2>1, <3>2, FetchStringTypes
    <3> QED
      BY <3>1, <3>2
  <2> QED
    BY <1>4, <2>1, FetchStringTypes
<1>5. ASSUME CallStep, ~CachedString, ~FetchString
      PROVE  UNCHANGED connCache /\ ~At("ping")'
  <2>1. ASSUME NEW a \in Names \cup Ids \cup {None}, NEW p \in BOOLEAN, Connect(a, p)
        PROVE  UNCHANGED connCache /\ ~At("ping")'
    BY <2>1 DEF Connect, At, caches
  <2>2. CASE CachedSubscriptions \/ ListSubscriptions \/ CacheAccounts
    BY <2>2 DEF CachedSubscriptions, ListSubscriptions, CacheAccounts, Listing, At
  <2>3. ASSUME NEW s \in Subs, ListAccounts(s) \/ SkipSubscription(s)
        PROVE  UNCHANGED connCache /\ ~At("ping")'
    BY <2>3 DEF ListAccounts, SkipSubscription, LeaveOut, Listing, At, caches
  <2>4. CASE Resolve
    <3>1. UNCHANGED connCache /\ (call' = Idle \/ call'.step = "fetch")
      BY <2>4 DEF Resolve
    <3> QED
      BY <3>1 DEF At, Idle
  <2>5. CASE NothingToFetch \/ RequestRaises \/ Ping
    BY <2>5 DEF NothingToFetch, RequestRaises, Ping, Raises, At, Idle, caches
  <2> QED
    BY <1>5, <2>1, <2>2, <2>3, <2>4, <2>5 DEF CallStep, Proceed
<1> QED
  BY <1>1, <1>2, <1>3, <1>4, <1>5, NextSteps, WorldTypes

\* A string is kept and handed out for the account and the preference it was chosen for.
LEMMA StringsKeptSteps ==
    ASSUME Typed, StringsKept, Next
    PROVE  StringsKept'
<1>1. ASSUME NEW k \in DOMAIN connCache, NEW s, s = connCache[k].value
      PROVE  s \in Strings /\ k[2] \in BOOLEAN /\ s.id = k[1] /\ Kept(s, k[2])
  <2>1. connCache[k] \in Entry(Strings) /\ k \in Ids \X BOOLEAN
    BY DEF Typed
  <2>2. s \in Strings /\ k[2] \in BOOLEAN
    BY <1>1, <2>1, EntryAges
  <2>3. s.id = k[1] /\ Kept(s, k[2])
    BY <1>1 DEF StringsKept
  <2> QED
    BY <2>2, <2>3
<1>2. ASSUME FetchString, NEW s, s = ConnectionString, NEW p, p = call.prefer
      PROVE  s \in Strings /\ p \in BOOLEAN /\ s.id = call.id /\ Kept(s, p)
  <2>1. s \in Strings /\ s.id = call.id /\ Kept(ConnectionString, call.prefer)
    BY <1>2, FetchStringTypes
  <2>2. Kept(s, p)
    BY <1>2, <2>1 DEF Kept
  <2>3. p \in BOOLEAN
    BY <1>2, CallTypes DEF FetchString, Typed
  <2> QED
    BY <2>1, <2>2, <2>3
<1>3. ASSUME NEW k \in DOMAIN connCache', NEW s, s = connCache'[k].value
      PROVE  s.id = k[1] /\ Kept(s, k[2])'
  <2>1. CASE k \in DOMAIN connCache /\ s = connCache[k].value
    BY <1>1, <2>1, OffersStay
  <2>2. CASE FetchString /\ k = <<call.id, call.prefer>> /\ s = ConnectionString
    <3>1. k[1] = call.id /\ k[2] = call.prefer
      BY <2>2
    <3>2. s \in Strings /\ k[2] \in BOOLEAN /\ s.id = k[1] /\ Kept(s, k[2])
      BY <1>2, <2>2, <3>1
    <3> QED
      BY <3>2, OffersStay
  <2> QED
    BY <1>3, <2>1, <2>2, StringSteps
<1>4. ASSUME At("ping")', NEW s, s = call'.string, NEW p, p = call'.prefer
      PROVE  Kept(s, p)'
  <2>1. CASE At("ping") /\ call' = call
    <3>1. s \in Strings /\ p \in BOOLEAN
      BY <1>4, <2>1, CallTypes DEF Typed
    <3>2. Kept(s, p)
      BY <1>4, <2>1 DEF StringsKept
    <3> QED
      BY <3>1, <3>2, OffersStay
  <2>2. CASE /\ <<call.id, call.prefer>> \in DOMAIN connCache
             /\ s = connCache[<<call.id, call.prefer>>].value /\ p = call.prefer
    <3>1. PICK k : k = <<call.id, call.prefer>>
      OBVIOUS
    <3>2. k \in DOMAIN connCache /\ s = connCache[k].value /\ k[2] = p
      BY <2>2, <3>1
    <3>3. s \in Strings /\ p \in BOOLEAN /\ Kept(s, p)
      BY <1>1, <3>2
    <3> QED
      BY <3>3, OffersStay
  <2>3. CASE FetchString /\ s = ConnectionString /\ p = call.prefer
    BY <1>2, <2>3, OffersStay
  <2> QED
    BY <1>4, <2>1, <2>2, <2>3, StringSteps
<1>5. ASSUME NEW k \in DOMAIN connCache'
      PROVE  connCache'[k].value.id = k[1] /\ Kept(connCache[k].value, k[2])'
  <2>1. PICK s : s = connCache'[k].value
    OBVIOUS
  <2>2. s.id = k[1] /\ Kept(s, k[2])'
    BY <1>3, <2>1
  <2> QED
    BY <2>1, <2>2 DEF Kept
<1>6. ASSUME At("ping")'
      PROVE  Kept(call.string, call.prefer)'
  <2>1. PICK s : s = call'.string
    OBVIOUS
  <2>2. PICK p : p = call'.prefer
    OBVIOUS
  <2>3. Kept(s, p)'
    BY <1>4, <1>6, <2>1, <2>2
  <2> QED
    BY <2>1, <2>2, <2>3 DEF Kept
<1> QED
  BY <1>5, <1>6 DEF StringsKept

-----------------------------------------------------------------------------
(* The theorems. *)

\* Lists and strings keep their places, always.
LEMMA ListsAndStringsAlways == Spec => [](ListsAge /\ ListsCatchUp /\ StringsKept)
<1> DEFINE Inv == ListsAge /\ ListsCatchUp /\ StringsKept
<1>1. Init => Inv
  BY DEF Init, ListsAge, ListsCatchUp, StringsKept, At, Idle
<1>2. Typed /\ Inv /\ [Next]_vars => Inv'
  <2> SUFFICES ASSUME Typed, Inv, [Next]_vars PROVE Inv'
    OBVIOUS
  <2>1. CASE UNCHANGED vars
    <3>1. UNCHANGED <<visible, accounts, offers, subsCache, accountsCache, connCache, call,
                      since, skipped>>
      BY <2>1 DEF vars, world, caches, history
    <3>2. ListsAge' /\ ListsCatchUp'
      BY <3>1 DEF ListsAge, ListsCatchUp, Recent, Listable, At
    <3>3. StringsKept'
      BY <3>1 DEF StringsKept, Kept, Current, At
    <3> QED
      BY <3>2, <3>3
  <2>2. CASE Next
    BY <2>2, ListsAgeSteps, ListsCatchUpSteps, StringsKeptSteps
  <2> QED
    BY <2>1, <2>2
<1> QED
  BY <1>1, <1>2, TypedAlways, PTL DEF Spec

\* No list offers an account that has been gone for an hour and the time it took to make
\* the list, and no cached string is of a key that has been outdated for an hour: an entry
\* lives no longer than that, and what is wrong with it is older than the entry only by what
\* passed while it was made.
THEOREM StaleForAnHourAtMostAlways == Spec => []StaleForAnHourAtMost
<1>1. Typed /\ KeysAge /\ ListsAge => StaleForAnHourAtMost
  <2> SUFFICES ASSUME Typed, KeysAge, ListsAge PROVE StaleForAnHourAtMost
    OBVIOUS
  <2>1. ASSUME accountsCache # None, NEW id \in accountsCache.value
        PROVE  Listable(id) \/ since[id] < TTL + Lag
    <3>1. /\ since[id] \in Nat /\ accountsCache.left \in 1..TTL /\ TTL \in Nat
          /\ Lag \in Nat
      BY <2>1, ListTypes
    <3> QED
      BY <2>1, <3>1 DEF ListsAge
  <2>2. ASSUME NEW k \in DOMAIN connCache
        PROVE  outdated[connCache[k].value.id][connCache[k].value.version] < TTL
    <3> DEFINE i == connCache[k].value.id
               v == connCache[k].value.version
    <3>1. connCache[k].left \in 1..TTL /\ connCache[k].value \in Strings
      BY EntryAges DEF Typed
    <3>2. v <= Current(i) /\ outdated[i][v] + connCache[k].left <= TTL
      BY DEF KeysAge
    <3>3. i \in Ids /\ v \in 1..(MaxChanges + 1)
      BY <3>1 DEF Strings
    <3>4. outdated[i] \in Seq(Nat) /\ Len(outdated[i]) = Current(i)
      BY <3>3 DEF Typed, Current
    <3> HIDE DEF i, v
    <3>5. v \in 1..Len(outdated[i])
      BY <3>2, <3>3, <3>4, ConstantTypes
    <3>6. outdated[i][v] \in Nat
      BY <3>4, <3>5, ElementOfSeq
    <3>7. \A a, b \in Nat : b >= 1 /\ a + b <= TTL => a < TTL
      BY ConstantTypes
    <3>8. outdated[i][v] < TTL
      BY <3>1, <3>2, <3>6, <3>7
    <3> QED
      BY <3>8 DEF i, v
  <2> QED
    BY <2>1, <2>2 DEF StaleForAnHourAtMost
<1> QED
  BY <1>1, TypedAlways, KeysAgeAlways, ListsAndStringsAlways, PTL

\* An account that has been there for two lists' lives, and the making of one, is in any
\* list that is cached, if its subscription has not been left out of one or cut to its first
\* page: the list was made within the life of the one of subscriptions, that within its own.
THEOREM SettledAreListedAlways == Spec => []SettledAreListed
<1>1. Typed /\ ListsCatchUp => SettledAreListed
  <2> SUFFICES ASSUME Typed, ListsCatchUp, accountsCache # None, NEW id \in Ids,
                      Listable(id), since[id] >= Settled, skipped[id[1]] >= Settled
               PROVE  id \in accountsCache.value
    BY DEF SettledAreListed
  <2>1. /\ since[id] \in Nat /\ skipped[id[1]] \in Nat /\ Settled \in Nat
        /\ accountsCache.left \in 1..TTL /\ TTL \in Nat
    BY ListTypes, ConstantTypes
  <2>2. ~Recent(id, Settled - accountsCache.left)
    BY <2>1 DEF Recent
  <2> QED
    BY <2>2 DEF ListsCatchUp
<1> QED
  BY <1>1, TypedAlways, ListsAndStringsAlways, PTL

\* A reader is connected with a string that can write only if its keys came with no other
\* in the pool: what is cached was chosen for a reader, and offers are never revised.
THEOREM ReadOnlyIsKeptAlways == Spec => []ReadOnlyIsKept
<1>1. StringsKept => ReadOnlyIsKept
  BY DEF StringsKept, Kept, ReadOnlyIsKept
<1> QED
  BY <1>1, ListsAndStringsAlways, PTL
=============================================================================
