----------------------------- MODULE AzureDiscovery -----------------------------
(***************************************************************************)
(* From an account name to a MongoDB connection (azure_service.py,          *)
(* models/connection.py): ARM is asked for the subscriptions, for the       *)
(* accounts of each, and for the connection strings of one, and what it     *)
(* answers is kept in three TTL caches while the world goes on.             *)
(*                                                                          *)
(* The process makes one call at a time; the world may change between any   *)
(* two requests of a call.  Time is in ticks, TTL of them to the hour an    *)
(* entry lives, and passes between calls and while a request is under way.  *)
(* An answer is of the world when it arrives, and of a list it is the first *)
(* page: nextLink is not followed.                                          *)
(***************************************************************************)
EXTENDS Integers, Sequences, FiniteSets

CONSTANTS
    Subs, Names,
    Asked,          \* the names and ARM IDs that callers give
    Offers,         \* what listConnectionStrings may answer: sequences of strings, each
                    \* with whether its description says mongo, primary, read-only
    TTL,
    MaxConnStrs,    \* maxsize of _connstr_cache
    PageSize,       \* what the first page of an answer holds, if there is so much
    Lag,            \* for how many ticks the requests of a list may be under way
    MaxChanges, MaxFailures,    \* bounds on the world
    None

\* An ARM resource ID is in a subscription and ends in the account's name.
Ids == Subs \X Names

ASSUME DiscoveryAssumption ==
    /\ TTL \in Nat \ {0} /\ MaxConnStrs \in Nat \ {0}
    /\ PageSize \in Nat \ {0} /\ Lag \in Nat
    /\ MaxChanges \in Nat /\ MaxFailures \in Nat
    /\ Offers \subseteq Seq([mongo : BOOLEAN, primary : BOOLEAN, readOnly : BOOLEAN])
    /\ Asked \subseteq Names \cup Ids /\ Names \cap Ids = {} /\ None \notin Names \cup Ids

VARIABLES
    visible,        \* the subscriptions the credential sees
    accounts,       \* the accounts there are
    offers,         \* per account, the answers of listConnectionStrings so far: keys are
                    \* rotated and recreated, and the last answer is the valid one
    changes, failures,
    subsCache, accountsCache, connCache,
    call,           \* what the process is doing
    since,          \* history: for how many ticks an account has been there, or not,
    outdated,       \* since how many ticks each of its keys is no longer valid,
    skipped         \* and since how many a subscription was last left out of a list,
                    \* or only its first page taken

world == <<visible, accounts, offers, changes>>
caches == <<subsCache, accountsCache, connCache>>
history == <<since, outdated, skipped>>
vars == <<world, failures, caches, call, history>>

Idle == [step |-> "idle"]
At(step) == call.step = step

\* A list being made: the subscriptions still to ask, the accounts found so far, and for
\* how many ticks it has been.
Listing(todo, found, late) ==
    [step |-> "list", account |-> call.account, prefer |-> call.prefer,
     todo |-> todo, found |-> found, late |-> late]

\* What comes is in the lists after two of their lives and the making of one.
Settled == 2 * TTL - 1 + Lag

Init ==
    /\ visible \in SUBSET Subs
    /\ accounts \in SUBSET Ids
    /\ offers \in {[id \in Ids |-> <<o>>] : o \in Offers}
    /\ changes = 0 /\ failures = 0
    /\ subsCache = None /\ accountsCache = None
    /\ connCache = [k \in {} |-> None]
    /\ call = Idle
    /\ since = [id \in Ids |-> 0]
    /\ outdated = [id \in Ids |-> <<0>>]
    /\ skipped = [s \in Subs |-> Settled]

AccountsOf(s) == {id \in accounts : id[1] = s}
Listable(id) == id \in accounts /\ id[1] \in visible
Current(id) == Len(offers[id])

-----------------------------------------------------------------------------
(* cachetools.TTLCache. *)

\* A new entry.
Fresh(value) == [left |-> TTL, value |-> value]

\* Mutant of Hit: a read keeps an entry alive.
HitRenews(entry) == [entry EXCEPT !.left = TTL]

\* What a read does to an entry: nothing.
Hit(entry) == entry

\* Mutant of Aged: entries that live for good.
Eternal(entry) == entry

\* An entry a tick later.
Aged(entry) == IF entry = None \/ entry.left = 1 THEN None
               ELSE [entry EXCEPT !.left = @ - 1]

\* Mutant of Stored: nothing makes way.
StoredBesides(k, entry) ==
    {[x \in DOMAIN connCache \cup {k} |-> IF x = k THEN entry ELSE connCache[x]]}

\* The cache with an entry for k, one other having made way if it is full.
Stored(k, entry) ==
    LET others == DOMAIN connCache \ {k}
        kept == IF Cardinality(others) < MaxConnStrs THEN {others}
                ELSE {others \ {x} : x \in others}
    IN {[x \in keep \cup {k} |-> IF x = k THEN entry ELSE connCache[x]] : keep \in kept}

\* Mutant of ConnKey: the cache forgets what was preferred.
ConnKeyOfAccount(id, prefer) == <<id, TRUE>>

\* What _connstr_cache keeps a string under.
ConnKey(id, prefer) == <<id, prefer>>

Key == ConnKey(call.id, call.prefer)

-----------------------------------------------------------------------------
(* The world. *)

\* A step of the world, and what it makes of the history.
Changes ==
    /\ changes < MaxChanges /\ changes' = changes + 1
    /\ since' = [id \in Ids |-> IF Listable(id)' = Listable(id) THEN since[id] ELSE 0]
    /\ UNCHANGED <<failures, caches, call, skipped>>

\* A subscription comes into or out of sight.
ChangeSubscription(s) ==
    /\ visible' = IF s \in visible THEN visible \ {s} ELSE visible \cup {s}
    /\ UNCHANGED <<accounts, offers, outdated>>
    /\ Changes

\* An account is created or deleted ...
ChangeAccount(id) ==
    /\ accounts' = IF id \in accounts THEN accounts \ {id} ELSE accounts \cup {id}
    /\ UNCHANGED <<visible, offers, outdated>>
    /\ Changes

\* ... or moved to another subscription.
MoveAccount(id, s) ==
    /\ id \in accounts /\ <<s, id[2]>> \notin accounts
    /\ accounts' = (accounts \ {id}) \cup {<<s, id[2]>>}
    /\ UNCHANGED <<visible, offers, outdated>>
    /\ Changes

RotateKeys(id) ==
    /\ \E o \in Offers : offers' = [offers EXCEPT ![id] = Append(@, o)]
    /\ outdated' = [outdated EXCEPT ![id] = Append(@, 0)]
    /\ UNCHANGED <<visible, accounts>>
    /\ Changes

Later(ticks, max) == IF ticks < max THEN ticks + 1 ELSE max

\* The process is idle or waits for an answer: for a list of accounts, no longer than Lag.
Waiting ==
    \/ call = Idle
    \/ At("lookup") /\ accountsCache = None /\ subsCache = None
    \/ At("list") /\ call.todo # {} /\ call.late < Lag
    \/ At("fetch") /\ Key \notin DOMAIN connCache
    \/ At("ping")

Tick ==
    /\ Waiting
    /\ subsCache' = Aged(subsCache)
    /\ accountsCache' = Aged(accountsCache)
    /\ connCache' = [k \in {x \in DOMAIN connCache : Aged(connCache[x]) # None}
                       |-> Aged(connCache[k])]
    /\ since' = [id \in Ids |-> Later(since[id], Settled)]
    /\ outdated' = [id \in Ids |-> [v \in DOMAIN outdated[id] |->
                       IF v = Current(id) THEN 0 ELSE Later(outdated[id][v], TTL)]]
    /\ skipped' = [s \in Subs |-> Later(skipped[s], Settled)]
    /\ call' = IF At("list") THEN Listing(call.todo, call.found, call.late + 1) ELSE call
    /\ UNCHANGED <<world, failures>>

-----------------------------------------------------------------------------
(* resolve_account_id, list_cosmos_accounts and list_subscriptions. *)

\* Any exception leaves the call, and nothing behind.
Raises == call' = Idle /\ UNCHANGED <<caches, skipped>>

\* from_default_credential with a name or an ARM ID, which needs no list; or the
\* accounts command, which wants nothing but the list (None).
Connect(account, prefer) ==
    /\ call = Idle
    /\ call' = IF account \in Ids
               THEN [step |-> "fetch", id |-> account, prefer |-> prefer]
               ELSE [step |-> "lookup", account |-> account, prefer |-> prefer]
    /\ UNCHANGED <<world, failures, caches, history>>

\* What the first page of an answer may hold: all, or no less than fits it.
FirstPages(S) == {page \in SUBSET S : page = S \/ Cardinality(page) >= PageSize}

\* No list of accounts is cached, but one of subscriptions is ...
CachedSubscriptions ==
    /\ At("lookup") /\ accountsCache = None /\ subsCache # None
    /\ call' = Listing(subsCache.value, {}, 0)
    /\ subsCache' = Hit(subsCache)
    /\ UNCHANGED <<world, failures, accountsCache, connCache, history>>

\* ... or ARM is asked for one.
ListSubscriptions ==
    /\ At("lookup") /\ accountsCache = None /\ subsCache = None
    /\ \E page \in FirstPages(visible) :
          /\ call' = Listing(page, {}, 0)
          /\ subsCache' = Fresh(page)
          /\ skipped' = [s \in Subs |-> IF s \in visible \ page THEN 0 ELSE skipped[s]]
    /\ UNCHANGED <<world, failures, accountsCache, connCache, since, outdated>>

ListAccounts(s) ==
    /\ At("list") /\ s \in call.todo /\ s \in visible
    /\ \E page \in FirstPages(AccountsOf(s)) :
          /\ call' = Listing(call.todo \ {s}, call.found \cup page, call.late)
          /\ skipped' = IF page = AccountsOf(s) THEN skipped ELSE [skipped EXCEPT ![s] = 0]
    /\ UNCHANGED <<world, failures, caches, since, outdated>>

Fails == failures < MaxFailures /\ failures' = failures + 1

\* Mutant of LeaveOut: a subscription that fails ends the list.
GiveUp(s) == Listing({}, call.found, call.late)

\* The list goes on without s.
LeaveOut(s) == Listing(call.todo \ {s}, call.found, call.late)

\* Any status but 200, as for a subscription no longer in sight: a warning.
SkipSubscription(s) ==
    /\ At("list") /\ s \in call.todo
    /\ IF s \in visible THEN Fails ELSE UNCHANGED failures
    /\ call' = LeaveOut(s)
    /\ skipped' = [skipped EXCEPT ![s] = 0]
    /\ UNCHANGED <<world, caches, since, outdated>>

\* The list is cached, whole or not.
CacheAccounts ==
    /\ At("list") /\ call.todo = {}
    /\ accountsCache' = Fresh(call.found)
    /\ call' = [step |-> "lookup", account |-> call.account, prefer |-> call.prefer]
    /\ UNCHANGED <<world, failures, subsCache, connCache, history>>

\* What the list has for the name: one account to go on with; none or several, or no
\* name to look for, end the call.
Resolve ==
    /\ At("lookup") /\ accountsCache # None
    /\ accountsCache' = Hit(accountsCache)
    /\ LET matches == {id \in accountsCache.value : id[2] = call.account}
       IN call' = IF Cardinality(matches) = 1
                  THEN [step |-> "fetch", id |-> CHOOSE id \in matches : TRUE,
                        prefer |-> call.prefer]
                  ELSE Idle
    /\ UNCHANGED <<world, failures, subsCache, connCache, history>>

-----------------------------------------------------------------------------
(* get_connection_string. *)

\* The positions of "mongo" strings if any are tagged so, else of all.
Pool(strings) ==
    LET mongo == {i \in DOMAIN strings : strings[i].mongo}
    IN IF mongo = {} THEN DOMAIN strings ELSE mongo

First(positions) == CHOOSE i \in positions : \A j \in positions : i <= j

\* _select_connection_string: the first of the most preferred kind there is.
Select(strings, prefer) ==
    LET pool == Pool(strings)
        readOnly == {i \in pool : strings[i].readOnly}
        readOnlyPrimary == {i \in readOnly : strings[i].primary}
        readWritePrimary == {i \in pool \ readOnly : strings[i].primary}
    IN strings[First(IF prefer /\ readOnlyPrimary # {} THEN readOnlyPrimary
                     ELSE IF prefer /\ readOnly # {} THEN readOnly
                     ELSE IF readWritePrimary # {} THEN readWritePrimary
                     ELSE pool)]

\* The chosen string, of the keys that are valid now.
ConnectionString ==
    [id |-> call.id, version |-> Current(call.id),
     readOnly |-> Select(offers[call.id][Current(call.id)], call.prefer).readOnly]

CachedString ==
    /\ At("fetch") /\ Key \in DOMAIN connCache
    /\ call' = [step |-> "ping", prefer |-> call.prefer, string |-> connCache[Key].value]
    /\ connCache' = [connCache EXCEPT ![Key] = Hit(@)]
    /\ UNCHANGED <<world, failures, subsCache, accountsCache, history>>

FetchString ==
    /\ At("fetch") /\ Key \notin DOMAIN connCache
    /\ Listable(call.id) /\ offers[call.id][Current(call.id)] # <<>>
    /\ connCache' \in Stored(Key, Fresh(ConnectionString))
    /\ call' = [step |-> "ping", prefer |-> call.prefer, string |-> ConnectionString]
    /\ UNCHANGED <<world, failures, subsCache, accountsCache, history>>

\* No such account, or no strings for it: a RuntimeError.
NothingToFetch ==
    /\ At("fetch") /\ Key \notin DOMAIN connCache
    /\ ~Listable(call.id) \/ offers[call.id][Current(call.id)] = <<>>
    /\ Raises
    /\ UNCHANGED <<world, failures, since, outdated>>

\* Any request may fail otherwise, or time out.
RequestRaises ==
    /\ \/ At("lookup") /\ accountsCache = None /\ subsCache = None
       \/ At("list") /\ call.todo # {}
       \/ At("fetch") /\ Key \notin DOMAIN connCache
    /\ Fails
    /\ Raises
    /\ UNCHANGED <<world, since, outdated>>

\* from_connection_string pings the server: the connection is made, or the ping raises.
Ping ==
    /\ At("ping")
    /\ call' = Idle
    /\ UNCHANGED <<world, failures, caches, history>>

Proceed ==
    \/ CachedSubscriptions \/ ListSubscriptions \/ CacheAccounts \/ Resolve
    \/ \E s \in Subs : ListAccounts(s) \/ SkipSubscription(s)
    \/ CachedString \/ FetchString \/ NothingToFetch \/ RequestRaises \/ Ping

Next ==
    \/ \E s \in Subs : ChangeSubscription(s)
    \/ \E id \in Ids : ChangeAccount(id) \/ RotateKeys(id)
    \/ \E id \in Ids, s \in Subs : MoveAccount(id, s)
    \/ \E a \in Asked, prefer \in BOOLEAN : Connect(a, prefer)
    \/ Connect(None, TRUE)
    \/ Proceed
    \/ Tick

Spec == Init /\ [][Next]_vars

\* Calls end, and time goes by between them.
FairSpec == Spec /\ WF_vars(Proceed) /\ SF_vars(Tick)
-----------------------------------------------------------------------------

Entry(values) == [left : 1..TTL, value : values]
Strings == [id : Ids, version : 1..(MaxChanges + 1), readOnly : BOOLEAN]

TypeOK ==
    /\ visible \subseteq Subs /\ accounts \subseteq Ids
    /\ \A id \in Ids : offers[id] \in Seq(Offers) /\ Len(offers[id]) \in 1..(changes + 1)
    /\ changes \in 0..MaxChanges /\ failures \in 0..MaxFailures
    /\ subsCache \in Entry(SUBSET Subs) \cup {None}
    /\ accountsCache \in Entry(SUBSET Ids) \cup {None}
    /\ Cardinality(DOMAIN connCache) <= MaxConnStrs
    /\ \A k \in DOMAIN connCache : connCache[k] \in Entry(Strings)
    /\ call = Idle \/ call.prefer \in BOOLEAN
    /\ At("ping") => call.string \in Strings

\* No account is offered to a caller for more than an hour, and what making the list took,
\* after it is gone, and no key is used for more than an hour after it has been rotated,
\* however often they are asked for.
StaleForAnHourAtMost ==
    /\ accountsCache # None =>
          \A id \in accountsCache.value : Listable(id) \/ since[id] < TTL + Lag
    /\ \A k \in DOMAIN connCache :
          LET s == connCache[k].value IN outdated[s.id][s.version] < TTL

\* An account that has been there for the life of two caches, the subscriptions' and its
\* own, and the making of a list, is listed, unless its subscription has been left out of
\* a list in that time, or had more accounts than the page that was read.
SettledAreListed ==
    accountsCache # None =>
        \A id \in Ids :
            Listable(id) /\ since[id] >= Settled /\ skipped[id[1]] >= Settled
                => id \in accountsCache.value

\* A caller that prefers to read gets a connection that can write only if none of the
\* strings ARM offered with the keys it uses, of those tagged mongo where any is, is
\* read-only, whoever asked for the account before.
ReadOnlyIsKept ==
    At("ping") =>
        LET s == call.string
            offered == offers[s.id][s.version]
        IN call.prefer /\ ~s.readOnly => \A i \in Pool(offered) : ~offered[i].readOnly

\* When the world has come to rest, the caches come to agree with it and stay so, the
\* partial lists and rotated keys in them included: as far as it is on one page.
CachesCatchUp ==
    <>[](/\ accountsCache # None =>
              /\ \A id \in accountsCache.value : Listable(id)
              /\ \A id \in Ids :
                    /\ Listable(id)
                    /\ Cardinality(visible) <= PageSize
                    /\ Cardinality(AccountsOf(id[1])) <= PageSize
                    => id \in accountsCache.value
         /\ \A k \in DOMAIN connCache : connCache[k].value.version = Current(k[1]))

\* The docstring of list_cosmos_accounts, azure_service.py:113: "Return all Cosmos DB
\* accounts visible to the current credential."  The list has those of the first page of
\* subscriptions that are on the first page of their subscription: violated.
AllAccountsListed ==
    accountsCache # None /\ changes = 0 /\ failures = 0
        => accountsCache.value = {id \in Ids : Listable(id)}
=============================================================================
