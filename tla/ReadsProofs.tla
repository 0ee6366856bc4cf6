------------------------------ MODULE ReadsProofs ------------------------------
(***************************************************************************)
(* Theorems about what is collected and read: the CODEF connector (what a  *)
(* case costs, how long the token of a lookup lives), the daily collector  *)
(* (tables are kept, names go, no notice is passed over), and the answers  *)
(* about an item (dearer bids cost more, screens agree), for any cases,    *)
(* courts, notices and prices.                                             *)
(***************************************************************************)
EXTENDS RegistryConnector, ScreenWords, DailyCollector, RightsProofs

-----------------------------------------------------------------------------
\* The connector

RegistrySpec == RegistryInit /\ [][RegistryNext]_registryVars

Fetches == [at : {"none", "authorizing", "asking"}, round : Int, since : Nat, dies : Int]

\* The clock and the fetches, each at most a margin old.
FetchTypes ==
  /\ now \in Nat /\ fetch \in [Key -> Fetches]
  /\ \A k \in Key : fetch[k].at = "none" => fetch[k] = NoFetch
  /\ \A k \in Key : fetch[k].at # "none" => fetch[k].since <= now /\ now <= fetch[k].since + Margin

\* A cached token outlives its expiry by the margin, and so does a lookup's.
TokensLast ==
  /\ token \in [expires : Int, dies : Int]
  /\ token.expires > 0 => token.dies >= token.expires + Margin
  /\ \A k \in Key : fetch[k].at = "asking" => fetch[k].dies > fetch[k].since + Margin

LookupInv == FetchTypes /\ TokensLast

\* A fetch that asks, and one that goes on.
AskingFrom(f, since, dies) == [f EXCEPT !.at = "asking", !.since = since, !.dies = dies]

LEMMA AskingFetch ==
  ASSUME NEW f \in Fetches, NEW since \in Nat, NEW dies \in Int
  PROVE  LET g == AskingFrom(f, since, dies)
         IN  g \in Fetches /\ g.at = "asking" /\ g.since = since /\ g.dies = dies
  BY DEF Fetches, AskingFrom

LEMMA NextRound ==
  ASSUME NEW f \in Fetches
  PROVE  [f EXCEPT !.round = @ + 1] \in Fetches
  BY DEF Fetches

\* The lemma both theorems rest on: what a lookup starts with.
LEMMA LookupStarts ==
  ASSUME LookupInv, NEW f \in Fetches
  PROVE  /\ Lookup(f) \in Fetches /\ Lookup(f).at \in {"authorizing", "asking"}
         /\ Lookup(f).since = now
         /\ Lookup(f).at = "asking" => Lookup(f).dies > now + Margin
<1> DEFINE asking == [f EXCEPT !.at = "asking", !.since = now, !.dies = token.dies]
           authorizing == [f EXCEPT !.at = "authorizing", !.since = now]
<1>1. token.expires > now => token.dies > now + Margin
  BY RegistryAssumption DEF LookupInv, FetchTypes, TokensLast
<1>2. /\ asking \in Fetches /\ asking.at = "asking" /\ asking.since = now
      /\ asking.dies = token.dies
      /\ authorizing \in Fetches /\ authorizing.at = "authorizing" /\ authorizing.since = now
  BY DEF Fetches, LookupInv, FetchTypes, TokensLast
<1>3. Lookup(f) = IF token.expires > now THEN asking ELSE authorizing
  BY DEF Lookup
<1> HIDE DEF asking, authorizing
<1> QED
  BY <1>1, <1>2, <1>3

LEMMA NoFetchRests == NoFetch \in Fetches /\ NoFetch.at = "none"
  BY DEF NoFetch, Fetches

\* One fetch goes on, or is over, in a step that leaves the clock alone.
LEMMA FetchMoves ==
  ASSUME LookupInv, NEW k \in Key, NEW f \in Fetches, fetch' = [fetch EXCEPT ![k] = f],
         UNCHANGED <<now, token>>, f = NoFetch \/ (f.at # "none" /\ f.since = now),
         f.at = "asking" => f.dies > now + Margin
  PROVE  LookupInv'
  BY NoFetchRests, RegistryAssumption DEF LookupInv, FetchTypes, TokensLast

LEMMA LookupKept == LookupInv /\ [RegistryNext]_registryVars => LookupInv'
<1> SUFFICES ASSUME LookupInv, [RegistryNext]_registryVars PROVE LookupInv'
  OBVIOUS
<1>1. ASSUME UNCHANGED <<fetch, token, now>> PROVE LookupInv'
  BY <1>1 DEF LookupInv, FetchTypes, TokensLast
<1>2. ASSUME NEW c \in Caller, NEW k \in Key, GetRegisteredRights(c, k) PROVE LookupInv'
  <2>1. /\ UNCHANGED <<token, now>>
        /\ fetch' = fetch \/ fetch' = [fetch EXCEPT ![k] = Lookup(NoFetch)]
    BY <1>2 DEF GetRegisteredRights
  <2> QED
    BY <1>1, <2>1, NoFetchRests, LookupStarts, FetchMoves
<1>3. ASSUME NEW k \in Key, Authorized(k) PROVE LookupInv'
  <2> PICK issued \in fetch[k].since .. now :
         /\ token' = [expires |-> ExpiresAt(fetch[k].since), dies |-> issued + Life]
         /\ fetch' = [fetch EXCEPT ![k] = [@ EXCEPT !.at = "asking", !.since = now,
                                                    !.dies = issued + Life]]
    BY <1>3 DEF Authorized
  <2> DEFINE f == AskingFrom(fetch[k], now, issued + Life)
  <2>1. /\ fetch[k] \in Fetches /\ fetch[k].at = "authorizing" /\ now \in Nat /\ now' = now
        /\ fetch[k].since \in Nat /\ fetch[k].since <= now /\ now <= fetch[k].since + Margin
    BY <1>3 DEF Authorized, LookupInv, FetchTypes, Fetches
  <2>2. /\ issued \in Nat /\ fetch[k].since <= issued
        /\ Life \in Nat /\ Margin \in Nat /\ Life > 2 * Margin
    <3>1. issued \in fetch[k].since .. now
      OBVIOUS
    <3> QED
      BY <2>1, <3>1, RegistryAssumption
  <2>3. f \in Fetches /\ f.at = "asking" /\ f.since = now /\ f.dies = issued + Life
    <3> SUFFICES ASSUME NEW g \in Fetches, NEW since \in Nat, NEW dies \in Int,
                        g = fetch[k], since = now, dies = issued + Life
                 PROVE  LET h == AskingFrom(g, since, dies)
                        IN  h \in Fetches /\ h.at = "asking" /\ h.since = since /\ h.dies = dies
      BY <2>1, <2>2
    <3> QED
      BY AskingFetch
  <2>4. fetch' = [fetch EXCEPT ![k] = f]
    BY DEF AskingFrom
  <2>5. f.dies > now + Margin
    BY <2>1, <2>2, <2>3
  <2>6. /\ token' \in [expires : Int, dies : Int]
        /\ token'.dies >= token'.expires + Margin
    BY <2>1, <2>2 DEF ExpiresAt
  <2> HIDE DEF f
  <2> QED
    BY <2>1, <2>2, <2>3, <2>4, <2>5, <2>6 DEF LookupInv, FetchTypes, TokensLast
<1>4. ASSUME NEW k \in Key, Refused(k) \/ Answered(k) PROVE LookupInv'
  <2>1. UNCHANGED <<token, now>> /\ fetch' = [fetch EXCEPT ![k] = NoFetch]
    BY <1>4 DEF Refused, Answered, Settled
  <2> QED
    BY <2>1, NoFetchRests, FetchMoves
<1>5. ASSUME NEW k \in Key, Continued(k) PROVE LookupInv'
  <2> DEFINE f == [fetch[k] EXCEPT !.round = @ + 1]
  <2>0. fetch[k] \in Fetches
    BY DEF LookupInv, FetchTypes
  <2>1. f \in Fetches
    BY <2>0, NextRound
  <2>2. /\ UNCHANGED <<token, now>>
        /\ fetch' = [fetch EXCEPT ![k] = Lookup(f)] \/ fetch' = [fetch EXCEPT ![k] = NoFetch]
    BY <1>5 DEF Continued, Settled
  <2> HIDE DEF f
  <2> QED
    BY <2>1, <2>2, NoFetchRests, LookupStarts, FetchMoves
<1>6. ASSUME NEW k \in Key, Invalidate(k) \/ RegistryChanges(k) PROVE LookupInv'
  BY <1>1, <1>6 DEF Invalidate, RegistryChanges
<1>7. ASSUME NEW c \in Caller, CallerDone(c) PROVE LookupInv'
  BY <1>1, <1>7 DEF CallerDone
<1>8. CASE TimeMoves
  <2>1. /\ now' = now + 1 /\ UNCHANGED <<fetch, token>>
        /\ \A k \in Key : fetch[k] # NoFetch => now - fetch[k].since < Margin
    BY <1>8 DEF TimeMoves
  <2>2. \A k \in Key : fetch[k].since \in Nat
    BY DEF LookupInv, FetchTypes, Fetches
  <2> QED
    BY <2>1, <2>2, NoFetchRests, RegistryAssumption DEF LookupInv, FetchTypes, TokensLast
<1>9. CASE UNCHANGED registryVars
  BY <1>1, <1>9 DEF registryVars
<1> QED
  BY <1>2, <1>3, <1>4, <1>5, <1>6, <1>7, <1>8, <1>9 DEF RegistryNext

LEMMA LookupInvAlways == RegistrySpec => []LookupInv
<1>1. RegistryInit => LookupInv
  BY NoFetchRests, RegistryAssumption DEF RegistryInit, LookupInv, FetchTypes, TokensLast
<1> QED
  BY <1>1, LookupKept, PTL DEF RegistrySpec

\* However many fetches share a token and however often one goes on, the token
\* a lookup carries is alive while it is under way (TokenOutlivesLookup).
THEOREM TokensOutliveLookups == RegistrySpec => []TokenOutlivesLookup
<1>1. LookupInv => TokenOutlivesLookup
  BY RegistryAssumption DEF LookupInv, FetchTypes, TokensLast, TokenOutlivesLookup, Fetches
<1> QED
  BY <1>1, LookupInvAlways, PTL

-----------------------------------------------------------------------------
(* What a case costs.                                                      *)

Callers == [at : {"idle", "waiting", "served"}, key : Key \cup {NoRights},
            billed : BOOLEAN, got : {Mapped(v) : v \in DOMAIN Documents} \cup {NoRights}]

Waiting(k) == {c \in Caller : caller[c].at = "waiting" /\ caller[c].key = k}
Billed(k) == {c \in Caller : caller[c].at = "waiting" /\ caller[c].key = k /\ caller[c].billed}

CostTypes ==
  /\ {begun, refused, dropped} \subseteq [Key -> Nat]
  /\ version \in [Key -> DOMAIN Documents] /\ caller \in [Caller -> Callers]
  /\ store \in [Key -> {Mapped(v) : v \in DOMAIN Documents} \cup {NoRights}]

\* A case at rest has paid for no more than failed or was dropped, a case that
\* is cached or under way for one more.
Covered(k) ==
  /\ fetch[k] = NoFetch \/ store[k] = NoRights
  /\ fetch[k] = NoFetch /\ store[k] = NoRights => begun[k] <= refused[k] + dropped[k]
  /\ begun[k] <= 1 + refused[k] + dropped[k]

\* Those who wait for a case wait for its fetch, and one of them is billed.
OneBilled(k) == IF fetch[k] = NoFetch THEN Waiting(k) = {}
                                      ELSE \E c \in Caller : Billed(k) = {c}

CostInv == LookupInv /\ CostTypes /\ \A k \in Key : Covered(k) /\ OneBilled(k)

LEMMA RestingRests == Resting \in Callers /\ Resting.at = "idle" /\ ~Resting.billed
  BY DEF Resting, Callers

\* A request that waits.
LEMMA CallerRecords ==
  ASSUME NEW k \in Key
  PROVE  /\ LET w == [Resting EXCEPT !.at = "waiting", !.key = k]
            IN  w \in Callers /\ w.at = "waiting" /\ w.key = k /\ ~w.billed
         /\ LET w == [Resting EXCEPT !.at = "waiting", !.key = k, !.billed = TRUE]
            IN  w \in Callers /\ w.at = "waiting" /\ w.key = k /\ w.billed
<1> QED
  BY RestingRests DEF Callers, Resting

\* A step of callers in which nobody begins or ends to wait.
LEMMA SameWaiters ==
  ASSUME \A c \in Caller :
           /\ caller[c].at = "waiting" <=> caller'[c].at = "waiting"
           /\ caller[c].at = "waiting" => caller'[c] = caller[c]
  PROVE  \A k \in Key : Waiting(k)' = Waiting(k) /\ Billed(k)' = Billed(k)
  BY DEF Waiting, Billed

\* A fetch that is over: those who waited for it are served.
LEMMA SettledServes ==
  ASSUME CostInv, NEW k \in Key,
         NEW a \in {Mapped(v) : v \in DOMAIN Documents} \cup {NoRights}, Settled(k, a)
  PROVE  /\ caller' \in [Caller -> Callers] /\ fetch'[k] = NoFetch
         /\ \A j \in Key \ {k} : fetch'[j] = fetch[j]
         /\ Waiting(k)' = {}
         /\ \A j \in Key \ {k} : Waiting(j)' = Waiting(j) /\ Billed(j)' = Billed(j)
<1> DEFINE served(r) == [r EXCEPT !.at = "served", !.got = a]
<1>1. \A r \in Callers : served(r) \in Callers /\ served(r).at = "served"
  BY DEF Callers
<1>2. /\ caller \in [Caller -> Callers] /\ fetch \in [Key -> Fetches]
      /\ fetch' = [fetch EXCEPT ![k] = NoFetch]
      /\ caller' = [c \in Caller |-> IF caller[c].at = "waiting" /\ caller[c].key = k
                                     THEN served(caller[c]) ELSE caller[c]]
  BY DEF CostInv, CostTypes, LookupInv, FetchTypes, Settled
<1> HIDE DEF served
<1>3. \A c \in Caller :
        /\ caller'[c] \in Callers
        /\ IF caller[c].at = "waiting" /\ caller[c].key = k
             THEN caller'[c].at = "served" ELSE caller'[c] = caller[c]
  BY <1>1, <1>2
<1>4. caller' \in [Caller -> Callers]
  BY <1>2, <1>3
<1> QED
  BY <1>2, <1>3, <1>4 DEF Waiting, Billed

\* A fetch under way that stays under way.
LEMMA GoesOn ==
  ASSUME CostInv, LookupInv', NEW k \in Key, fetch \in [Key -> Fetches], fetch[k] # NoFetch,
         NEW f, f # NoFetch, fetch' = [fetch EXCEPT ![k] = f],
         UNCHANGED <<store, caller, version, begun, refused, dropped>>
  PROVE  CostInv'
<1>1. \A j \in Key : fetch'[j] = NoFetch <=> fetch[j] = NoFetch
  OBVIOUS
<1> QED
  BY <1>1 DEF CostInv, CostTypes, Covered, OneBilled, Waiting, Billed

\* A request that neither waited nor waits.
LEMMA NobodyWaits ==
  ASSUME CostInv, LookupInv', NEW c \in Caller, NEW r \in Callers,
         caller[c].at # "waiting", r.at # "waiting", caller' = [caller EXCEPT ![c] = r],
         UNCHANGED <<store, fetch, version, begun, refused, dropped>>
  PROVE  CostInv'
<1>1. caller \in [Caller -> Callers]
  BY DEF CostInv, CostTypes
<1>2. \A k \in Key : Waiting(k)' = Waiting(k) /\ Billed(k)' = Billed(k)
  BY <1>1, SameWaiters
<1> QED
  BY <1>1, <1>2 DEF CostInv, CostTypes, Covered, OneBilled

LEMMA CostKept == CostInv /\ [RegistryNext]_registryVars => CostInv'
<1> SUFFICES ASSUME CostInv, [RegistryNext]_registryVars PROVE CostInv'
  OBVIOUS
<1>0. LookupInv'
  BY LookupKept DEF CostInv
\* Steps that leave the costs, the cache and the fetches of the cases alone.
<1>1. ASSUME UNCHANGED <<store, begun, refused, dropped>>,
             version' \in [Key -> DOMAIN Documents], caller' \in [Caller -> Callers],
             \A k \in Key : fetch'[k] = NoFetch <=> fetch[k] = NoFetch,
             \A k \in Key : OneBilled(k)'
      PROVE  CostInv'
  BY <1>0, <1>1 DEF CostInv, CostTypes, Covered
<1>2. ASSUME NEW c \in Caller, NEW k \in Key, GetRegisteredRights(c, k) PROVE CostInv'
  <2>1. /\ caller[c].at = "idle" /\ caller \in [Caller -> Callers] /\ fetch \in [Key -> Fetches]
        /\ UNCHANGED <<version, store, refused, dropped>>
    BY <1>2 DEF GetRegisteredRights, CostInv, CostTypes, LookupInv, FetchTypes
  \* Served from the cache.
  <2>2. ASSUME store[k] # NoRights, UNCHANGED <<fetch, begun>>,
               caller' = [caller EXCEPT ![c] = [Resting EXCEPT !.at = "served", !.key = k,
                                                               !.got = store[k]]]
        PROVE  CostInv'
    <3> DEFINE w == [Resting EXCEPT !.at = "served", !.key = k, !.got = store[k]]
    <3>1. w \in Callers /\ w.at = "served"
      <4>1. store[k] \in {Mapped(v) : v \in DOMAIN Documents} \cup {NoRights}
        BY DEF CostInv, CostTypes
      <4> QED
        BY <4>1, RestingRests DEF Callers
    <3> HIDE DEF w
    <3>2. caller' = [caller EXCEPT ![c] = w]
      BY <2>2 DEF w
    <3> QED
      BY <1>0, <2>1, <2>2, <3>1, <3>2, NobodyWaits
  \* Joins a fetch.
  <2>3. ASSUME fetch[k] # NoFetch, UNCHANGED <<fetch, begun>>,
               caller' = [caller EXCEPT ![c] = [Resting EXCEPT !.at = "waiting", !.key = k]]
        PROVE  CostInv'
    <3> DEFINE w == [Resting EXCEPT !.at = "waiting", !.key = k]
    <3>1. w \in Callers /\ w.at = "waiting" /\ w.key = k /\ ~w.billed
      BY CallerRecords
    <3> HIDE DEF w
    <3>2. caller' = [caller EXCEPT ![c] = w]
      BY <2>3 DEF w
    <3>3. /\ caller' \in [Caller -> Callers]
          /\ \A j \in Key : Billed(j)' = Billed(j)
          /\ \A j \in Key \ {k} : Waiting(j)' = Waiting(j)
      BY <2>1, <3>1, <3>2 DEF Waiting, Billed
    <3>4. \A j \in Key : OneBilled(j)'
      BY <2>3, <3>3 DEF CostInv, OneBilled
    <3> QED
      BY <1>1, <2>1, <2>3, <3>3, <3>4 DEF CostInv, CostTypes
  \* Begins one.
  <2>4. ASSUME store[k] = NoRights, fetch[k] = NoFetch,
               fetch' = [fetch EXCEPT ![k] = Lookup(NoFetch)],
               begun' = [begun EXCEPT ![k] = @ + 1],
               caller' = [caller EXCEPT ![c] = [Resting EXCEPT !.at = "waiting", !.key = k,
                                                               !.billed = TRUE]]
        PROVE  CostInv'
    <3> DEFINE w == [Resting EXCEPT !.at = "waiting", !.key = k, !.billed = TRUE]
    <3>1. w \in Callers /\ w.at = "waiting" /\ w.key = k /\ w.billed
      BY CallerRecords
    <3> HIDE DEF w
    <3>2. caller' = [caller EXCEPT ![c] = w]
      BY <2>4 DEF w
    <3>3. fetch'[k] # NoFetch /\ \A j \in Key \ {k} : fetch'[j] = fetch[j]
      BY <2>1, <2>4, NoFetchRests, LookupStarts DEF CostInv
    <3>4. Waiting(k) = {}
      BY <2>4 DEF CostInv, OneBilled
    <3>5. /\ caller' \in [Caller -> Callers] /\ Billed(k)' = {c}
          /\ \A j \in Key \ {k} : Waiting(j)' = Waiting(j) /\ Billed(j)' = Billed(j)
      <4>1. /\ caller' \in [Caller -> Callers] /\ caller'[c] = w
            /\ \A d \in Caller \ {c} : caller'[d] = caller[d]
        BY <2>1, <3>1, <3>2
      <4>2. \A d \in Caller : ~(caller[d].at = "waiting" /\ caller[d].key = k)
        BY <3>4 DEF Waiting
      <4>3. Billed(k)' = {c}
        BY <3>1, <4>1, <4>2 DEF Billed
      <4>4. \A j \in Key \ {k} : Waiting(j)' = Waiting(j) /\ Billed(j)' = Billed(j)
        BY <2>1, <3>1, <4>1 DEF Waiting, Billed
      <4> QED
        BY <4>1, <4>3, <4>4
    <3>6. \A j \in Key : OneBilled(j)'
      BY <3>3, <3>5 DEF CostInv, OneBilled
    <3>7. /\ begun' \in [Key -> Nat] /\ begun'[k] = begun[k] + 1
          /\ \A j \in Key \ {k} : begun'[j] = begun[j]
      BY <2>4 DEF CostInv, CostTypes
    <3>8. CostTypes'
      BY <2>1, <3>5, <3>7 DEF CostInv, CostTypes
    <3>9. \A j \in Key : Covered(j)'
      <4>1. begun[k] \in Nat /\ refused[k] \in Nat /\ dropped[k] \in Nat
        BY DEF CostInv, CostTypes
      <4>2. Covered(k)'
        BY <2>1, <2>4, <3>3, <3>7, <4>1 DEF CostInv, Covered
      <4>3. ASSUME NEW j \in Key \ {k} PROVE Covered(j)'
        BY <2>1, <3>3, <3>7 DEF CostInv, Covered
      <4> QED
        BY <4>2, <4>3
    <3> QED
      BY <1>0, <3>6, <3>8, <3>9 DEF CostInv
  <2> QED
    BY <1>2, <2>2, <2>3, <2>4 DEF GetRegisteredRights
<1>3. ASSUME NEW k \in Key, Authorized(k) PROVE CostInv'
  <2>1. /\ fetch[k].at = "authorizing" /\ fetch[k] \in Fetches
        /\ UNCHANGED <<store, caller, version, begun, refused, dropped>>
        /\ \E d \in Nat : fetch' = [fetch EXCEPT ![k] = AskingFrom(fetch[k], now, d)]
    <3> PICK issued \in fetch[k].since .. now :
           fetch' = [fetch EXCEPT ![k] = AskingFrom(fetch[k], now, issued + Life)]
      BY <1>3 DEF Authorized, AskingFrom
    <3>1. fetch[k] \in Fetches
      BY DEF CostInv, LookupInv, FetchTypes
    <3>2. issued + Life \in Nat
      BY <3>1, RegistryAssumption DEF Fetches
    <3> QED
      BY <1>3, <3>1, <3>2 DEF Authorized
  <2>2. PICK d \in Nat : fetch' = [fetch EXCEPT ![k] = AskingFrom(fetch[k], now, d)]
    BY <2>1
  <2>3. AskingFrom(fetch[k], now, d) # NoFetch
    <3>1. now \in Nat /\ d \in Int /\ fetch[k] \in Fetches
      BY DEF CostInv, LookupInv, FetchTypes
    <3>2. AskingFrom(fetch[k], now, d).at = "asking"
      BY <3>1, AskingFetch
    <3> QED
      BY <3>2, NoFetchRests
  <2>4. fetch \in [Key -> Fetches] /\ fetch[k] # NoFetch
    BY <2>1, NoFetchRests DEF CostInv, LookupInv, FetchTypes
  <2> QED
    BY <1>0, <2>1, <2>2, <2>3, <2>4, GoesOn
<1>4. ASSUME NEW k \in Key, Settled(k, NoRights), refused' = [refused EXCEPT ![k] = @ + 1],
             UNCHANGED <<store, version, begun, dropped>>
      PROVE  CostInv'
  <2>1. /\ caller' \in [Caller -> Callers] /\ fetch'[k] = NoFetch
        /\ \A j \in Key \ {k} : fetch'[j] = fetch[j]
        /\ Waiting(k)' = {}
        /\ \A j \in Key \ {k} : Waiting(j)' = Waiting(j) /\ Billed(j)' = Billed(j)
    BY <1>4, SettledServes
  <2>2. refused' \in [Key -> Nat] /\ refused'[k] = refused[k] + 1
        /\ \A j \in Key \ {k} : refused'[j] = refused[j]
    BY <1>4 DEF CostInv, CostTypes
  <2>3. CostTypes'
    BY <1>4, <2>1, <2>2 DEF CostInv, CostTypes
  <2>4. \A j \in Key : OneBilled(j)'
    BY <2>1 DEF CostInv, OneBilled
  <2>5. \A j \in Key : Covered(j)'
    <3>1. ASSUME NEW j \in Key \ {k} PROVE Covered(j)'
      BY <1>4, <2>1, <2>2 DEF CostInv, Covered
    <3>2. begun[k] \in Nat /\ refused[k] \in Nat /\ dropped[k] \in Nat
      BY DEF CostInv, CostTypes
    <3>3. Covered(k)'
      BY <1>4, <2>1, <2>2, <3>2 DEF CostInv, Covered
    <3> QED
      BY <3>1, <3>3
  <2> QED
    BY <1>0, <2>3, <2>4, <2>5 DEF CostInv
<1>5. ASSUME NEW k \in Key, Continued(k) PROVE CostInv'
  <2> DEFINE f == [fetch[k] EXCEPT !.round = @ + 1]
  <2>1. fetch \in [Key -> Fetches] /\ fetch[k] \in Fetches /\ fetch[k] # NoFetch
    BY <1>5, NoFetchRests DEF Continued, CostInv, LookupInv, FetchTypes
  <2>2. Lookup(f) # NoFetch
    <3>1. f \in Fetches
      BY <2>1, NextRound
    <3> HIDE DEF f
    <3>2. Lookup(f).at \in {"authorizing", "asking"}
      BY <3>1, LookupStarts DEF CostInv
    <3> QED
      BY <3>2, NoFetchRests
  <2>3. /\ UNCHANGED <<store, version, begun, dropped>>
        /\ \/ UNCHANGED <<caller, refused>> /\ fetch' = [fetch EXCEPT ![k] = Lookup(f)]
           \/ Settled(k, NoRights) /\ refused' = [refused EXCEPT ![k] = @ + 1]
    BY <1>5 DEF Continued
  <2> HIDE DEF f
  <2> QED
    BY <1>0, <1>4, <2>1, <2>2, <2>3, GoesOn
<1>6. ASSUME NEW k \in Key, Answered(k) PROVE CostInv'
  <2> DEFINE reply == Mapped(version[k])
  <2>1. /\ reply \in {Mapped(v) : v \in DOMAIN Documents} /\ reply # NoRights
        /\ fetch[k] # NoFetch
    BY <1>6, NoFetchRests, AnswersAssumption DEF Answered, CostInv, CostTypes
  <2>2. \/ /\ Settled(k, NoRights) /\ refused' = [refused EXCEPT ![k] = @ + 1]
           /\ UNCHANGED <<store, version, begun, dropped>>
        \/ /\ Settled(k, reply) /\ store' = [store EXCEPT ![k] = reply]
           /\ UNCHANGED <<version, begun, refused, dropped>>
    BY <1>6 DEF Answered
  <2> HIDE DEF reply
  <2>3. CASE Settled(k, reply) /\ store' = [store EXCEPT ![k] = reply]
             /\ UNCHANGED <<version, begun, refused, dropped>>
    <3>1. /\ caller' \in [Caller -> Callers] /\ fetch'[k] = NoFetch
          /\ \A j \in Key \ {k} : fetch'[j] = fetch[j]
          /\ Waiting(k)' = {}
          /\ \A j \in Key \ {k} : Waiting(j)' = Waiting(j) /\ Billed(j)' = Billed(j)
      BY <2>1, <2>3, SettledServes
    <3>2. /\ store' \in [Key -> {Mapped(v) : v \in DOMAIN Documents} \cup {NoRights}]
          /\ store'[k] # NoRights /\ \A j \in Key \ {k} : store'[j] = store[j]
      BY <2>1, <2>3 DEF CostInv, CostTypes
    <3>3. CostTypes'
      BY <2>3, <3>1, <3>2 DEF CostInv, CostTypes
    <3>4. \A j \in Key : OneBilled(j)'
      BY <3>1 DEF CostInv, OneBilled
    <3>5. \A j \in Key : Covered(j)'
      BY <2>3, <3>1, <3>2 DEF CostInv, Covered
    <3> QED
      BY <1>0, <3>3, <3>4, <3>5 DEF CostInv
  <2> QED
    BY <1>4, <2>2, <2>3
<1>7. ASSUME NEW k \in Key, Invalidate(k) PROVE CostInv'
  <2>1. /\ dropped' = [dropped EXCEPT ![k] = @ + 1] /\ store' = [store EXCEPT ![k] = NoRights]
        /\ UNCHANGED <<fetch, caller, version, begun, refused>>
    BY <1>7 DEF Invalidate
  <2>2. /\ dropped' \in [Key -> Nat] /\ dropped'[k] = dropped[k] + 1
        /\ \A j \in Key \ {k} : dropped'[j] = dropped[j]
    BY <2>1 DEF CostInv, CostTypes
  <2>3. /\ store' \in [Key -> {Mapped(v) : v \in DOMAIN Documents} \cup {NoRights}]
        /\ store'[k] = NoRights /\ \A j \in Key \ {k} : store'[j] = store[j]
    BY <2>1 DEF CostInv, CostTypes
  <2>4. CostTypes'
    BY <2>1, <2>2, <2>3 DEF CostInv, CostTypes
  <2>5. \A j \in Key : OneBilled(j)'
    BY <2>1 DEF CostInv, OneBilled, Waiting, Billed
  <2>6. \A j \in Key : Covered(j)'
    <3>1. begun[k] \in Nat /\ refused[k] \in Nat /\ dropped[k] \in Nat
      BY DEF CostInv, CostTypes
    <3>2. Covered(k)'
      BY <2>1, <2>2, <2>3, <3>1 DEF CostInv, Covered
    <3>3. ASSUME NEW j \in Key \ {k} PROVE Covered(j)'
      BY <2>1, <2>2, <2>3 DEF CostInv, Covered
    <3> QED
      BY <3>2, <3>3
  <2> QED
    BY <1>0, <2>4, <2>5, <2>6 DEF CostInv
<1>8. ASSUME NEW k \in Key, RegistryChanges(k) PROVE CostInv'
  <2>1. version' \in [Key -> DOMAIN Documents]
    BY <1>8, AnswersAssumption, RegistryAssumption DEF RegistryChanges, CostInv, CostTypes
  <2>2. UNCHANGED <<store, fetch, caller, begun, refused, dropped>>
    BY <1>8 DEF RegistryChanges
  <2> QED
    BY <1>1, <2>1, <2>2 DEF CostInv, CostTypes, OneBilled, Waiting, Billed
<1>9. ASSUME NEW c \in Caller, CallerDone(c) PROVE CostInv'
  <2>1. /\ caller[c].at = "served" /\ caller' = [caller EXCEPT ![c] = Resting]
        /\ UNCHANGED <<store, fetch, version, begun, refused, dropped>>
    BY <1>9 DEF CallerDone
  <2>2. Resting \in Callers /\ Resting.at = "idle"
    BY RestingRests
  <2> QED
    BY <1>0, <2>1, <2>2, NobodyWaits
<1>10. ASSUME UNCHANGED <<store, fetch, caller, version, begun, refused, dropped>>
       PROVE  CostInv'
  BY <1>1, <1>10 DEF CostInv, CostTypes, OneBilled, Waiting, Billed
<1> QED
  BY <1>2, <1>3, <1>4, <1>5, <1>6, <1>7, <1>8, <1>9, <1>10
     DEF RegistryNext, registryVars, Refused, TimeMoves

\* However requests, failures and invalidations meet, a case is paid for once,
\* and once more for each failure and each invalidation (PaidOnce).
THEOREM CasesArePaidOnce == RegistrySpec => []PaidOnce
<1>1. RegistryInit => CostInv
  <2> SUFFICES ASSUME RegistryInit PROVE CostInv
    OBVIOUS
  <2>1. LookupInv
    BY NoFetchRests, RegistryAssumption DEF RegistryInit, LookupInv, FetchTypes, TokensLast
  <2>2. CostTypes
    BY RestingRests, AnswersAssumption, RegistryAssumption DEF RegistryInit, CostTypes
  <2>3. \A k \in Key : Covered(k) /\ OneBilled(k)
    BY RestingRests DEF RegistryInit, Covered, OneBilled, Waiting
  <2> QED
    BY <2>1, <2>2, <2>3 DEF CostInv
<1>2. CostInv => PaidOnce
  <2>1. \A c \in Caller : Cardinality({c}) = 1
    BY FS_Singleton
  <2> QED
    BY <2>1 DEF CostInv, Covered, OneBilled, Billed, PaidOnce
<1> QED
  BY <1>1, <1>2, CostKept, PTL DEF RegistrySpec

-----------------------------------------------------------------------------
\* What a document says

Keyword(m) == Purposes[m][1]

\* The keywords of the table.
LEMMA Places == DOMAIN Purposes = 1..11 /\ Len(Purposes) = 11
  BY DEF Purposes

LEMMA Keywords ==
  /\ Keyword(1) = "root_mortgage"
  /\ Keyword(2) = "mortgage"
  /\ Keyword(3) = "provisional_seizure"
  /\ Keyword(4) = "seizure"
  /\ Keyword(5) = "collateral_provisional_registration"
  /\ Keyword(6) = "auction_commencement"
  /\ Keyword(7) = "leasehold"
  /\ Keyword(8) = "superficies"
  /\ Keyword(9) = "easement"
  /\ Keyword(10) = "provisional_registration"
  /\ Keyword(11) = "provisional_disposition"
<1>1. Keyword(1) = "root_mortgage"
  BY DEF Keyword, Purposes
<1>2. Keyword(2) = "mortgage"
  BY DEF Keyword, Purposes
<1>3. Keyword(3) = "provisional_seizure"
  BY DEF Keyword, Purposes
<1>4. Keyword(4) = "seizure"
  BY DEF Keyword, Purposes
<1>5. Keyword(5) = "collateral_provisional_registration"
  BY DEF Keyword, Purposes
<1>6. Keyword(6) = "auction_commencement"
  BY DEF Keyword, Purposes
<1>7. Keyword(7) = "leasehold"
  BY DEF Keyword, Purposes
<1>8. Keyword(8) = "superficies"
  BY DEF Keyword, Purposes
<1>9. Keyword(9) = "easement"
  BY DEF Keyword, Purposes
<1>10. Keyword(10) = "provisional_registration"
  BY DEF Keyword, Purposes
<1>11. Keyword(11) = "provisional_disposition"
  BY DEF Keyword, Purposes
<1> QED
  BY <1>1, <1>2, <1>3, <1>4, <1>5, <1>6, <1>7, <1>8, <1>9, <1>10, <1>11

\* The keyword found for a purpose.
LEMMA PurposeFound ==
  ASSUME NEW purpose
  PROVE  LET I == {i \in 1..11 : Keyword(i) \in Within(purpose)}
         IN  /\ I = {} => ResolvePurpose(purpose) = "none"
             /\ \A m \in I : (\A i \in I : m <= i) => ResolvePurpose(purpose) = Purposes[m][2]
<1> DEFINE I == {i \in 1..11 : Keyword(i) \in Within(purpose)}
<1>1. ResolvePurpose(purpose) = LET match == IF I # {} THEN Min(I) ELSE 0
                                IN  IF match = 0 THEN "none" ELSE Purposes[match][2]
  BY Places, Zenon DEF ResolvePurpose, SelectInSeq, Keyword
<1>2. I \subseteq 1..11
  OBVIOUS
<1> HIDE DEF I
<1>3. ASSUME NEW m \in I, \A i \in I : m <= i PROVE Min(I) = m /\ m # 0
  <2>1. \A x \in I : (\A y \in I : x <= y) <=> x = m
    <3>1. \A x, y \in 1..11 : x <= y /\ y <= x => x = y
      OBVIOUS
    <3> QED
      BY <1>2, <1>3, <3>1
  <2> DEFINE Lowest(x) == \A y \in I : x <= y
  <2>2. Min(I) = CHOOSE x \in I : Lowest(x)
    BY DEF Min
  <2>3. \A x \in I : Lowest(x) <=> x = m
    BY <2>1
  <2> HIDE DEF Lowest
  <2>4. Min(I) = m
    BY <2>2, <2>3
  <2> QED
    BY <1>2, <2>4
<1> QED
  BY <1>1, <1>3 DEF I

\* Three purposes contain the keyword of another.
LEMMA KeywordsWithin ==
  ASSUME NEW purpose, NEW word
  PROVE  word \in Within(purpose) <=>
           \/ word = purpose
           \/ purpose = "root_mortgage" /\ word = "mortgage"
           \/ purpose = "provisional_seizure" /\ word = "seizure"
           \/ purpose = "collateral_provisional_registration" /\ word = "provisional_registration"
<1>1. CASE purpose = "root_mortgage"
  <2>1. Within(purpose) = {purpose} \union {"mortgage"}
    BY <1>1, Zenon DEF Within
  <2> QED
    BY <1>1, <2>1
<1>2. CASE purpose = "provisional_seizure"
  <2>1. Within(purpose) = {purpose} \union {"seizure"}
    BY <1>2, Zenon DEF Within
  <2> QED
    BY <1>2, <2>1
<1>3. CASE purpose = "collateral_provisional_registration"
  <2>1. Within(purpose) = {purpose} \union {"provisional_registration"}
    BY <1>3, Zenon DEF Within
  <2> QED
    BY <1>3, <2>1
<1>4. CASE purpose \notin {"root_mortgage", "provisional_seizure",
                         "collateral_provisional_registration"}
  <2>1. Within(purpose) = {purpose} \union {}
    BY <1>4, Zenon DEF Within
  <2> QED
    BY <1>4, <2>1
<1> QED
  BY <1>1, <1>2, <1>3, <1>4

\* A purpose of the table has the type beside it.
LEMMA PurposeHasItsType ==
  ASSUME NEW m \in 1..11 PROVE ResolvePurpose(Keyword(m)) = Purposes[m][2]
<1> DEFINE I == {i \in 1..11 : Keyword(i) \in Within(Keyword(m))}
<1>1. m \in I
  BY KeywordsWithin
<1>2. \A i \in I : m <= i
  BY Keywords, KeywordsWithin
<1> QED
  BY <1>1, <1>2, PurposeFound

\* A row without a purpose is out of scope.
LEMMA NoPurpose == ResolvePurpose("none") = "none"
<1>1. \A i \in 1..11 : Keyword(i) \notin Within("none")
  BY Keywords, KeywordsWithin
<1> QED
  BY <1>1, PurposeFound

\* The rights of the first k rows: one for each row in scope, at its place.
Scoped(rows, k) == {i \in 1..k : InScope(rows[i])}
RightsOf(rows, k, rights) ==
  /\ rights \in Seq({ResolvePurpose(Column(rows[i])) : i \in DOMAIN rows})
  /\ Len(rights) = Cardinality(Scoped(rows, k))
  /\ \A i \in Scoped(rows, k) :
       /\ Cardinality(Scoped(rows, i)) \in 1..Len(rights)
       /\ rights[Cardinality(Scoped(rows, i))] = ResolvePurpose(Column(rows[i]))

LEMMA ScopedCounts ==
  ASSUME NEW rows, NEW k \in Nat
  PROVE  /\ Cardinality(Scoped(rows, k)) \in Nat
         /\ Cardinality(Scoped(rows, k + 1)) =
              Cardinality(Scoped(rows, k)) + IF InScope(rows[k + 1]) THEN 1 ELSE 0
<1>1. IsFiniteSet(Scoped(rows, k))
  <2>1. IsFiniteSet(1..k) /\ Scoped(rows, k) \subseteq 1..k
    BY FS_Interval DEF Scoped
  <2> QED
    BY <2>1, FS_Subset
<1>2. Cardinality(Scoped(rows, k)) \in Nat
  BY <1>1, FS_CardinalityType
<1>3. \A i \in Nat : i \in 1..(k + 1) <=> i \in 1..k \/ i = k + 1
  OBVIOUS
<1>4. CASE InScope(rows[k + 1])
  <2>1. Scoped(rows, k + 1) = Scoped(rows, k) \union {k + 1} /\ k + 1 \notin Scoped(rows, k)
    BY <1>4 DEF Scoped
  <2>2. Cardinality(Scoped(rows, k + 1)) = Cardinality(Scoped(rows, k)) + 1
    BY <1>1, <2>1, FS_AddElement
  <2> QED
    BY <1>2, <1>4, <2>2
<1>5. CASE ~InScope(rows[k + 1])
  <2>1. Scoped(rows, k + 1) = Scoped(rows, k)
    BY <1>5 DEF Scoped
  <2> QED
    BY <1>2, <1>5, <2>1
<1> QED
  BY <1>2, <1>4, <1>5

LEMMA RowKept ==
  ASSUME NEW rows, NEW n \in Nat, DOMAIN rows = 1..n, NEW k \in 0..(n - 1), NEW rights,
         RightsOf(rows, k, rights)
  PROVE  RightsOf(rows, k + 1, KeepRight(rights, rows[k + 1]))
<1> DEFINE T == {ResolvePurpose(Column(rows[i])) : i \in DOMAIN rows}
           right == ResolvePurpose(Column(rows[k + 1]))
           C(i) == Cardinality(Scoped(rows, i))
<1>1. k \in Nat /\ k + 1 \in 1..n
  OBVIOUS
<1>2. right \in T
  BY <1>1
<1>3. C(k) \in Nat /\ C(k + 1) = C(k) + IF InScope(rows[k + 1]) THEN 1 ELSE 0
  BY <1>1, ScopedCounts
<1>4. \A i \in Scoped(rows, k + 1) : i \in Scoped(rows, k) \/ (i = k + 1 /\ InScope(rows[k + 1]))
  BY <1>1 DEF Scoped
<1>5. rights \in Seq(T) /\ Len(rights) = C(k)
      /\ \A i \in Scoped(rows, k) : C(i) \in 1..C(k) /\ rights[C(i)] = ResolvePurpose(Column(rows[i]))
  BY DEF RightsOf
<1>6. CASE InScope(rows[k + 1])
  <2> HIDE DEF right, T, C
  <2>1. KeepRight(rights, rows[k + 1]) = Append(rights, right)
    BY <1>6 DEF KeepRight, right
  <2> DEFINE more == Append(rights, right)
  <2>2. /\ more \in Seq(T) /\ Len(more) = C(k) + 1
        /\ \A i \in 1..C(k) : more[i] = rights[i]
        /\ more[C(k) + 1] = right
    BY <1>2, <1>5
  <2> HIDE DEF more
  <2>3. ASSUME NEW i \in Scoped(rows, k + 1)
        PROVE  C(i) \in 1..Len(more) /\ more[C(i)] = ResolvePurpose(Column(rows[i]))
    <3>1. CASE i \in Scoped(rows, k)
      <4>1. C(i) \in 1..C(k) /\ more[C(i)] = ResolvePurpose(Column(rows[i]))
        BY <1>5, <2>2, <3>1
      <4> QED
        BY <1>3, <2>2, <4>1
    <3>2. CASE i = k + 1
      BY <1>3, <1>6, <2>2, <3>2 DEF right
    <3> QED
      BY <1>4, <3>1, <3>2
  <2> QED
    BY <1>3, <1>6, <2>1, <2>2, <2>3 DEF RightsOf, T, C, more
<1>7. CASE ~InScope(rows[k + 1])
  BY <1>3, <1>4, <1>5, <1>7 DEF KeepRight, RightsOf
<1> QED
  BY <1>6, <1>7

LEMMA RightsAreMapped ==
  ASSUME NEW rows, NEW n \in Nat, DOMAIN rows = 1..n, Len(rows) = n
  PROVE  RightsOf(rows, n, FoldLeft(KeepRight, << >>, rows))
<1> DEFINE D == 1..n
           V == Seq({ResolvePurpose(Column(rows[i])) : i \in D})
           Folds(h) == h = [s \in SUBSET D |-> IF s = {} THEN << >>
                                               ELSE KeepRight(h[s \ {Max(s)}], rows[Max(s)])]
           iter == CHOOSE h : Folds(h)
           steps == [p \in V \X D |-> KeepRight(p[1], rows[p[2]])]
<1>1. FoldLeft(KeepRight, << >>, rows) = iter[D]
  BY DEF FoldLeft, MapThenFoldSet
<1>2. << >> \in V
  OBVIOUS
<1>3. steps \in [V \X D -> V]
  <2>1. \A p \in V, i \in D : KeepRight(p, rows[i]) \in V
    BY DEF KeepRight
  <2> HIDE DEF V
  <2> QED
    BY <2>1
<1> HIDE DEF V
<1>4. PICK h \in [SUBSET D -> V] : FoldOver(steps, << >>, D, h)
  <2> HIDE DEF steps
  <2> QED
    BY <1>2, <1>3, FoldInside
<1>5. Folds(h)
  <2>1. ASSUME NEW s \in SUBSET D, s # {}
        PROVE  steps[h[s \ {Max(s)}], Max(s)] = KeepRight(h[s \ {Max(s)}], rows[Max(s)])
    <3>1. Max(s) \in D
      BY <2>1, LargestPlace
    <3>2. h[s \ {Max(s)}] \in V
      OBVIOUS
    <3> QED
      BY <3>1, <3>2
  <2> HIDE DEF steps
  <2> QED
    BY <1>4, <2>1 DEF FoldOver
<1>6. Folds(iter)
  BY <1>5
<1> HIDE DEF iter
<1> DEFINE K == {k \in Nat : k <= n => RightsOf(rows, k, iter[1..k])}
<1>7. 0 \in K
  <2>1. 1..0 = {} /\ Scoped(rows, 0) = {}
    BY DEF Scoped
  <2>2. iter[{}] = << >>
    BY <1>6
  <2>3. << >> \in Seq({ResolvePurpose(Column(rows[i])) : i \in DOMAIN rows}) /\ Len(<< >>) = 0
    OBVIOUS
  <2>4. RightsOf(rows, 0, << >>)
    BY <2>1, <2>3, FS_EmptySet DEF RightsOf
  <2> QED
    BY <2>1, <2>2, <2>4
<1>8. ASSUME NEW k \in K PROVE k + 1 \in K
  <2> SUFFICES ASSUME k + 1 <= n PROVE RightsOf(rows, k + 1, iter[1..(k + 1)])
    OBVIOUS
  <2>1. k \in 0..(n - 1) /\ RightsOf(rows, k, iter[1..k])
    OBVIOUS
  <2>2. /\ 1..(k + 1) \in SUBSET D /\ 1..(k + 1) # {}
        /\ Max(1..(k + 1)) = k + 1 /\ (1..(k + 1)) \ {k + 1} = 1..k /\ k + 1 \in D
    BY <2>1, FirstPlaces
  <2>3. iter[1..(k + 1)] = KeepRight(iter[1..k], rows[k + 1])
    BY <1>6, <2>2
  <2> QED
    BY <2>1, <2>3, RowKept
<1>9. K \in SUBSET Nat
  OBVIOUS
<1> HIDE DEF K
<1>10. n \in K
  BY <1>7, <1>8, <1>9, AllNumbers
<1> QED
  BY <1>1, <1>10 DEF K

-----------------------------------------------------------------------------
\* What is cached is what a document that was current since the last invalidation
\* at rest maps to.
AnsweredFrom(k, v) == store[k] = Mapped(v) /\ MapRows(Documents[v]) # NoRights
DocumentInv ==
  /\ DOMAIN store = Key /\ DOMAIN asOf = Key /\ DOMAIN version = Key
  /\ \A k \in Key :
       /\ asOf[k] \in 1..version[k] /\ version[k] \in DOMAIN Documents
       /\ store[k] # NoRights => \E v \in asOf[k]..version[k] : AnsweredFrom(k, v)

LEMMA DocumentPlaces ==
  /\ DOMAIN Documents = 1..Len(Documents) /\ Len(Documents) \in Nat
  /\ \A v \in DOMAIN Documents : /\ DOMAIN Documents[v] = 1..Len(Documents[v])
                                /\ Len(Documents[v]) \in Nat
  BY RegistryAssumption

LEMMA DocumentStarts == RegistryInit => DocumentInv
<1>1. 1 \in DOMAIN Documents
  BY RegistryAssumption, AnswersAssumption
<1> QED
  BY <1>1 DEF RegistryInit, DocumentInv

LEMMA DocumentStep == DocumentInv /\ [RegistryNext]_registryVars => DocumentInv'
<1> SUFFICES ASSUME DocumentInv, [RegistryNext]_registryVars PROVE DocumentInv'
  OBVIOUS
<1> USE DEF DocumentInv
<1>1. ASSUME UNCHANGED <<store, asOf, version>> PROVE DocumentInv'
  BY <1>1 DEF AnsweredFrom
<1>2. ASSUME NEW k \in Key, Answered(k) PROVE DocumentInv'
  <2>1. CASE store' = store
    BY <1>1, <1>2, <2>1 DEF Answered
  <2>2. CASE store' # store
    <3>1. /\ store' = [store EXCEPT ![k] = Mapped(version[k])]
          /\ Mapped(version[k]).rights # NoRights /\ UNCHANGED <<asOf, version>>
      BY <1>2, <2>2 DEF Answered
    <3>2. AnsweredFrom(k, version[k])' /\ version[k] \in asOf'[k]..version'[k]
      BY <3>1, DocumentPlaces DEF AnsweredFrom, Mapped
    <3>3. ASSUME NEW l \in Key \ {k}, store'[l] # NoRights
          PROVE  \E v \in asOf'[l]..version'[l] : AnsweredFrom(l, v)'
      BY <3>1, <3>3 DEF AnsweredFrom
    <3> QED
      BY <3>1, <3>2, <3>3
  <2> QED
    BY <2>1, <2>2
<1>3. ASSUME NEW k \in Key, Invalidate(k) PROVE DocumentInv'
  <2>1. /\ store' = [store EXCEPT ![k] = NoRights] /\ UNCHANGED version
        /\ asOf' = asOf \/ asOf' = [asOf EXCEPT ![k] = version[k]]
    BY <1>3 DEF Invalidate
  <2>2. version[k] \in 1..version[k]
    BY DocumentPlaces
  <2>3. ASSUME NEW l \in Key \ {k}, store'[l] # NoRights
        PROVE  \E v \in asOf'[l]..version'[l] : AnsweredFrom(l, v)'
    BY <2>1, <2>3 DEF AnsweredFrom
  <2> QED
    BY <2>1, <2>2, <2>3
<1>4. ASSUME NEW k \in Key, RegistryChanges(k) PROVE DocumentInv'
  <2>1. /\ version' = [version EXCEPT ![k] = @ + 1] /\ UNCHANGED <<store, asOf>>
        /\ version[k] < Len(Documents)
    BY <1>4 DEF RegistryChanges
  <2>2. /\ version[k] \in Nat /\ asOf[k] \in 1..(version[k] + 1)
        /\ version[k] + 1 \in DOMAIN Documents
        /\ \A v \in asOf[k]..version[k] : v \in asOf[k]..(version[k] + 1)
    BY <2>1, DocumentPlaces
  <2>3. ASSUME NEW l \in Key, store'[l] # NoRights
        PROVE  \E v \in asOf'[l]..version'[l] : AnsweredFrom(l, v)'
    BY <2>1, <2>2, <2>3 DEF AnsweredFrom
  <2> QED
    BY <2>1, <2>2, <2>3
<1>5. ASSUME NEW k \in Key, Authorized(k) \/ Refused(k) \/ Continued(k)
      PROVE  UNCHANGED <<store, asOf, version>>
  BY <1>5 DEF Authorized, Refused, Continued
<1>6. ASSUME NEW c \in Caller, CallerDone(c) \/ \E k \in Key : GetRegisteredRights(c, k)
      PROVE  UNCHANGED <<store, asOf, version>>
  BY <1>6 DEF CallerDone, GetRegisteredRights
<1>7. CASE TimeMoves \/ UNCHANGED registryVars
  BY <1>1, <1>7 DEF TimeMoves, registryVars
<1> QED
  BY <1>1, <1>2, <1>3, <1>4, <1>5, <1>6, <1>7 DEF RegistryNext

\* A right that a document holds in scope is read with a purpose and a date.
LEMMA ScopedRow ==
  ASSUME NEW row, InScope(row), ReceivedDate(row) # "none"
  PROVE  /\ row.received = "readable"
         /\ \A p \in ToSet(Purposes) :
              p[1] = row.purpose => ResolvePurpose(Column(row)) = p[2]
<1>1. row.received = "readable"
  BY DEF ReceivedDate
<1>2. Column(row) = row.purpose
  BY NoPurpose DEF InScope, Column
<1>3. ASSUME NEW p \in ToSet(Purposes), p[1] = row.purpose
      PROVE  ResolvePurpose(Column(row)) = p[2]
  <2>1. PICK m \in 1..11 : p = Purposes[m]
    BY Places DEF ToSet
  <2> QED
    BY <1>2, <1>3, <2>1, PurposeHasItsType DEF Keyword
<1> QED
  BY <1>1, <1>3

\* What is cached is the mapped document, each right of its own type, and never
\* older than the last invalidation that met no fetch, for any documents.
THEOREM RightsAreTheDocuments == RegistrySpec => []RightsOfDocument
<1>1. DocumentInv => RightsOfDocument
  <2> SUFFICES ASSUME DocumentInv, NEW k \in Key, store[k] # NoRights
               PROVE  LET cached == store[k]
                          rows == Documents[cached.of]
                          scoped == {i \in DOMAIN rows : InScope(rows[i])}
                          Place(i) == Cardinality({j \in scoped : j <= i})
                      IN  /\ cached.of >= asOf[k] /\ Len(cached.rights) = Cardinality(scoped)
                          /\ \A i \in scoped :
                               /\ rows[i].received = "readable"
                               /\ \A p \in ToSet(Purposes) :
                                    p[1] = rows[i].purpose => cached.rights[Place(i)] = p[2]
    BY DEF RightsOfDocument
  <2>1. PICK v \in asOf[k]..version[k] : AnsweredFrom(k, v)
    BY DEF DocumentInv
  <2> DEFINE rows == Documents[v]
             n == Len(rows)
             rights == FoldLeft(KeepRight, << >>, rows)
             scoped == {i \in DOMAIN rows : InScope(rows[i])}
  <2>2. v \in DOMAIN Documents /\ v >= asOf[k]
    BY DocumentPlaces DEF DocumentInv
  <2>3. DOMAIN rows = 1..n /\ n \in Nat
    BY <2>2, DocumentPlaces
  <2>4. /\ store[k].of = v /\ store[k].rights = rights
        /\ \A i \in scoped : ReceivedDate(rows[i]) # "none"
    BY <2>1 DEF AnsweredFrom, Mapped, MapRows
  <2> HIDE DEF rights, n
  <2>5. RightsOf(rows, n, rights)
    BY <2>3, RightsAreMapped DEF rights, n
  <2>6. scoped = Scoped(rows, n)
    BY <2>3 DEF Scoped
  <2>7. ASSUME NEW i \in scoped PROVE {j \in scoped : j <= i} = Scoped(rows, i)
    <3>1. \A m \in 1..n, j \in Int : j \in 1..m <=> j \in 1..n /\ j <= m
      BY <2>3
    <3>2. \A j \in 1..n : j \in Int
      BY <2>3
    <3>3. \A j \in 1..i : j \in Int
      BY <2>3
    <3> QED
      BY <2>3, <3>1, <3>2, <3>3 DEF Scoped
  <2>8. ASSUME NEW i \in scoped
        PROVE  /\ rows[i].received = "readable"
               /\ \A p \in ToSet(Purposes) :
                    p[1] = rows[i].purpose => rights[Cardinality({j \in scoped : j <= i})] = p[2]
    <3>1. rights[Cardinality({j \in scoped : j <= i})] = ResolvePurpose(Column(rows[i]))
      BY <2>5, <2>6, <2>7 DEF RightsOf
    <3>2. InScope(rows[i]) /\ ReceivedDate(rows[i]) # "none"
      BY <2>4
    <3> HIDE DEF scoped, rows
    <3> QED
      BY <3>1, <3>2, ScopedRow
  <2>9. Len(rights) = Cardinality(scoped)
    BY <2>5, <2>6 DEF RightsOf
  <2> QED
    BY <2>2, <2>4, <2>8, <2>9
<1> QED
  BY <1>1, DocumentStarts, DocumentStep, PTL DEF RegistrySpec

-----------------------------------------------------------------------------
DailySpec == DailyInit /\ [][DailyNext]_dailyVars

-----------------------------------------------------------------------------
\* The notices of a batch

\* A fold over a batch, as the recursion over sets of its places that it is.
FoldOf(bad, stored, batch, D, iter) ==
  iter = [s \in SUBSET D |-> IF s = {} THEN stored
                             ELSE StoreUnless(bad, iter[s \ {Max(s)}], batch[Max(s)])]

LEMMA FoldExists ==
  ASSUME NEW bad, NEW stored, NEW batch, NEW n \in Nat
  PROVE  \E iter : FoldOf(bad, stored, batch, 1..n, iter)
<1> DEFINE K == {k \in Nat : \E iter : FoldOf(bad, stored, batch, 1..k, iter)}
<1>1. 0 \in K
  <2> DEFINE iter == [s \in SUBSET (1..0) |-> stored]
  <2>1. \A s \in SUBSET (1..0) : s = {}
    OBVIOUS
  <2>2. FoldOf(bad, stored, batch, 1..0, iter)
    BY <2>1 DEF FoldOf
  <2> QED
    BY <2>2
<1>2. \A k \in K : k + 1 \in K
  <2> SUFFICES ASSUME NEW k \in Nat, NEW iter, FoldOf(bad, stored, batch, 1..k, iter)
               PROVE  \E more : FoldOf(bad, stored, batch, 1..(k + 1), more)
    OBVIOUS
  <2> DEFINE Step(s, h) == IF s = {} THEN stored
                           ELSE StoreUnless(bad, h[s \ {Max(s)}], batch[Max(s)])
             more == [s \in SUBSET (1..(k + 1)) |->
                        IF k + 1 \in s THEN StoreUnless(bad, iter[s \ {k + 1}], batch[k + 1])
                        ELSE iter[s]]
  <2>1. iter = [s \in SUBSET (1..k) |-> Step(s, iter)]
    BY DEF FoldOf
  <2>2. ASSUME NEW s \in SUBSET (1..(k + 1)) PROVE more[s] = Step(s, more)
    <3>1. \A t \in SUBSET (1..k) : t \in SUBSET (1..(k + 1)) /\ more[t] = iter[t]
      OBVIOUS
    <3>2. CASE k + 1 \in s
      <4>1. Max(s) = k + 1 /\ s # {} /\ s \ {k + 1} \in SUBSET (1..k)
        BY <2>2, <3>2, LastOfFirst
      <4>2. more[s \ {k + 1}] = iter[s \ {k + 1}]
        BY <3>1, <4>1
      <4>3. more[s] = StoreUnless(bad, iter[s \ {k + 1}], batch[k + 1])
        BY <2>2, <3>2
      <4> HIDE DEF more
      <4> QED
        BY <4>1, <4>2, <4>3
    <3>3. CASE k + 1 \notin s
      <4>1. s \in SUBSET (1..k) /\ s \ {Max(s)} \in SUBSET (1..k)
        <5>1. \A i \in s : i \in 1..k
          BY <2>2, <3>3
        <5> QED
          BY <5>1
      <4>2. more[s] = iter[s] /\ more[s \ {Max(s)}] = iter[s \ {Max(s)}]
        BY <3>1, <4>1
      <4>3. iter[s] = Step(s, iter)
        BY <2>1, <4>1
      <4> HIDE DEF more
      <4> QED
        BY <4>2, <4>3
    <3> QED
      BY <3>2, <3>3
  <2>3. more = [s \in SUBSET (1..(k + 1)) |-> Step(s, more)]
    <3>1. DOMAIN more = SUBSET (1..(k + 1)) /\ more = [s \in SUBSET (1..(k + 1)) |-> more[s]]
      OBVIOUS
    <3> HIDE DEF more
    <3> QED
      BY <2>2, <3>1
  <2> QED
    BY <2>3 DEF FoldOf
<1>3. K \in SUBSET Nat
  OBVIOUS
<1> HIDE DEF K
<1>4. K = Nat
  BY <1>1, <1>2, <1>3, AllNumbers
<1> QED
  BY <1>4 DEF K

\* A row is kept as long as one of its item and day remains that was read and has
\* its table if it had; there is one row of an item and day.
IsNotice(n) == n = [item |-> n.item, document |-> n.document, date |-> n.date,
                    scanned |-> n.scanned, names |-> n.names]
OneRow(stored) ==
  /\ \A n \in stored : IsNotice(n)
  /\ \A n, m \in stored : n.item = m.item /\ n.document = m.document => n = m
KeptIn(stored, more) ==
  \A n \in stored : \E m \in more :
    /\ m.item = n.item /\ m.document = n.document
    /\ n.scanned => m.scanned
    /\ n.names # "none" => m.names # "none"

LEMMA KeptThrough ==
  ASSUME NEW A, NEW B, NEW C, KeptIn(A, B), KeptIn(B, C)
  PROVE  KeptIn(A, C)
  BY DEF KeptIn

LEMMA KeptOne ==
  ASSUME NEW stored, OneRow(stored), NEW n
  PROVE  OneRow(StoreNotice(stored, n)) /\ KeptIn(stored, StoreNotice(stored, n))
<1> DEFINE same == {m \in stored : m.item = n.item /\ m.document = n.document}
           kept == IF \E m \in same : m.names # "none"
                   THEN (CHOOSE m \in same : TRUE).names ELSE "none"
           read == n.scanned \/ \E m \in same : m.scanned
           row == [item |-> n.item, document |-> n.document, date |-> n.date,
                   scanned |-> read, names |-> ReplaceTenants(kept, n)]
<1>1. StoreNotice(stored, n) = (stored \ same) \union {row}
  BY DEF StoreNotice
<1>2. \A m \in same : m.names # "none" => kept = m.names
  BY DEF OneRow
<1>3. \A m \in same : /\ m.item = n.item /\ m.document = n.document
                      /\ m.scanned => read
                      /\ m.names # "none" => ReplaceTenants(kept, n) # "none"
  <2> HIDE DEF kept
  <2> QED
    BY <1>2 DEF ReplaceTenants
<1>4. /\ row.item = n.item /\ row.document = n.document /\ row.scanned = read
      /\ row.names = ReplaceTenants(kept, n) /\ IsNotice(row)
  BY DEF IsNotice
<1>5. \A m \in stored \ same : ~(m.item = n.item /\ m.document = n.document)
  OBVIOUS
<1> HIDE DEF row, kept
<1>6. OneRow((stored \ same) \union {row})
  BY <1>4, <1>5 DEF OneRow
<1>7. KeptIn(stored, (stored \ same) \union {row})
  BY <1>3, <1>4 DEF KeptIn
<1> QED
  BY <1>1, <1>6, <1>7

\* A batch keeps what is there.
LEMMA KeptByBatch ==
  ASSUME NEW bad, NEW stored, OneRow(stored), NEW S, NEW batch \in Seq(S)
  PROVE  /\ OneRow(StoreBatch(bad, stored, batch))
         /\ KeptIn(stored, StoreBatch(bad, stored, batch))
<1> DEFINE n == Len(batch)
           D == 1..n
           iter == CHOOSE h : FoldOf(bad, stored, batch, D, h)
<1>1. n \in Nat /\ DOMAIN batch = D
  OBVIOUS
<1>2. StoreBatch(bad, stored, batch) = iter[D]
  BY <1>1 DEF StoreBatch, FoldLeft, MapThenFoldSet, FoldOf
<1>3. FoldOf(bad, stored, batch, D, iter)
  BY <1>1, FoldExists
<1> HIDE DEF iter, n
<1> DEFINE Good(k) == k <= n => OneRow(iter[1..k]) /\ KeptIn(stored, iter[1..k])
           K == {k \in Nat : Good(k)}
<1>4. 0 \in K
  <2>1. 1..0 = {} /\ {} \in SUBSET D
    OBVIOUS
  <2>2. iter[{}] = stored
    BY <1>3, <2>1 DEF FoldOf
  <2>3. KeptIn(stored, stored)
    BY DEF KeptIn
  <2> QED
    BY <2>1, <2>2, <2>3
<1>5. \A k \in K : k + 1 \in K
  <2> TAKE k \in K
  <2> k \in Nat
    OBVIOUS
  <2> SUFFICES ASSUME k + 1 <= n
               PROVE  OneRow(iter[1..(k + 1)]) /\ KeptIn(stored, iter[1..(k + 1)])
    OBVIOUS
  <2>0. OneRow(iter[1..k]) /\ KeptIn(stored, iter[1..k])
    <3>1. k <= n
      BY <1>1
    <3> QED
      BY <3>1
  <2>1. 1..(k + 1) \in SUBSET D /\ 1..(k + 1) # {} /\ k + 1 \in 1..(k + 1)
    <3>1. \A i \in 1..(k + 1) : i \in 1..n
      BY <1>1
    <3>2. k + 1 \in 1..(k + 1)
      OBVIOUS
    <3> QED
      BY <3>1, <3>2
  <2>2. Max(1..(k + 1)) = k + 1 /\ (1..(k + 1)) \ {k + 1} = 1..k
    BY <2>1, LastOfFirst
  <2>3. iter[1..(k + 1)] = StoreUnless(bad, iter[1..k], batch[k + 1])
    BY <1>3, <2>1, <2>2 DEF FoldOf
  <2>4. CASE batch[k + 1].item \in bad
    BY <2>0, <2>3, <2>4 DEF StoreUnless
  <2>5. CASE batch[k + 1].item \notin bad
    <3>1. iter[1..(k + 1)] = StoreNotice(iter[1..k], batch[k + 1])
      BY <2>3, <2>5 DEF StoreUnless
    <3> QED
      BY <2>0, <3>1, KeptOne, KeptThrough
  <2> QED
    BY <2>4, <2>5
<1>6. K \in SUBSET Nat
  OBVIOUS
<1> HIDE DEF K
<1>7. K = Nat
  BY <1>4, <1>5, <1>6, AllNumbers
<1>8. Good(n)
  BY <1>1, <1>7 DEF K
<1>9. OneRow(iter[D]) /\ KeptIn(stored, iter[D])
  BY <1>1, <1>8
<1> QED
  BY <1>2, <1>9

-----------------------------------------------------------------------------
\* The run, as far as its end and its batch are concerned

JobFields == {"pc", "reader", "court", "page", "total", "found", "have", "scans", "todo", "batch",
              "said", "lost", "left", "failed", "cases", "unmasked"}
HasBatch(j) == DOMAIN j = JobFields /\ \E S : j.batch \in Seq(S)
Runs(j) == HasBatch(j) /\ j.pc # "ended"

DailyInv ==
  /\ HasBatch(job)
  /\ DOMAIN base = {"bid", "notices", "results", "photos"} /\ OneRow(base.notices)
  /\ NamesGone

LEMMA NoJobRuns == Runs(NoJob)
<1>1. DOMAIN NoJob = JobFields
  BY DEF NoJob, JobFields
<1>2. NoJob.batch = << >> /\ NoJob.pc = "idle"
  BY DEF NoJob
<1>3. NoJob.batch \in Seq(Nat)
  BY <1>2
<1> QED
  BY <1>1, <1>2, <1>3 DEF Runs, HasBatch

LEMMA EmptyBatch == \E S : << >> \in Seq(S)
<1>1. << >> \in Seq(Nat)
  OBVIOUS
<1> QED
  BY <1>1

LEMMA OnwardRuns ==
  ASSUME NEW j, Runs(j), NEW next, next # "ended"
  PROVE  Runs(Onward(j, next))
<1> DEFINE rest == [j EXCEPT !.page = 1, !.total = 0, !.todo = << >>, !.batch = << >>, !.said = << >>]
<1>1. DOMAIN rest = JobFields /\ rest.batch = << >> /\ rest.pc = j.pc
  BY DEF Runs, HasBatch, JobFields
<1>2. Onward(j, next) = IF j.court < Len(Listing) THEN [rest EXCEPT !.court = @ + 1]
                        ELSE [rest EXCEPT !.court = 1, !.pc = next]
  BY DEF Onward
<1> HIDE DEF rest
<1>3. /\ DOMAIN Onward(j, next) = JobFields
      /\ Onward(j, next).batch = << >>
      /\ Onward(j, next).pc \in {j.pc, next}
  BY <1>1, <1>2 DEF JobFields
<1> QED
  BY <1>3, EmptyBatch DEF Runs, HasBatch

LEMMA BeginRuns ==
  ASSUME NEW j, Runs(j)
  PROVE  Runs(BeginCourt(j))
<1>1. /\ DOMAIN BeginCourt(j) = JobFields
      /\ BeginCourt(j).batch = j.batch
      /\ BeginCourt(j).pc = "details"
  BY DEF Runs, HasBatch, JobFields, BeginCourt
<1> QED
  BY <1>1 DEF Runs, HasBatch

LEMMA NextCourtRuns ==
  ASSUME NEW j, Runs(j)
  PROVE  Runs(NextCourt(j))
  BY OnwardRuns, BeginRuns DEF NextCourt

\* What leaves the stage and the batch alone.
LEMMA FieldRuns ==
  ASSUME NEW j, Runs(j), NEW field \in JobFields \ {"pc", "batch"}, NEW value
  PROVE  Runs([j EXCEPT ![field] = value])
  BY DEF Runs, HasBatch, JobFields

LEMMA CourtFailedRuns == Runs(job) => Runs(CourtFailed)
  BY DEF CourtFailed, Runs, HasBatch, JobFields

\* A request that fails does not end the run.
LEMMA FailureGoesOn ==
  ASSUME NEW onward, RequestFails(onward)
  PROVE  job' = onward
  BY DEF RequestFails, Signal

\* Steps of a run that leave the database alone and do not end it.
LEMMA SearchFailsRuns == Runs(job) /\ SearchFails => Runs(job')
<1> SUFFICES ASSUME Runs(job), SearchFails PROVE Runs(job')
  OBVIOUS
<1>1. job' = Onward(CourtFailed, "keys")
  BY FailureGoesOn DEF SearchFails
<1> QED
  BY <1>1, CourtFailedRuns, OnwardRuns

LEMMA KeysRun == Runs(job) /\ (FindKeys \/ FindKeysFails) => Runs(job')
<1> SUFFICES ASSUME Runs(job) PROVE FindKeys \/ FindKeysFails => Runs(job')
  OBVIOUS
<1>1. CASE FindKeys
  <2>1. Runs([job EXCEPT !.have = KeysOf(base.notices),
                !.scans = KeysOf({n \in base.notices : n.scanned /\ job.reader})])
    BY DEF Runs, HasBatch, JobFields
  <2> QED
    BY <1>1, <2>1, BeginRuns DEF FindKeys
<1>2. CASE FindKeysFails
  BY <1>2 DEF FindKeysFails, Runs, HasBatch, JobFields
<1> QED
  BY <1>1, <1>2

LEMMA DetailRuns ==
  Runs(job) /\ (DetailServed \/ DetailEmpty \/ DetailFails \/ BatchBreaks) => Runs(job')
<1> SUFFICES ASSUME Runs(job)
             PROVE  DetailServed \/ DetailEmpty \/ DetailFails \/ BatchBreaks => Runs(job')
  OBVIOUS
<1>1. CASE DetailServed
  <2>1. PICK open \in {FALSE, job.reader} :
          job' = [job EXCEPT !.todo = Tail(@), !.said = Append(@, "served"),
                    !.batch = Append(@, [item |-> Current.item, date |-> Current.date,
                                         document |-> site[Current.item].notice,
                                         scanned |-> open,
                                         people |-> open /\ Current.item \in Tenanted])]
    BY <1>1 DEF DetailServed
  <2> DEFINE row == [item |-> Current.item, date |-> Current.date,
                     document |-> site[Current.item].notice, scanned |-> open,
                     people |-> open /\ Current.item \in Tenanted]
  <2>2. job' = [job EXCEPT !.todo = Tail(@), !.said = Append(@, "served"),
                           !.batch = Append(@, row)]
    BY <2>1
  <2> HIDE DEF row
  <2>3. DOMAIN job' = JobFields /\ job'.pc = job.pc /\ job'.batch = Append(job.batch, row)
    BY <2>2 DEF Runs, HasBatch, JobFields
  <2>4. PICK S : job.batch \in Seq(S)
    BY DEF Runs, HasBatch
  <2>5. Append(job.batch, row) \in Seq(S \union {row})
    <3>1. job.batch \in Seq(S \union {row})
      BY <2>4
    <3> QED
      BY <3>1, AppendProperties
  <2> QED
    BY <2>3, <2>5 DEF Runs, HasBatch
<1>2. CASE DetailEmpty
  BY <1>2 DEF DetailEmpty, Runs, HasBatch, JobFields
<1>3. CASE DetailFails
  <2>1. job' = [job EXCEPT !.todo = Tail(@), !.lost = @ \union {Current.item}]
    BY <1>3, FailureGoesOn DEF DetailFails
  <2> QED
    BY <2>1 DEF Runs, HasBatch, JobFields
<1>4. CASE BatchBreaks
  <2>1. job' = NextCourt(CourtFailed)
    BY <1>4, FailureGoesOn DEF BatchBreaks
  <2> QED
    BY <2>1, CourtFailedRuns, NextCourtRuns
<1> QED
  BY <1>1, <1>2, <1>3, <1>4

LEMMA SaveFailsRuns == Runs(job) /\ SaveFails => Runs(job')
  BY CourtFailedRuns, NextCourtRuns DEF SaveFails

LEMMA LaterRuns ==
  Runs(job) /\ (FindPending \/ FindPendingFails \/ CaseFails \/ CaseBreaks \/ FindMissingPhotos)
    => Runs(job')
<1> SUFFICES ASSUME Runs(job)
             PROVE  FindPending \/ FindPendingFails \/ CaseFails \/ CaseBreaks \/ FindMissingPhotos
                      => Runs(job')
  OBVIOUS
<1>0. /\ DOMAIN NoJob = JobFields /\ NoJob.batch = << >> 
      /\ \E S : << >> \in Seq(S)
  BY EmptyBatch DEF NoJob, JobFields
<1>1. CASE FindPending
  BY <1>0, <1>1 DEF FindPending, Runs, HasBatch, JobFields
<1>2. CASE FindPendingFails
  BY <1>0, <1>2 DEF FindPendingFails, Runs, HasBatch, JobFields
<1>3. CASE CaseFails
  <2>1. job' = WithoutCase
    BY <1>3, FailureGoesOn DEF CaseFails
  <2> QED
    BY <2>1 DEF WithoutCase, Runs, HasBatch, JobFields
<1>4. CASE CaseBreaks
  BY <1>4 DEF CaseBreaks, Runs, HasBatch, JobFields
<1>5. CASE FindMissingPhotos
  <2> DEFINE few == LET without == {CaseOf[i] : i \in {x \in Item : base.bid[x] # 0}} \ base.photos
                    IN  {c \in without : Cardinality({d \in without : d < c}) < PhotoLimit}
  <2>1. job' = [job EXCEPT !.pc = "pictures", !.cases = few]
    BY <1>5 DEF FindMissingPhotos
  <2> HIDE DEF few
  <2> QED
    BY <2>1 DEF Runs, HasBatch, JobFields
<1> QED
  BY <1>1, <1>2, <1>3, <1>4, <1>5

\* All of these.
QuietStep ==
  \/ SearchFails \/ FindKeys \/ FindKeysFails \/ DetailServed \/ DetailEmpty \/ DetailFails
  \/ BatchBreaks \/ SaveFails \/ FindPending \/ FindPendingFails \/ CaseFails \/ CaseBreaks
  \/ FindMissingPhotos \/ Killed

LEMMA QuietRuns ==
  ASSUME DailyInv, QuietStep
  PROVE  Runs(job') /\ base' = base
<1>1. base' = base
  BY DEF QuietStep, SearchFails, FindKeys, FindKeysFails, DetailServed, DetailEmpty, DetailFails,
         BatchBreaks, SaveFails, FindPending, FindPendingFails, CaseFails, CaseBreaks,
         FindMissingPhotos, Killed
<1>2. job.pc # "ended"
  BY DEF QuietStep, SearchFails, FindKeys, FindKeysFails, DetailServed, DetailEmpty, DetailFails,
         BatchBreaks, SaveFails, FindPending, FindPendingFails, CaseFails, CaseBreaks,
         FindMissingPhotos, Killed, AskDetail
<1>3. Runs(job)
  BY <1>2 DEF DailyInv, Runs
<1>4. Killed => Runs(job')
  BY NoJobRuns DEF Killed
<1> QED
  BY <1>1, <1>3, <1>4, SearchFailsRuns, KeysRun, DetailRuns, SaveFailsRuns, LaterRuns DEF QuietStep

LEMMA NamesWait == Runs(job) => NamesGone
  BY DEF Runs, NamesGone

\* What a step does to the notices.
LEMMA SaveSteps ==
  ASSUME DailyInv, SaveNotices
  PROVE  /\ Runs(job') /\ DOMAIN base' = DOMAIN base
         /\ OneRow(base'.notices) /\ KeptIn(base.notices, base'.notices)
<1>1. PICK bad :
        /\ job.pc = "details"
        /\ base' = [base EXCEPT !.notices = StoreBatch(bad, @, job.batch)]
        /\ job' = NextCourt([job EXCEPT !.lost = @ \union bad])
  BY DEF SaveNotices
<1>2. PICK S : job.batch \in Seq(S)
  BY DEF DailyInv, HasBatch
<1> DEFINE after == StoreBatch(bad, base.notices, job.batch)
<1>3. OneRow(after) /\ KeptIn(base.notices, after)
  BY <1>2, KeptByBatch DEF DailyInv
<1>4. base' = [base EXCEPT !.notices = after]
  BY <1>1
<1> HIDE DEF after
<1>5. base'.notices = after /\ DOMAIN base' = DOMAIN base
  BY <1>4 DEF DailyInv
<1>6. Runs([job EXCEPT !.lost = @ \union bad])
  BY <1>1 DEF DailyInv, Runs, HasBatch, JobFields
<1> QED
  BY <1>1, <1>3, <1>5, <1>6, NextCourtRuns

LEMMA MaskSteps ==
  ASSUME DailyInv, MaskNames
  PROVE  /\ HasBatch(job') /\ DOMAIN base' = DOMAIN base /\ NamesGone'
         /\ OneRow(base'.notices) /\ KeptIn(base.notices, base'.notices)
<1> DEFINE Masked(n) == IF n.names = "named" /\ SaleEnded(n.item)
                        THEN [n EXCEPT !.names = "masked"] ELSE n
           after == {Masked(n) : n \in base.notices}
<1>1. base' = [base EXCEPT !.notices = after] /\ job' = [job EXCEPT !.pc = "ended"]
  BY DEF MaskNames
<1>2. \A n \in base.notices :
        /\ Masked(n).item = n.item /\ Masked(n).document = n.document
        /\ Masked(n).scanned = n.scanned
        /\ n.names # "none" => Masked(n).names # "none"
        /\ Masked(n).names = "named" => ~SaleEnded(n.item)
        /\ IsNotice(Masked(n))
  BY DEF DailyInv, OneRow, IsNotice
<1> HIDE DEF Masked
<1>3. OneRow(after) /\ KeptIn(base.notices, after)
  BY <1>2 DEF DailyInv, OneRow, KeptIn
<1>4. \A n \in after : n.names = "named" => ~SaleEnded(n.item)
  BY <1>2
<1> HIDE DEF after
<1>5. base'.notices = after /\ base'.results = base.results /\ DOMAIN base' = DOMAIN base
  BY <1>1 DEF DailyInv
<1>6. NamesGone'
  BY <1>4, <1>5 DEF NamesGone, SaleEnded
<1>7. HasBatch(job')
  BY <1>1 DEF DailyInv, HasBatch, JobFields
<1> QED
  BY <1>3, <1>5, <1>6, <1>7

\* The collector's own data apart from the notices, and the court.
LEMMA OtherSteps ==
  ASSUME DailyInv,
         Unsold \/ Sold \/ SharedOut \/ StartDaily \/ SearchPage \/ BackfillCase \/ PhotoCase
           \/ MaskFails
  PROVE  /\ HasBatch(job') /\ DOMAIN base' = DOMAIN base /\ NamesGone'
         /\ base'.notices = base.notices
<1>1. CASE Unsold \/ Sold \/ SharedOut
  <2>1. UNCHANGED <<base, job>>
    BY <1>1 DEF Unsold, Sold, SharedOut
  <2> QED
    BY <2>1 DEF DailyInv, NamesGone, SaleEnded
<1>2. CASE StartDaily
  <2>1. PICK reader : job' = [NoJob EXCEPT !.pc = "search", !.reader = reader]
    BY <1>2 DEF StartDaily
  <2>2. DOMAIN job' = JobFields /\ job'.batch = << >> /\ job'.pc = "search"
    BY <2>1 DEF NoJob, JobFields
  <2>3. base' = base
    BY <1>2 DEF StartDaily
  <2> QED
    BY <2>2, <2>3, EmptyBatch DEF HasBatch, NamesGone
<1>3. CASE SearchPage
  <2>0. Runs(job)
    BY <1>3 DEF SearchPage, DailyInv, Runs
  <2>1. PICK found, total, page :
          LET j == [job EXCEPT !.found = found, !.total = total]
          IN  job' \in {Onward(j, "keys"), [j EXCEPT !.page = page]}
    BY <1>3, Zenon DEF SearchPage
  <2> DEFINE j == [job EXCEPT !.found = found, !.total = total]
  <2>2. Runs(j)
    BY <2>0 DEF Runs, HasBatch, JobFields
  <2> HIDE DEF j
  <2>3. Runs(Onward(j, "keys")) /\ Runs([j EXCEPT !.page = page])
    BY <2>2, OnwardRuns, FieldRuns DEF JobFields
  <2>4. job' \in {Onward(j, "keys"), [j EXCEPT !.page = page]}
    BY <2>1 DEF j
  <2>5. DOMAIN base' = DOMAIN base /\ base'.notices = base.notices
    BY <1>3 DEF SearchPage, DailyInv
  <2> QED
    BY <2>3, <2>4, <2>5 DEF Runs, NamesGone
<1>4. CASE BackfillCase \/ PhotoCase
  <2>1. Runs(WithoutCase) /\ job' = WithoutCase
    BY <1>4 DEF BackfillCase, PhotoCase, WithoutCase, DailyInv, Runs, HasBatch, JobFields
  <2>2. DOMAIN base' = DOMAIN base /\ base'.notices = base.notices
    BY <1>4 DEF BackfillCase, PhotoCase, DailyInv
  <2> QED
    BY <2>1, <2>2 DEF Runs, NamesGone
<1>5. CASE MaskFails
  <2>1. job' = [job EXCEPT !.pc = "ended", !.unmasked = TRUE] /\ base' = base
    BY <1>5 DEF MaskFails
  <2>2. HasBatch(job') /\ job'.unmasked
    BY <2>1 DEF DailyInv, HasBatch, JobFields
  <2> QED
    BY <2>1, <2>2 DEF NamesGone
<1> QED
  BY <1>1, <1>2, <1>3, <1>4, <1>5

LEMMA KeptItself == \A stored : KeptIn(stored, stored)
  BY DEF KeptIn

\* One step: the invariant, and what is kept of the notices.
LEMMA DailyStep ==
  ASSUME DailyInv, [DailyNext]_dailyVars
  PROVE  DailyInv' /\ KeptIn(base.notices, base'.notices)
<1>1. CASE UNCHANGED dailyVars
  <2>1. job' = job /\ base' = base
    BY <1>1 DEF dailyVars
  <2> QED
    BY <2>1, KeptItself DEF DailyInv, NamesGone, SaleEnded
<1>2. CASE QuietStep
  <2>1. Runs(job') /\ base' = base
    BY <1>2, QuietRuns
  <2>2. NamesGone'
    BY <2>1 DEF Runs, NamesGone
  <2> QED
    BY <2>1, <2>2, KeptItself DEF DailyInv, Runs
<1>3. CASE SaveNotices
  <2>1. /\ Runs(job') /\ DOMAIN base' = DOMAIN base
        /\ OneRow(base'.notices) /\ KeptIn(base.notices, base'.notices)
    BY <1>3, SaveSteps
  <2>2. NamesGone'
    BY <2>1 DEF Runs, NamesGone
  <2> QED
    BY <2>1, <2>2 DEF DailyInv, Runs
<1>4. CASE MaskNames
  BY <1>4, MaskSteps DEF DailyInv
<1>5. CASE Unsold \/ Sold \/ SharedOut \/ StartDaily \/ SearchPage \/ BackfillCase \/ PhotoCase
             \/ MaskFails
  <2>1. /\ HasBatch(job') /\ DOMAIN base' = DOMAIN base /\ NamesGone'
        /\ base'.notices = base.notices
    BY <1>5, OtherSteps
  <2> QED
    BY <2>1, KeptItself DEF DailyInv
<1> QED
  BY <1>1, <1>2, <1>3, <1>4, <1>5 DEF DailyNext, QuietStep

LEMMA DailyStarts == DailyInit => DailyInv
<1> SUFFICES ASSUME DailyInit PROVE DailyInv
  OBVIOUS
<1>1. Runs(job) /\ NamesGone
  BY NoJobRuns, NamesWait DEF DailyInit
<1>2. CASE base = NewBase
  BY <1>1, <1>2 DEF NewBase, DailyInv, Runs, OneRow
<1>3. ASSUME NEW reader \in BOOLEAN, base = BaseAfter(reader) PROVE DailyInv
  <2> DEFINE Row(i) == [item |-> i, document |-> 1, date |-> 1, scanned |-> reader,
                        names |-> IF reader /\ i \in Tenanted THEN "named" ELSE "none"]
  <2>1. /\ DOMAIN base = {"bid", "notices", "results", "photos"}
        /\ base.notices = {Row(i) : i \in Item \ Unwritten}
    BY <1>3 DEF BaseAfter, NewBase
  <2>2. \A i : Row(i).item = i /\ IsNotice(Row(i))
    BY DEF IsNotice
  <2> HIDE DEF Row
  <2> QED
    BY <1>1, <2>1, <2>2 DEF DailyInv, Runs, OneRow
<1> QED
  BY <1>2, <1>3 DEF DailyInit

\* No name of a sale known to be closed is left at the end of a run, for any
\* courts, items and failures, unless the masking itself failed.
THEOREM NamesAreGone == DailySpec => []NamesGone
<1>1. DailyInv => NamesGone
  BY DEF DailyInv
<1> QED
  BY <1>1, DailyStarts, DailyStep, PTL DEF DailySpec

\* No run loses a table of tenants that was read, or that it was, whatever is
\* stored again, fails or is killed.
THEOREM TablesAreKept == DailySpec => TablesKept
<1>1. DailyInv /\ [DailyNext]_dailyVars =>
        [\A n \in base.notices : \E m \in base'.notices :
           /\ m.item = n.item /\ m.document = n.document
           /\ n.scanned => m.scanned
           /\ n.names # "none" => m.names # "none"]_dailyVars
  BY DailyStep DEF KeptIn
<1> QED
  BY <1>1, DailyStarts, DailyStep, PTL DEF DailySpec, TablesKept

-----------------------------------------------------------------------------
\* The rows of a search

\* What the rows taken from the first k places are.
Taken(rows, places, k, out) ==
  /\ \A i \in 1..k : i \in places => \E j \in 1..Len(out) : out[j] = rows[i]
  /\ \A j \in 1..Len(out) : \E i \in 1..k : i \in places /\ out[j] = rows[i]

\* One place more.
TakeRow(rows, places, out, k) == IF k \in places THEN Append(out, rows[k]) ELSE out

LEMMA OneTaken ==
  ASSUME NEW S, NEW n \in Nat, NEW rows, \A i \in 1..n : rows[i] \in S, NEW places,
         NEW k \in 0..(n - 1), NEW out \in Seq(S), Taken(rows, places, k, out)
  PROVE  /\ TakeRow(rows, places, out, k + 1) \in Seq(S)
         /\ Taken(rows, places, k + 1, TakeRow(rows, places, out, k + 1))
<1>1. k + 1 \in 1..n /\ rows[k + 1] \in S
  BY SMT
<1> DEFINE row == rows[k + 1]
           more == Append(out, row)
           l == Len(out)
<1>2. /\ l \in Nat /\ more \in Seq(S) /\ Len(more) = l + 1 /\ more[l + 1] = row
      /\ \A j \in 1..l : more[j] = out[j]
  BY <1>1, AppendProperties
<1> HIDE DEF more, l
<1>3. CASE k + 1 \in places
  <2>1. \A i \in 1..(k + 1) : i \in places => \E j \in 1..(l + 1) : more[j] = rows[i]
    <3> SUFFICES ASSUME NEW i \in 1..(k + 1), i \in places
                 PROVE  \E j \in 1..(l + 1) : more[j] = rows[i]
      OBVIOUS
    <3>1. CASE i = k + 1
      BY <1>2, <3>1
    <3>2. CASE i \in 1..k
      <4>1. PICK j \in 1..l : out[j] = rows[i]
        BY <3>2 DEF Taken, l
      <4> QED
        BY <1>2, <4>1
    <3> QED
      BY <3>1, <3>2
  <2>2. \A j \in 1..(l + 1) : \E i \in 1..(k + 1) : i \in places /\ more[j] = rows[i]
    <3> TAKE j \in 1..(l + 1)
    <3>1. CASE j = l + 1
      BY <1>2, <1>3, <3>1
    <3>2. CASE j \in 1..l
      <4>1. PICK i \in 1..k : i \in places /\ out[j] = rows[i]
        BY <3>2 DEF Taken, l
      <4> QED
        BY <1>2, <3>2, <4>1
    <3> QED
      BY <1>2, <3>1, <3>2
  <2>3. TakeRow(rows, places, out, k + 1) = more
    BY <1>3 DEF TakeRow, more
  <2> QED
    BY <1>2, <2>1, <2>2, <2>3 DEF Taken
<1>4. CASE k + 1 \notin places
  <2>1. \A i \in 1..(k + 1) : i \in places => i \in 1..k
    BY <1>4
  <2>2. \A i \in 1..k : i \in 1..(k + 1)
    OBVIOUS
  <2>3. TakeRow(rows, places, out, k + 1) = out
    BY <1>4 DEF TakeRow
  <2> QED
    BY <2>1, <2>2, <2>3 DEF Taken
<1> QED
  BY <1>3, <1>4

\* The rows one place after the other.
PicksRun(g, S, rows, places) ==
  /\ g \in [0..Len(rows) -> Seq(S)] /\ g[0] = << >> /\ g[Len(rows)] = RowsIn(rows, places)
  /\ \A k \in 0..(Len(rows) - 1) : g[k + 1] = TakeRow(rows, places, g[k], k + 1)

LEMMA PicksInTurn ==
  ASSUME NEW S, NEW rows \in Seq(S), NEW places
  PROVE  \E g : PicksRun(g, S, rows, places)
<1> DEFINE n == Len(rows)
           D == 1..n
           V == Seq(S)
           order == [k \in DOMAIN rows |-> k]
           steps == [p \in V \X D |-> TakeRow(rows, places, p[1], p[2])]
           Folds(h) == h = [s \in SUBSET D |-> IF s = {} THEN << >>
                              ELSE TakeRow(rows, places, h[s \ {Max(s)}], order[Max(s)])]
           f == CHOOSE h : Folds(h)
<1>0. n \in Nat /\ DOMAIN rows = D /\ DOMAIN order = D /\ \A i \in D : rows[i] \in S /\ order[i] = i
  OBVIOUS
<1>1. << >> \in V /\ \A v \in V, i \in D : TakeRow(rows, places, v, i) \in V
  BY <1>0, AppendProperties DEF TakeRow
<1>2. RowsIn(rows, places) = f[D]
  <2>1. DOMAIN order = D
    BY <1>0
  <2> QED
    BY <2>1 DEF RowsIn, FoldLeft, MapThenFoldSet, TakeRow
<1> HIDE DEF V, order
<1>3. steps \in [V \X D -> V] /\ \A v \in V, i \in D : steps[v, i] = TakeRow(rows, places, v, i)
  BY <1>1
<1>4. PICK h \in [SUBSET D -> V] : FoldOver(steps, << >>, D, h)
  <2> HIDE DEF steps
  <2> QED
    BY <1>0, <1>1, <1>3, FoldInside
<1>5. Folds(h)
  <2>1. ASSUME NEW s \in SUBSET D, s # {}
        PROVE  steps[h[s \ {Max(s)}], Max(s)] =
                 TakeRow(rows, places, h[s \ {Max(s)}], order[Max(s)])
    <3>1. Max(s) \in D /\ h[s \ {Max(s)}] \in V
      BY <1>0, <2>1, LargestPlace
    <3>2. order[Max(s)] = Max(s)
      BY <1>0, <3>1
    <3> HIDE DEF steps
    <3> QED
      BY <1>3, <3>1, <3>2
  <2> HIDE DEF steps
  <2> QED
    BY <1>4, <2>1 DEF FoldOver
<1>6. Folds(f)
  <2> HIDE DEF Folds
  <2> QED
    BY <1>5
<1>7. f[{}] = << >> /\ \A s \in SUBSET D : s # {} =>
        f[s] = TakeRow(rows, places, f[s \ {Max(s)}], order[Max(s)])
  <2> HIDE DEF f
  <2> QED
    BY <1>6
<1> HIDE DEF f, Folds, steps
<1>8. \A k \in 0..(n - 1) : f[1..(k + 1)] = TakeRow(rows, places, f[1..k], k + 1)
  <2> TAKE k \in 0..(n - 1)
  <2>1. /\ 1..(k + 1) \in SUBSET D /\ 1..(k + 1) # {} /\ Max(1..(k + 1)) = k + 1
        /\ (1..(k + 1)) \ {k + 1} = 1..k /\ k + 1 \in D
    BY <1>0, FirstPlaces
  <2>2. order[k + 1] = k + 1
    BY <1>0, <2>1
  <2> QED
    BY <1>7, <2>1, <2>2
<1>9. \A k \in 0..n : f[1..k] \in V
  <2>1. ASSUME NEW k \in 0..(n - 1), f[1..k] \in V PROVE f[1..(k + 1)] \in V
    <3>1. k + 1 \in D
      BY <1>0
    <3> QED
      BY <1>1, <1>8, <2>1, <3>1
  <2>2. f[{}] \in V
    BY <1>1, <1>7
  <2> QED
    BY <1>0, <2>1, <2>2, EachPlace
<1> DEFINE g == [k \in 0..n |-> f[1..k]]
<1>10. g \in [0..n -> V] /\ g[0] = << >> /\ g[n] = RowsIn(rows, places)
  <2>1. 1..0 = {} /\ 0 \in 0..n /\ n \in 0..n
    BY <1>0
  <2> QED
    BY <1>2, <1>7, <1>9, <2>1
<1>11. \A k \in 0..(n - 1) : g[k + 1] = TakeRow(rows, places, g[k], k + 1)
  <2>1. \A k \in 0..(n - 1) : k \in 0..n /\ k + 1 \in 0..n
    BY <1>0
  <2> QED
    BY <1>8, <2>1
<1> QED
  BY <1>10, <1>11 DEF PicksRun, V

\* The rows at the places given, and no others.
LEMMA RowsTaken ==
  ASSUME NEW S, NEW rows \in Seq(S), NEW places
  PROVE  /\ RowsIn(rows, places) \in Seq(S)
         /\ Taken(rows, places, Len(rows), RowsIn(rows, places))
<1> DEFINE n == Len(rows)
<1>1. n \in Nat /\ \A i \in 1..n : rows[i] \in S
  OBVIOUS
<1>2. PICK g : PicksRun(g, S, rows, places)
  BY PicksInTurn
<1> HIDE DEF n
<1>3. /\ \A k \in 0..n : g[k] \in Seq(S)
      /\ g[0] = << >> /\ g[n] = RowsIn(rows, places)
      /\ \A k \in 0..(n - 1) : g[k + 1] = TakeRow(rows, places, g[k], k + 1)
  BY <1>2 DEF PicksRun, n
<1> DEFINE K == {k \in Nat : k <= n => Taken(rows, places, k, g[k])}
<1>4. 0 \in K
  <2>1. Len(<< >>) = 0
    OBVIOUS
  <2> QED
    BY <1>3, <2>1 DEF Taken
<1>5. \A k \in K : k + 1 \in K
  <2> SUFFICES ASSUME NEW k \in K, k + 1 <= n PROVE Taken(rows, places, k + 1, g[k + 1])
    OBVIOUS
  <2>1. k \in 0..(n - 1) /\ k \in 0..n /\ k <= n
    BY <1>1
  <2>2. Taken(rows, places, k, g[k])
    BY <2>1
  <2>3. Taken(rows, places, k + 1, TakeRow(rows, places, g[k], k + 1))
    BY <1>1, <1>3, <2>1, <2>2, OneTaken
  <2> QED
    BY <1>3, <2>1, <2>3
<1>6. K \in SUBSET Nat
  OBVIOUS
<1> HIDE DEF K
<1>7. K = Nat
  BY <1>4, <1>5, <1>6, AllNumbers
<1>9. Taken(rows, places, n, g[n])
  BY <1>1, <1>7 DEF K
<1>8. g[n] \in Seq(S)
  BY <1>1, <1>3
<1> QED
  BY <1>3, <1>8, <1>9 DEF n

\* The rows of one day more.
TakeDay(rows, places, near, day) ==
  near \o RowsIn(rows, {k \in places : rows[k].date = day})
DaysRun(g, S, rows, places) ==
  /\ g \in [0..LastDate -> Seq(S)] /\ g[0] = << >> /\ g[LastDate] = Nearest(rows, places)
  /\ \A k \in 0..(LastDate - 1) : g[k + 1] = TakeDay(rows, places, g[k], k + 1)

LEMMA DaysInTurn ==
  ASSUME NEW S, NEW rows \in Seq(S), NEW places
  PROVE  \E g : DaysRun(g, S, rows, places)
<1> DEFINE n == LastDate
           D == 1..n
           V == Seq(S)
           order == [day \in 1..LastDate |-> day]
           steps == [p \in V \X D |-> TakeDay(rows, places, p[1], p[2])]
           Folds(h) == h = [s \in SUBSET D |-> IF s = {} THEN << >>
                              ELSE TakeDay(rows, places, h[s \ {Max(s)}], order[Max(s)])]
           f == CHOOSE h : Folds(h)
<1>0. n \in Nat /\ DOMAIN order = D /\ Len(order) = n /\ \A i \in D : order[i] = i
  BY DailyAssumption
<1>1. << >> \in V /\ \A v \in V, i \in D : TakeDay(rows, places, v, i) \in V
  <2>1. \A some : RowsIn(rows, some) \in V
    BY RowsTaken
  <2>2. \A v \in V, w \in V : v \o w \in V
    BY ConcatProperties
  <2>3. << >> \in V
    OBVIOUS
  <2> HIDE DEF V
  <2> QED
    BY <2>1, <2>2, <2>3 DEF TakeDay
<1>2. Nearest(rows, places) = f[D]
  <2>1. DOMAIN order = D
    BY <1>0
  <2> QED
    BY <2>1 DEF Nearest, FoldLeft, MapThenFoldSet, TakeDay
<1> HIDE DEF V, order
<1>3. steps \in [V \X D -> V] /\ \A v \in V, i \in D : steps[v, i] = TakeDay(rows, places, v, i)
  BY <1>1
<1>4. PICK h \in [SUBSET D -> V] : FoldOver(steps, << >>, D, h)
  <2> HIDE DEF steps
  <2> QED
    BY <1>0, <1>1, <1>3, FoldInside
<1>5. Folds(h)
  <2>1. ASSUME NEW s \in SUBSET D, s # {}
        PROVE  steps[h[s \ {Max(s)}], Max(s)] =
                 TakeDay(rows, places, h[s \ {Max(s)}], order[Max(s)])
    <3>1. Max(s) \in D /\ h[s \ {Max(s)}] \in V
      BY <1>0, <2>1, LargestPlace
    <3>2. order[Max(s)] = Max(s)
      BY <1>0, <3>1
    <3> HIDE DEF steps
    <3> QED
      BY <1>3, <3>1, <3>2
  <2> HIDE DEF steps
  <2> QED
    BY <1>4, <2>1 DEF FoldOver
<1>6. Folds(f)
  <2> HIDE DEF Folds
  <2> QED
    BY <1>5
<1>7. f[{}] = << >> /\ \A s \in SUBSET D : s # {} =>
        f[s] = TakeDay(rows, places, f[s \ {Max(s)}], order[Max(s)])
  <2> HIDE DEF f
  <2> QED
    BY <1>6
<1> HIDE DEF f, Folds, steps
<1>8. \A k \in 0..(n - 1) : f[1..(k + 1)] = TakeDay(rows, places, f[1..k], k + 1)
  <2> TAKE k \in 0..(n - 1)
  <2>1. /\ 1..(k + 1) \in SUBSET D /\ 1..(k + 1) # {} /\ Max(1..(k + 1)) = k + 1
        /\ (1..(k + 1)) \ {k + 1} = 1..k /\ k + 1 \in D
    BY <1>0, FirstPlaces
  <2>2. order[k + 1] = k + 1
    BY <1>0, <2>1
  <2> QED
    BY <1>7, <2>1, <2>2
<1>9. \A k \in 0..n : f[1..k] \in V
  <2>1. ASSUME NEW k \in 0..(n - 1), f[1..k] \in V PROVE f[1..(k + 1)] \in V
    <3>1. k + 1 \in D
      BY <1>0
    <3> QED
      BY <1>1, <1>8, <2>1, <3>1
  <2>2. f[{}] \in V
    BY <1>1, <1>7
  <2> QED
    BY <1>0, <2>1, <2>2, EachPlace
<1> DEFINE g == [k \in 0..n |-> f[1..k]]
<1>10. g \in [0..n -> V] /\ g[0] = << >> /\ g[n] = Nearest(rows, places)
  <2>1. 1..0 = {} /\ 0 \in 0..n /\ n \in 0..n
    BY <1>0
  <2> QED
    BY <1>2, <1>7, <1>9, <2>1
<1>11. \A k \in 0..(n - 1) : g[k + 1] = TakeDay(rows, places, g[k], k + 1)
  <2>1. \A k \in 0..(n - 1) : k \in 0..n /\ k + 1 \in 0..n
    BY <1>0
  <2> QED
    BY <1>8, <2>1
<1> QED
  BY <1>10, <1>11 DEF DaysRun, V

\* The rows of the first days: all of them, no others, and in the order of days.
InOrderOfDays(rows) ==
  \A i, j \in 1..Len(rows) : i <= j => rows[i].date <= rows[j].date
ByDay(rows, places, day, near) ==
  /\ \A i \in 1..Len(near) : \E k \in 1..Len(rows) :
       k \in places /\ near[i] = rows[k] /\ rows[k].date <= day
  /\ \A k \in 1..Len(rows) : k \in places /\ rows[k].date \in 1..day =>
       \E i \in 1..Len(near) : near[i] = rows[k]
  /\ InOrderOfDays(near)

LEMMA OneDay ==
  ASSUME NEW S, \A x \in S : x.date \in Int, NEW rows \in Seq(S), NEW places,
         NEW day \in Nat, NEW near \in Seq(S), ByDay(rows, places, day, near)
  PROVE  ByDay(rows, places, day + 1, TakeDay(rows, places, near, day + 1))
<1> DEFINE today == {k \in places : rows[k].date = day + 1}
           rest == RowsIn(rows, today)
           more == near \o rest
           n == Len(rows)
           a == Len(near)
           b == Len(rest)
<1>1. rest \in Seq(S) /\ Taken(rows, today, n, rest)
  BY RowsTaken
<1> HIDE DEF rest, n
<1>2. /\ a \in Nat /\ b \in Nat /\ Len(more) = a + b
      /\ \A i \in 1..(a + b) : more[i] = IF i <= a THEN near[i] ELSE rest[i - a]
  BY <1>1, ConcatProperties
<1>3. /\ \A i \in 1..b : \E k \in 1..n : k \in places /\ rest[i] = rows[k] /\ rows[k].date = day + 1
      /\ \A k \in 1..n : k \in places /\ rows[k].date = day + 1 => \E i \in 1..b : rest[i] = rows[k]
  BY <1>1 DEF Taken
<1>4. \A k \in 1..n : rows[k].date \in Int
  <2>1. \A k \in 1..n : rows[k] \in S
    BY DEF n
  <2> QED
    BY <2>1
<1>5. /\ \A i \in 1..a : \E k \in 1..n : k \in places /\ near[i] = rows[k] /\ rows[k].date <= day
      /\ \A k \in 1..n : k \in places /\ rows[k].date \in 1..day => \E i \in 1..a : near[i] = rows[k]
      /\ \A i, j \in 1..a : i <= j => near[i].date <= near[j].date
  BY DEF ByDay, InOrderOfDays, n
<1> HIDE DEF today, more, a, b
<1>6. \A i \in 1..a : i \in 1..(a + b) /\ more[i] = near[i]
  BY <1>2
<1>7. \A i \in 1..b : i + a \in 1..(a + b) /\ more[i + a] = rest[i]
  <2> TAKE i \in 1..b
  <2>1. i + a \in 1..(a + b) /\ ~(i + a <= a) /\ (i + a) - a = i
    BY <1>2
  <2> QED
    BY <1>2, <2>1
<1>8. \A i \in 1..(a + b) : i > a => i - a \in 1..b /\ more[i] = rest[i - a]
  BY <1>2
<1>9. \A i \in 1..(a + b) : \E k \in 1..n :
        k \in places /\ more[i] = rows[k] /\ rows[k].date <= day + 1
  <2> TAKE i \in 1..(a + b)
  <2>1. CASE i <= a
    <3>1. i \in 1..a
      BY <1>2, <2>1
    <3>2. PICK k \in 1..n : k \in places /\ near[i] = rows[k] /\ rows[k].date <= day
      BY <1>5, <3>1
    <3>3. rows[k].date <= day + 1
      BY <1>4, <3>2
    <3> QED
      BY <1>6, <3>1, <3>2, <3>3
  <2>2. CASE i > a
    <3>1. i - a \in 1..b /\ more[i] = rest[i - a]
      BY <1>8, <2>2
    <3>2. PICK k \in 1..n : k \in places /\ rest[i - a] = rows[k] /\ rows[k].date = day + 1
      BY <1>3, <3>1
    <3> QED
      BY <3>1, <3>2
  <2> QED
    BY <1>2, <2>1, <2>2
<1>10. \A k \in 1..n : k \in places /\ rows[k].date \in 1..(day + 1) =>
         \E i \in 1..(a + b) : more[i] = rows[k]
  <2> SUFFICES ASSUME NEW k \in 1..n, k \in places, rows[k].date \in 1..(day + 1)
               PROVE  \E i \in 1..(a + b) : more[i] = rows[k]
    OBVIOUS
  <2>1. CASE rows[k].date = day + 1
    BY <1>3, <1>7, <2>1
  <2>2. CASE rows[k].date \in 1..day
    BY <1>5, <1>6, <2>2
  <2> QED
    BY <2>1, <2>2
<1>11. ASSUME NEW i \in 1..(a + b), NEW j \in 1..(a + b), i <= j
       PROVE  more[i].date <= more[j].date
  <2>1. CASE j <= a
    <3>1. i \in 1..a /\ j \in 1..a
      BY <1>2, <1>11, <2>1
    <3> QED
      BY <1>5, <1>6, <1>11, <3>1
  <2>2. CASE j > a
    <3>1. j - a \in 1..b /\ more[j] = rest[j - a]
      BY <1>8, <2>2
    <3>2. more[j].date = day + 1
      BY <1>3, <3>1
    <3>3. more[i].date <= day + 1
      BY <1>9
    <3> QED
      BY <3>2, <3>3
  <2> QED
    BY <1>2, <2>1, <2>2
<1>12. TakeDay(rows, places, near, day + 1) = more
  BY DEF TakeDay, more, rest, today
<1>13. Len(more) = a + b
  BY <1>2
<1> QED
  BY <1>9, <1>10, <1>11, <1>12, <1>13 DEF ByDay, InOrderOfDays, n

\* Nearest first: the rows wanted whose day is within the calendar, in order.
LEMMA NearestFirst ==
  ASSUME NEW S, \A x \in S : x.date \in Int, NEW rows \in Seq(S), NEW places
  PROVE  /\ Nearest(rows, places) \in Seq(S)
         /\ ByDay(rows, places, LastDate, Nearest(rows, places))
<1> DEFINE n == LastDate
<1>1. n \in Nat
  BY DailyAssumption
<1>2. PICK g : DaysRun(g, S, rows, places)
  BY DaysInTurn
<1> HIDE DEF n
<1>3. /\ \A k \in 0..n : g[k] \in Seq(S)
      /\ g[0] = << >> /\ g[n] = Nearest(rows, places)
      /\ \A k \in 0..(n - 1) : g[k + 1] = TakeDay(rows, places, g[k], k + 1)
  BY <1>2 DEF DaysRun, n
<1> DEFINE K == {k \in Nat : k <= n => ByDay(rows, places, k, g[k])}
<1>4. 0 \in K
  <2>1. Len(<< >>) = 0
    OBVIOUS
  <2> QED
    BY <1>3, <2>1 DEF ByDay, InOrderOfDays
<1>5. \A k \in K : k + 1 \in K
  <2> SUFFICES ASSUME NEW k \in K, k + 1 <= n PROVE ByDay(rows, places, k + 1, g[k + 1])
    OBVIOUS
  <2>1. k \in 0..(n - 1) /\ k \in 0..n /\ k <= n
    BY <1>1
  <2>2. ByDay(rows, places, k, g[k])
    BY <2>1
  <2>3. ByDay(rows, places, k + 1, TakeDay(rows, places, g[k], k + 1))
    BY <1>3, <2>1, <2>2, OneDay
  <2> QED
    BY <1>3, <2>1, <2>3
<1>6. K \in SUBSET Nat
  OBVIOUS
<1> HIDE DEF K
<1>7. K = Nat
  BY <1>4, <1>5, <1>6, AllNumbers
<1>8. ByDay(rows, places, n, g[n])
  BY <1>1, <1>7 DEF K
<1>9. g[n] \in Seq(S)
  BY <1>1, <1>3
<1> QED
  BY <1>3, <1>8, <1>9 DEF n

-----------------------------------------------------------------------------
\* The notices of the day

\* The key that a notice of the day D[i] of an item i has.
Known(stored, D, i) == <<i, D[i]>> \in KeysOf(stored)

LEMMA KeyOfStored ==
  ASSUME NEW stored, NEW D, NEW i
  PROVE  Known(stored, D, i) <=> \E m \in stored : m.item = i /\ m.date = D[i]
  BY DEF Known, KeysOf

\* Storing a notice of the day makes its item known and forgets none.
LEMMA KeyStored ==
  ASSUME NEW stored, NEW D, NEW n, n.date = D[n.item]
  PROVE  /\ Known(StoreNotice(stored, n), D, n.item)
         /\ \A i : Known(stored, D, i) => Known(StoreNotice(stored, n), D, i)
<1> DEFINE same == {m \in stored : m.item = n.item /\ m.document = n.document}
           kept == IF \E m \in same : m.names # "none"
                   THEN (CHOOSE m \in same : TRUE).names ELSE "none"
           row == [item |-> n.item, document |-> n.document, date |-> n.date,
                   scanned |-> n.scanned \/ \E m \in same : m.scanned,
                   names |-> ReplaceTenants(kept, n)]
           after == (stored \ same) \union {row}
<1>1. StoreNotice(stored, n) = after
  BY DEF StoreNotice
<1>2. row.item = n.item /\ row.date = D[n.item]
  OBVIOUS
<1> HIDE DEF row
<1>3. \E m \in after : m.item = n.item /\ m.date = D[n.item]
  BY <1>2
<1>4. ASSUME NEW i, \E m \in stored : m.item = i /\ m.date = D[i]
      PROVE  \E m \in after : m.item = i /\ m.date = D[i]
  BY <1>3, <1>4
<1> HIDE DEF after
<1>5. Known(after, D, n.item) /\ \A i : Known(stored, D, i) => Known(after, D, i)
  BY <1>3, <1>4, KeyOfStored
<1> QED
  BY <1>1, <1>5

\* A batch of the day: every item of it that is stored is known after.
LEMMA KeysByBatch ==
  ASSUME NEW bad, NEW stored, NEW D, NEW S, NEW batch \in Seq(S),
         \A k \in 1..Len(batch) : batch[k].date = D[batch[k].item]
  PROVE  LET after == StoreBatch(bad, stored, batch) IN
         /\ \A i : Known(stored, D, i) => Known(after, D, i)
         /\ \A k \in 1..Len(batch) : batch[k].item \in bad \/ Known(after, D, batch[k].item)
<1> DEFINE n == Len(batch)
           P == 1..n
           iter == CHOOSE h : FoldOf(bad, stored, batch, P, h)
           Good(k) == /\ \A i : Known(stored, D, i) => Known(iter[1..k], D, i)
                      /\ \A j \in 1..k : batch[j].item \in bad \/ Known(iter[1..k], D, batch[j].item)
           K == {k \in Nat : k <= n => Good(k)}
<1>1. n \in Nat /\ DOMAIN batch = P
  OBVIOUS
<1>2. StoreBatch(bad, stored, batch) = iter[P]
  BY <1>1 DEF StoreBatch, FoldLeft, MapThenFoldSet, FoldOf
<1>3. FoldOf(bad, stored, batch, P, iter)
  BY <1>1, FoldExists
<1> HIDE DEF iter
<1>4. 0 \in K
  <2>1. 1..0 = {} /\ {} \in SUBSET P
    OBVIOUS
  <2>2. iter[{}] = stored
    BY <1>3, <2>1 DEF FoldOf
  <2> QED
    BY <2>1, <2>2
<1>5. \A k \in K : k + 1 \in K
  <2> SUFFICES ASSUME NEW k \in K, k + 1 <= n PROVE Good(k + 1)
    OBVIOUS
  <2>1. k \in 0..(n - 1) /\ k \in Nat /\ k <= n
    BY <1>1
  <2>2. Good(k)
    BY <2>1
  <2> HIDE DEF K, n
  <2>3. /\ 1..(k + 1) \in SUBSET P /\ 1..(k + 1) # {} /\ Max(1..(k + 1)) = k + 1
        /\ (1..(k + 1)) \ {k + 1} = 1..k /\ k + 1 \in P
    BY <1>1, <2>1, FirstPlaces
  <2>4. iter[1..(k + 1)] = StoreUnless(bad, iter[1..k], batch[k + 1])
    BY <1>3, <2>3 DEF FoldOf
  <2> DEFINE before == iter[1..k]
             later == iter[1..(k + 1)]
             one == batch[k + 1]
  <2>5. one.date = D[one.item]
    BY <2>3 DEF n
  <2> HIDE DEF before, later, one
  <2>6. /\ \A i : Known(before, D, i) => Known(later, D, i)
        /\ one.item \in bad \/ Known(later, D, one.item)
    <3>1. CASE one.item \in bad
      <4>1. later = before
        BY <2>4, <3>1 DEF StoreUnless, before, later, one
      <4> QED
        BY <3>1, <4>1
    <3>2. CASE one.item \notin bad
      <4>1. later = StoreNotice(before, one)
        BY <2>4, <3>2 DEF StoreUnless, before, later, one
      <4> QED
        BY <2>5, <4>1, KeyStored
    <3> QED
      BY <3>1, <3>2
  <2>7. \A i : Known(stored, D, i) => Known(later, D, i)
    BY <2>2, <2>6 DEF before
  <2>8. \A j \in 1..(k + 1) : batch[j].item \in bad \/ Known(later, D, batch[j].item)
    <3> TAKE j \in 1..(k + 1)
    <3>1. CASE j = k + 1
      BY <2>6, <3>1 DEF one
    <3>2. CASE j \in 1..k
      BY <2>2, <2>6, <3>2 DEF before
    <3> QED
      BY <2>1, <3>1, <3>2
  <2> QED
    BY <2>7, <2>8 DEF later
<1>6. K \in SUBSET Nat
  OBVIOUS
<1> HIDE DEF K
<1>7. K = Nat
  BY <1>4, <1>5, <1>6, AllNumbers
<1>8. Good(n)
  BY <1>1, <1>7 DEF K
<1> QED
  BY <1>2, <1>8

\* A streak of empty answers is the end of what was said.
LEMMA StreakIsLast ==
  ASSUME NEW said \in Seq({"served", "empty"}), Streak(said) >= Limit
  PROVE  /\ Len(said) >= Limit
         /\ \A k \in (Len(said) - Limit + 1)..Len(said) : said[k] = "empty"
<1> DEFINE n == Len(said)
           E == {k \in DOMAIN said : \A j \in k..n : said[j] = "empty"}
<1>1. n \in Nat /\ DOMAIN said = 1..n /\ Limit \in Nat
  BY DailyAssumption
<1>2. Cardinality(E) >= Limit
  BY DEF Streak
<1>3. SUFFICES ASSUME ~(n >= Limit /\ \A k \in (n - Limit + 1)..n : said[k] = "empty")
               PROVE  FALSE
  OBVIOUS
<1> HIDE DEF n
<1>4. \E m \in 0..n : m < Limit /\ E \subseteq (n - m + 1)..n
  <2>1. CASE ~(n >= Limit)
    <3>1. E \subseteq 1..n
      BY <1>1
    <3>2. n \in 0..n /\ n < Limit /\ n - n + 1 = 1
      BY <1>1, <2>1
    <3> QED
      BY <3>1, <3>2
  <2>2. CASE n >= Limit
    <3>1. PICK k \in (n - Limit + 1)..n : said[k] # "empty"
      BY <1>3, <2>2
    <3>2. k \in Int /\ n - k \in 0..n /\ n - k < Limit /\ n - (n - k) + 1 = k + 1
      BY <1>1, <2>2
    <3>3. E \subseteq (k + 1)..n
      <4> SUFFICES ASSUME NEW i \in E PROVE i \in (k + 1)..n
        OBVIOUS
      <4>1. i \in 1..n /\ \A j \in i..n : said[j] = "empty"
        BY <1>1
      <4>2. ~(i <= k)
        BY <1>1, <3>1, <3>2, <4>1
      <4> QED
        BY <1>1, <3>2, <4>1, <4>2
    <3> QED
      BY <3>2, <3>3
  <2> QED
    BY <1>1, <2>1, <2>2
<1>5. PICK m \in 0..n : m < Limit /\ E \subseteq (n - m + 1)..n
  BY <1>4
<1> HIDE DEF E
<1>6. IsFiniteSet((n - m + 1)..n) /\ Cardinality((n - m + 1)..n) = m
  <2>1. n - m + 1 \in Int /\ n \in Int
    BY <1>1
  <2>2. Cardinality((n - m + 1)..n) = IF n - m + 1 > n THEN 0 ELSE n - (n - m + 1) + 1
    BY <2>1, FS_Interval
  <2>3. IsFiniteSet((n - m + 1)..n)
    BY <2>1, FS_Interval
  <2> QED
    BY <1>1, <2>2, <2>3
<1>7. Cardinality(E) <= m /\ Cardinality(E) \in Nat
  BY <1>5, <1>6, FS_Subset, FS_CardinalityType
<1> QED
  BY <1>1, <1>2, <1>5, <1>7

-----------------------------------------------------------------------------
\* Every notice that can be had

\* The rows of a court, each with the day D of its item.
Days == [i \in Item |-> site[i].date]
CourtRows(c, D) == {[item |-> i, date |-> D[i]] : i \in Range(Listing[c])}
RowsUpTo(c, D) == UNION {CourtRows(b, D) : b \in 1..c}

\* What was found is of the day, and of the court.
FoundToday(j, D) ==
  /\ j.court \in Court /\ DOMAIN j.found = Court
  /\ \A c \in Court : j.found[c] \in Seq(CourtRows(c, D))

\* A row has its notice, was answered without one, or is left to the next run.
RowSettled(j, stored, row) ==
  <<row.item, row.date>> \in KeysOf(stored) \/ row.item \in j.lost \/ row \in j.left
CourtSettled(j, stored, c) ==
  c \in j.failed \/ \A k \in FirstRows(j.found[c]) : RowSettled(j, stored, j.found[c][k])
SettledUpTo(j, stored, c) == \A b \in 1..c : CourtSettled(j, stored, b)

\* What was there when the stage began is there for the day still.
HadIsKnown(j, stored, D) == \A i : <<i, D[i]>> \in j.have => Known(stored, D, i)

\* Before a court, and after it.
CourtOpens(j, stored, D) ==
  /\ FoundToday(j, D) /\ HadIsKnown(j, stored, D)
  /\ SettledUpTo(j, stored, j.court - 1) /\ j.left \subseteq RowsUpTo(j.court - 1, D)
  /\ j.batch = << >> /\ j.said = << >>
CourtCloses(j, stored, D) ==
  /\ FoundToday(j, D) /\ HadIsKnown(j, stored, D)
  /\ SettledUpTo(j, stored, j.court) /\ j.left \subseteq RowsUpTo(j.court, D)

\* Within it: rows are asked for by day, a row is asked for until it is settled or
\* in the batch, and only a streak leaves some, none of them nearer than the batch.
AskedByDay(j, D) ==
  /\ j.todo \in Seq(CourtRows(j.court, D)) /\ InOrderOfDays(j.todo)
  /\ \A b \in 1..Len(j.batch) :
       /\ [item |-> j.batch[b].item, date |-> j.batch[b].date] \in CourtRows(j.court, D)
       /\ \A t \in 1..Len(j.todo) : j.batch[b].date <= j.todo[t].date
AskedOrSettled(j, stored, row) ==
  \/ RowSettled(j, stored, row)
  \/ \E t \in 1..Len(j.todo) : j.todo[t] = row
  \/ \E b \in 1..Len(j.batch) : j.batch[b].item = row.item
HeldBack(j, D) ==
  LET held == j.left \intersect CourtRows(j.court, D) IN
  held # {} =>
    /\ j.todo = << >> /\ Len(j.said) >= Limit
    /\ \A k \in (Len(j.said) - Limit + 1)..Len(j.said) : j.said[k] = "empty"
    /\ \A b \in 1..Len(j.batch), row \in held : j.batch[b].date <= row.date
CourtRuns(j, stored, D) ==
  /\ FoundToday(j, D) /\ HadIsKnown(j, stored, D)
  /\ SettledUpTo(j, stored, j.court - 1) /\ j.left \subseteq RowsUpTo(j.court, D)
  /\ AskedByDay(j, D) /\ HeldBack(j, D) /\ j.said \in Seq({"served", "empty"})
  /\ \A k \in FirstRows(j.found[j.court]) : AskedOrSettled(j, stored, j.found[j.court][k])

\* The run, stage by stage.
Sites == [date : 1..LastDate, notice : {0, 1, 2}, listed : BOOLEAN, closed : BOOLEAN]
StageOf(j, stored, D) ==
  /\ j.pc \in {"search", "keys"} =>
       /\ FoundToday(j, D) /\ j.left = {} /\ j.batch = << >> /\ j.said = << >>
       /\ j.pc = "keys" => j.court = 1
  /\ j.pc = "details" => CourtRuns(j, stored, D)
  /\ j.pc = "results" => SettledUpTo(j, stored, Len(Listing))
StageInv == StageOf(job, base.notices, Days)
CompleteInv == DailyInv /\ site \in [Item -> Sites] /\ StageInv

\* The rows

LEMMA CourtsListed ==
  /\ Len(Listing) \in Nat /\ Len(Listing) >= 1 /\ Court = 1..Len(Listing)
  /\ \A c \in Court : DOMAIN Listing[c] = 1..Len(Listing[c]) /\ Len(Listing[c]) \in Nat
  /\ \A c \in Court : \A k \in DOMAIN Listing[c] : Listing[c][k] \in Item
<1> DEFINE S == Seq(Item)
<1>1. Listing \in Seq(S) /\ Listing # << >>
  BY ListingAssumption DEF Item
<1>2. /\ Len(Listing) \in Nat /\ Len(Listing) >= 1 /\ Court = 1..Len(Listing)
      /\ \A c \in Court : Listing[c] \in S
  <2> HIDE DEF S
  <2> QED
    BY <1>1, EmptySeq DEF Court
<1>3. ASSUME NEW c \in Court
      PROVE  /\ DOMAIN Listing[c] = 1..Len(Listing[c]) /\ Len(Listing[c]) \in Nat
             /\ \A k \in DOMAIN Listing[c] : Listing[c][k] \in Item
  <2> DEFINE s == Listing[c]
  <2>1. s \in Seq(Item)
    BY <1>2
  <2> HIDE DEF s
  <2>2. DOMAIN s = 1..Len(s) /\ Len(s) \in Nat /\ \A k \in DOMAIN s : s[k] \in Item
    BY <2>1
  <2> QED
    BY <2>2 DEF s
<1> QED
  BY <1>2, <1>3

LEMMA RowOfCourt ==
  ASSUME NEW c \in Court, NEW D \in [Item -> 1..LastDate], NEW row \in CourtRows(c, D)
  PROVE  /\ row = [item |-> row.item, date |-> row.date] /\ row.item \in Item
         /\ row.item \in Range(Listing[c])
         /\ row.date = D[row.item] /\ row.date \in 1..LastDate /\ row.date \in Int
<1>1. PICK i \in Range(Listing[c]) : row = [item |-> i, date |-> D[i]]
  BY DEF CourtRows
<1>2. i \in Item
  BY CourtsListed DEF Range
<1> QED
  BY <1>1, <1>2

\* An item is listed by one court.
LEMMA CourtsApart ==
  ASSUME NEW c \in Court, NEW D \in [Item -> 1..LastDate], NEW row \in RowsUpTo(c - 1, D)
  PROVE  row \notin CourtRows(c, D)
<1>1. PICK b \in 1..(c - 1) : row \in CourtRows(b, D)
  BY DEF RowsUpTo
<1>2. b \in Court /\ b # c
  BY CourtsListed
<1>3. Range(Listing[b]) \intersect Range(Listing[c]) = {}
  BY <1>2, ListingAssumption DEF Court
<1>4. row.item \in Range(Listing[b])
  BY <1>1, <1>2, RowOfCourt
<1>5. SUFFICES ASSUME row \in CourtRows(c, D) PROVE FALSE
  OBVIOUS
<1>6. row.item \in Range(Listing[c])
  BY <1>5, RowOfCourt
<1> QED
  BY <1>3, <1>4, <1>6

LEMMA RowsGrow ==
  ASSUME NEW c \in Nat, NEW D
  PROVE  RowsUpTo(c - 1, D) \subseteq RowsUpTo(c, D) /\ (c > 0 => CourtRows(c, D) \subseteq RowsUpTo(c, D))
  BY DEF RowsUpTo

\* What a search answers.
LEMMA PageOfCourt ==
  ASSUME site \in [Item -> Sites], NEW c \in Court, NEW page
  PROVE  PageAt(RowsOf(c), page) \in Seq(CourtRows(c, Days))
<1> DEFINE S == CourtRows(c, Days)
           row == [k \in DOMAIN Listing[c] |->
                     [item |-> Listing[c][k], date |-> site[Listing[c][k]].date]]
<1>1. \A k \in DOMAIN Listing[c] : [item |-> Listing[c][k], date |-> site[Listing[c][k]].date] \in S
  <2> TAKE k \in DOMAIN Listing[c]
  <2>1. Listing[c][k] \in Range(Listing[c]) /\ Listing[c][k] \in Item
    BY CourtsListed DEF Range
  <2>2. Days[Listing[c][k]] = site[Listing[c][k]].date
    BY <2>1 DEF Days
  <2> QED
    BY <2>1, <2>2 DEF CourtRows
<1> HIDE DEF S
<1>2. row \in Seq(S)
  BY <1>1, CourtsListed
<1>3. RowsOf(c) = RowsIn(row, {k \in DOMAIN row : site[row[k].item].listed})
  BY DEF RowsOf
<1> HIDE DEF row
<1>4. RowsOf(c) \in Seq(S)
  BY <1>2, <1>3, RowsTaken
<1> QED
  BY <1>4, RowsTaken DEF PageAt, S

\* From court to court

LEMMA OnwardFields ==
  ASSUME NEW j, DOMAIN j = JobFields, NEW next
  PROVE  LET o == Onward(j, next) IN
         /\ DOMAIN o = JobFields /\ o.todo = << >> /\ o.batch = << >> /\ o.said = << >>
         /\ o.found = j.found /\ o.have = j.have /\ o.scans = j.scans /\ o.reader = j.reader
         /\ o.lost = j.lost /\ o.left = j.left /\ o.failed = j.failed
         /\ j.court < Len(Listing) => o.court = j.court + 1 /\ o.pc = j.pc
         /\ ~(j.court < Len(Listing)) => o.court = 1 /\ o.pc = next
<1> DEFINE rest == [j EXCEPT !.page = 1, !.total = 0, !.todo = << >>, !.batch = << >>, !.said = << >>]
<1>1. /\ DOMAIN rest = JobFields /\ rest.todo = << >> /\ rest.batch = << >> /\ rest.said = << >>
      /\ rest.found = j.found /\ rest.have = j.have /\ rest.scans = j.scans
      /\ rest.reader = j.reader /\ rest.lost = j.lost /\ rest.left = j.left
      /\ rest.failed = j.failed /\ rest.court = j.court /\ rest.pc = j.pc
  BY DEF JobFields
<1>2. Onward(j, next) = IF j.court < Len(Listing) THEN [rest EXCEPT !.court = @ + 1]
                        ELSE [rest EXCEPT !.court = 1, !.pc = next]
  BY DEF Onward
<1> HIDE DEF rest
<1>3. CASE j.court < Len(Listing)
  <2>1. Onward(j, next) = [rest EXCEPT !.court = @ + 1]
    BY <1>2, <1>3
  <2> QED
    BY <1>1, <1>3, <2>1 DEF JobFields
<1>4. CASE ~(j.court < Len(Listing))
  <2>1. Onward(j, next) = [rest EXCEPT !.court = 1, !.pc = next]
    BY <1>2, <1>4
  <2> QED
    BY <1>1, <1>4, <2>1 DEF JobFields
<1> QED
  BY <1>3, <1>4

LEMMA BeginFields ==
  ASSUME NEW j, DOMAIN j = JobFields
  PROVE  LET o == BeginCourt(j)
             rows == j.found[j.court]
         IN
         /\ DOMAIN o = JobFields /\ o.pc = "details"
         /\ o.todo = Nearest(rows, {k \in FirstRows(rows) : Wanted(j, rows[k])})
         /\ o.batch = j.batch /\ o.said = j.said /\ o.court = j.court
         /\ o.found = j.found /\ o.have = j.have
         /\ o.lost = j.lost /\ o.left = j.left /\ o.failed = j.failed
<1> DEFINE rows == j.found[j.court]
           near == Nearest(rows, {k \in FirstRows(rows) : Wanted(j, rows[k])})
<1>1. BeginCourt(j) = [j EXCEPT !.pc = "details", !.todo = near]
  BY DEF BeginCourt
<1> HIDE DEF near
<1>2. LET o == BeginCourt(j) IN
         /\ DOMAIN o = JobFields /\ o.pc = "details" /\ o.todo = near
         /\ o.batch = j.batch /\ o.said = j.said /\ o.court = j.court
         /\ o.found = j.found /\ o.have = j.have
         /\ o.lost = j.lost /\ o.left = j.left /\ o.failed = j.failed
  BY <1>1 DEF JobFields
<1> QED
  BY <1>2 DEF near

\* What is settled depends on these fields alone.
LEMMA SameSettled ==
  ASSUME NEW j, NEW o, NEW stored, NEW c,
         o.found = j.found, o.lost = j.lost, o.left = j.left, o.failed = j.failed
  PROVE  SettledUpTo(o, stored, c) <=> SettledUpTo(j, stored, c)
  BY DEF SettledUpTo, CourtSettled, RowSettled

\* A court begins with all the rows that are wanted, by day; the others are known.
LEMMA CourtBegins ==
  ASSUME NEW j, DOMAIN j = JobFields, NEW stored, NEW D \in [Item -> 1..LastDate],
         CourtOpens(j, stored, D)
  PROVE  /\ BeginCourt(j).pc = "details" /\ DOMAIN BeginCourt(j) = JobFields
         /\ CourtRuns(BeginCourt(j), stored, D)
<1> DEFINE c == j.court
           rows == j.found[c]
           S == CourtRows(c, D)
           places == {k \in FirstRows(rows) : Wanted(j, rows[k])}
           o == BeginCourt(j)
<1>1. /\ c \in Court /\ rows \in Seq(S) /\ c \in Nat
      /\ j.batch = << >> /\ j.said = << >> /\ j.left \subseteq RowsUpTo(c - 1, D)
  BY CourtsListed DEF CourtOpens, FoundToday
<1>2. /\ DOMAIN o = JobFields /\ o.pc = "details" /\ o.todo = Nearest(rows, places)
      /\ o.batch = << >> /\ o.said = << >> /\ o.court = c
      /\ o.found = j.found /\ o.have = j.have
      /\ o.lost = j.lost /\ o.left = j.left /\ o.failed = j.failed
  BY <1>1, BeginFields
<1>3. \A row \in S : row.date \in Int /\ row.date \in 1..LastDate /\ row.date = D[row.item]
  BY <1>1, RowOfCourt
<1>4. DOMAIN rows = 1..Len(rows) /\ \A k \in 1..Len(rows) : rows[k] \in S
  BY <1>1
<1> HIDE DEF S, rows, o
<1>5. o.todo \in Seq(S) /\ ByDay(rows, places, LastDate, o.todo)
  BY <1>1, <1>2, <1>3, NearestFirst
<1> HIDE DEF places
<1>6. FoundToday(o, D)
  BY <1>2 DEF CourtOpens, FoundToday
<1>7. HadIsKnown(o, stored, D)
  BY <1>2 DEF CourtOpens, HadIsKnown
<1>8. SettledUpTo(o, stored, c - 1)
  BY <1>2, SameSettled DEF CourtOpens
<1>9. o.left \subseteq RowsUpTo(c, D)
  BY <1>1, <1>2, RowsGrow
<1>10. AskedByDay(o, D)
  <2>1. Len(o.batch) = 0
    BY <1>2
  <2> QED
    BY <1>2, <1>5, <2>1 DEF AskedByDay, ByDay, S
<1>11. HeldBack(o, D)
  <2>1. \A row \in j.left : row \notin CourtRows(c, D)
    BY <1>1, CourtsApart
  <2>2. o.left \intersect CourtRows(o.court, D) = {}
    BY <1>2, <2>1
  <2> QED
    BY <2>2 DEF HeldBack
<1>12. o.said \in Seq({"served", "empty"})
  BY <1>2
<1>13. ASSUME NEW k \in FirstRows(rows) PROVE AskedOrSettled(o, stored, rows[k])
  <2>1. k \in 1..Len(rows) /\ rows[k] \in S
    BY <1>4 DEF FirstRows
  <2>2. CASE Wanted(j, rows[k])
    <3>1. k \in places /\ rows[k].date \in 1..LastDate
      BY <1>3, <2>1, <2>2 DEF places
    <3>2. \E i \in 1..Len(o.todo) : o.todo[i] = rows[k]
      BY <1>5, <2>1, <3>1 DEF ByDay
    <3> QED
      BY <3>2 DEF AskedOrSettled
  <2>3. CASE ~Wanted(j, rows[k])
    <3>1. <<rows[k].item, rows[k].date>> \in j.have
      BY <2>3 DEF Wanted
    <3>2. rows[k].date = D[rows[k].item]
      BY <1>3, <2>1
    <3>3. Known(stored, D, rows[k].item)
      BY <3>1, <3>2 DEF CourtOpens, HadIsKnown
    <3>4. <<rows[k].item, rows[k].date>> \in KeysOf(stored)
      BY <3>2, <3>3 DEF Known
    <3> QED
      BY <3>4 DEF AskedOrSettled, RowSettled
  <2> QED
    BY <2>2, <2>3
<1>14. \A k \in FirstRows(o.found[o.court]) : AskedOrSettled(o, stored, o.found[o.court][k])
  BY <1>2, <1>13 DEF rows
<1>15. CourtRuns(o, stored, D)
  BY <1>2, <1>6, <1>7, <1>8, <1>9, <1>10, <1>11, <1>12, <1>14 DEF CourtRuns
<1> QED
  BY <1>2, <1>15 DEF o

\* After a court the next one begins, or the results do.
LEMMA CourtFollows ==
  ASSUME NEW j, DOMAIN j = JobFields, j.pc = "details",
         NEW stored, NEW D \in [Item -> 1..LastDate], CourtCloses(j, stored, D)
  PROVE  \/ NextCourt(j).pc = "details" /\ CourtRuns(NextCourt(j), stored, D)
         \/ NextCourt(j).pc = "results" /\ SettledUpTo(NextCourt(j), stored, Len(Listing))
<1> DEFINE o == Onward(j, "results")
           c == j.court
<1>1. /\ DOMAIN o = JobFields /\ o.batch = << >> /\ o.said = << >>
      /\ o.found = j.found /\ o.have = j.have
      /\ o.lost = j.lost /\ o.left = j.left /\ o.failed = j.failed
      /\ c < Len(Listing) => o.court = c + 1 /\ o.pc = "details"
      /\ ~(c < Len(Listing)) => o.court = 1 /\ o.pc = "results"
  BY OnwardFields
<1>2. /\ FoundToday(j, D) /\ HadIsKnown(j, stored, D)
      /\ SettledUpTo(j, stored, c) /\ j.left \subseteq RowsUpTo(c, D)
  BY DEF CourtCloses
<1>3. c \in Court /\ c \in 1..Len(Listing) /\ Len(Listing) \in Nat /\ Court = 1..Len(Listing)
  BY <1>2, CourtsListed DEF FoundToday
<1>4. NextCourt(j) = IF o.pc = "details" THEN BeginCourt(o) ELSE o
  BY DEF NextCourt
<1> HIDE DEF o
<1>5. SettledUpTo(o, stored, c)
  BY <1>1, <1>2, SameSettled
<1>6. CASE c < Len(Listing)
  <2>1. o.court = c + 1 /\ o.court \in Court /\ (c + 1) - 1 = c
    BY <1>1, <1>3, <1>6
  <2>2. CourtOpens(o, stored, D)
    BY <1>1, <1>2, <1>5, <2>1 DEF CourtOpens, FoundToday, HadIsKnown
  <2>3. BeginCourt(o).pc = "details" /\ CourtRuns(BeginCourt(o), stored, D)
    BY <1>1, <2>2, CourtBegins
  <2> QED
    BY <1>1, <1>4, <1>6, <2>3
<1>7. CASE ~(c < Len(Listing))
  <2>1. c = Len(Listing)
    BY <1>3, <1>7
  <2> QED
    BY <1>1, <1>4, <1>5, <1>7, <2>1
<1> QED
  BY <1>6, <1>7

\* One row of a court

\* The first row of a list by day, and the rows after it.
LEMMA FirstAndRest ==
  ASSUME NEW S, NEW todo \in Seq(S), todo # << >>, InOrderOfDays(todo)
  PROVE  /\ Head(todo) = todo[1] /\ todo[1] \in S /\ 1 \in 1..Len(todo)
         /\ Tail(todo) \in Seq(S) /\ InOrderOfDays(Tail(todo))
         /\ \A t \in 1..Len(Tail(todo)) : t + 1 \in 1..Len(todo) /\ Tail(todo)[t] = todo[t + 1]
         /\ \A t \in 1..Len(todo) : t = 1 \/ (t - 1 \in 1..Len(Tail(todo)) /\ Tail(todo)[t - 1] = todo[t])
         /\ \A t \in 1..Len(Tail(todo)) : todo[1].date <= Tail(todo)[t].date
<1> DEFINE n == Len(todo)
           rest == Tail(todo)
<1>1. /\ n \in Nat /\ n >= 1 /\ Head(todo) = todo[1] /\ todo[1] \in S
      /\ rest \in Seq(S) /\ Len(rest) = n - 1 /\ \A t \in 1..(n - 1) : rest[t] = todo[t + 1]
  BY EmptySeq, HeadTailProperties
<1> HIDE DEF n, rest
<1>2. \A t \in 1..Len(rest) : t + 1 \in 1..n /\ rest[t] = todo[t + 1]
  BY <1>1
<1>3. \A t \in 1..n : t = 1 \/ (t - 1 \in 1..Len(rest) /\ rest[t - 1] = todo[t])
  <2> TAKE t \in 1..n
  <2>1. CASE t > 1
    <3>1. t - 1 \in 1..(n - 1) /\ (t - 1) + 1 = t
      BY <1>1, <2>1
    <3> QED
      BY <1>1, <3>1
  <2> QED
    BY <1>1, <2>1
<1>4. \A i, j \in 1..n : i <= j => todo[i].date <= todo[j].date
  BY DEF InOrderOfDays, n
<1>5. \A i, j \in 1..Len(rest) : i <= j => rest[i].date <= rest[j].date
  <2> TAKE i, j \in 1..Len(rest)
  <2>1. i + 1 \in 1..n /\ j + 1 \in 1..n /\ (i <= j => i + 1 <= j + 1)
    BY <1>1
  <2> QED
    BY <1>2, <1>4, <2>1
<1>6. \A t \in 1..Len(rest) : todo[1].date <= rest[t].date
  <2> TAKE t \in 1..Len(rest)
  <2>1. 1 \in 1..n /\ t + 1 \in 1..n /\ 1 <= t + 1
    BY <1>1
  <2> QED
    BY <1>2, <1>4, <2>1
<1>7. InOrderOfDays(rest)
  BY <1>5 DEF InOrderOfDays
<1> QED
  BY <1>1, <1>2, <1>3, <1>6, <1>7 DEF n, rest

\* Fields that a row does not touch.
SameCourt(j, o) ==
  /\ o.court = j.court /\ o.found = j.found /\ o.have = j.have /\ j.failed \subseteq o.failed
  /\ j.lost \subseteq o.lost /\ j.left \subseteq o.left

LEMMA StillSettled ==
  ASSUME NEW j, NEW o, SameCourt(j, o), NEW stored
  PROVE  /\ \A row : RowSettled(j, stored, row) => RowSettled(o, stored, row)
         /\ \A c : SettledUpTo(j, stored, c) => SettledUpTo(o, stored, c)
  BY DEF SameCourt, RowSettled, CourtSettled, SettledUpTo

\* The batch after a row: one notice more, of the row, or the row is lost.
RowTaken(j, o) ==
  LET row == Head(j.todo) IN
  \/ o.batch = j.batch /\ row.item \in o.lost
  \/ \E n : o.batch = Append(j.batch, n) /\ n.item = row.item /\ n.date = row.date

LEMMA BatchAfter ==
  ASSUME NEW j, NEW o, NEW S, j.batch \in Seq(S), RowTaken(j, o)
  PROVE  /\ \A b \in 1..Len(j.batch) : b \in 1..Len(o.batch) /\ o.batch[b] = j.batch[b]
         /\ \A b \in 1..Len(o.batch) :
              \/ b \in 1..Len(j.batch) /\ o.batch[b] = j.batch[b]
              \/ o.batch[b].item = Head(j.todo).item /\ o.batch[b].date = Head(j.todo).date
         /\ \/ Head(j.todo).item \in o.lost
            \/ \E b \in 1..Len(o.batch) : o.batch[b].item = Head(j.todo).item
<1> DEFINE row == Head(j.todo)
           l == Len(j.batch)
<1>1. CASE o.batch = j.batch /\ row.item \in o.lost
  BY <1>1
<1>2. ASSUME NEW n, o.batch = Append(j.batch, n), n.item = row.item, n.date = row.date
      PROVE  /\ \A b \in 1..l : b \in 1..Len(o.batch) /\ o.batch[b] = j.batch[b]
             /\ \A b \in 1..Len(o.batch) :
                  \/ b \in 1..l /\ o.batch[b] = j.batch[b]
                  \/ o.batch[b].item = row.item /\ o.batch[b].date = row.date
             /\ \E b \in 1..Len(o.batch) : o.batch[b].item = row.item
  <2>1. j.batch \in Seq(S \union {n})
    <3>1. S \subseteq S \union {n}
      OBVIOUS
    <3> QED
      BY <3>1
  <2>2. /\ l \in Nat /\ Len(o.batch) = l + 1 /\ o.batch[l + 1] = n
        /\ \A b \in 1..l : o.batch[b] = j.batch[b]
    BY <1>2, <2>1, AppendProperties
  <2> HIDE DEF l, row
  <2>3. l + 1 \in 1..(l + 1) /\ \A b \in 1..(l + 1) : b \in 1..l \/ b = l + 1
    BY <2>2
  <2>4. \A b \in 1..l : b \in 1..(l + 1)
    BY <2>2
  <2> QED
    BY <1>2, <2>2, <2>3, <2>4
<1> QED
  BY <1>1, <1>2 DEF RowTaken

\* A row asked for, answered with a notice, without one, or not at all.
LEMMA RowAsked ==
  ASSUME NEW j, NEW o, NEW stored, NEW D \in [Item -> 1..LastDate], CourtRuns(j, stored, D),
         NEW S, j.batch \in Seq(S), j.todo # << >>, SameCourt(j, o), RowTaken(j, o),
         o.left = j.left, o.todo = Tail(j.todo), o.said \in Seq({"served", "empty"})
  PROVE  CourtRuns(o, stored, D)
<1> DEFINE c == j.court
           T == CourtRows(c, D)
           row == Head(j.todo)
<1>1. /\ FoundToday(j, D) /\ HadIsKnown(j, stored, D) /\ SettledUpTo(j, stored, c - 1)
      /\ j.left \subseteq RowsUpTo(c, D) /\ AskedByDay(j, D) /\ HeldBack(j, D)
      /\ \A k \in FirstRows(j.found[c]) : AskedOrSettled(j, stored, j.found[c][k])
  BY DEF CourtRuns
<1>2. /\ o.court = c /\ o.found = j.found /\ o.have = j.have
  BY DEF SameCourt
<1>3. FoundToday(o, D) /\ HadIsKnown(o, stored, D) /\ SettledUpTo(o, stored, o.court - 1)
  BY <1>1, <1>2, StillSettled DEF FoundToday, HadIsKnown
<1>4. /\ j.todo \in Seq(T) /\ InOrderOfDays(j.todo)
      /\ \A b \in 1..Len(j.batch) : [item |-> j.batch[b].item, date |-> j.batch[b].date] \in T
      /\ \A b \in 1..Len(j.batch) : \A t \in 1..Len(j.todo) : j.batch[b].date <= j.todo[t].date
  BY <1>1 DEF AskedByDay
<1> HIDE DEF T
<1>5. /\ row = j.todo[1] /\ row \in T /\ 1 \in 1..Len(j.todo)
      /\ o.todo \in Seq(T) /\ InOrderOfDays(o.todo)
      /\ \A t \in 1..Len(o.todo) : t + 1 \in 1..Len(j.todo) /\ o.todo[t] = j.todo[t + 1]
      /\ \A t \in 1..Len(j.todo) : t = 1 \/ (t - 1 \in 1..Len(o.todo) /\ o.todo[t - 1] = j.todo[t])
      /\ \A t \in 1..Len(o.todo) : row.date <= o.todo[t].date
  BY <1>4, FirstAndRest
<1>6. row = [item |-> row.item, date |-> row.date]
  BY <1>1, <1>5, RowOfCourt DEF FoundToday, T
<1>7. /\ \A b \in 1..Len(j.batch) : b \in 1..Len(o.batch) /\ o.batch[b] = j.batch[b]
      /\ \A b \in 1..Len(o.batch) :
           \/ b \in 1..Len(j.batch) /\ o.batch[b] = j.batch[b]
           \/ o.batch[b].item = row.item /\ o.batch[b].date = row.date
      /\ \/ row.item \in o.lost
         \/ \E b \in 1..Len(o.batch) : o.batch[b].item = row.item
  BY BatchAfter
<1> HIDE DEF row
<1>8. AskedByDay(o, D)
  <2>1. ASSUME NEW b \in 1..Len(o.batch)
        PROVE  /\ [item |-> o.batch[b].item, date |-> o.batch[b].date] \in T
               /\ \A t \in 1..Len(o.todo) : o.batch[b].date <= o.todo[t].date
    <3>1. CASE b \in 1..Len(j.batch) /\ o.batch[b] = j.batch[b]
      BY <1>4, <1>5, <3>1
    <3>2. CASE o.batch[b].item = row.item /\ o.batch[b].date = row.date
      BY <1>5, <1>6, <3>2
    <3> QED
      BY <1>7, <3>1, <3>2
  <2> QED
    BY <1>2, <1>5, <2>1 DEF AskedByDay, T
<1>9. HeldBack(o, D)
  <2>1. j.left \intersect CourtRows(j.court, D) = {}
    BY <1>1 DEF HeldBack
  <2> QED
    BY <1>2, <2>1 DEF HeldBack
<1>10. ASSUME NEW r, AskedOrSettled(j, stored, r) PROVE AskedOrSettled(o, stored, r)
  <2>1. CASE RowSettled(j, stored, r)
    BY <2>1, StillSettled DEF AskedOrSettled
  <2>2. ASSUME NEW t \in 1..Len(j.todo), j.todo[t] = r PROVE AskedOrSettled(o, stored, r)
    <3>1. CASE t = 1
      <4>1. r = row
        BY <1>5, <2>2, <3>1
      <4> QED
        BY <1>7, <4>1 DEF AskedOrSettled, RowSettled
    <3>2. CASE t # 1
      BY <1>5, <2>2, <3>2 DEF AskedOrSettled
    <3> QED
      BY <3>1, <3>2
  <2>3. ASSUME NEW b \in 1..Len(j.batch), j.batch[b].item = r.item PROVE AskedOrSettled(o, stored, r)
    BY <1>7, <2>3 DEF AskedOrSettled
  <2> QED
    BY <1>10, <2>1, <2>2, <2>3 DEF AskedOrSettled
<1> QED
  BY <1>1, <1>2, <1>3, <1>8, <1>9, <1>10 DEF CourtRuns

\* The court holds back: the rest of the rows is left.
LEMMA CourtHolds ==
  ASSUME NEW j, NEW o, NEW stored, NEW D \in [Item -> 1..LastDate], CourtRuns(j, stored, D),
         j.todo # << >>, SameCourt(j, o), o.batch = j.batch, Head(j.todo).item \in o.lost,
         o.left = j.left \union {Tail(j.todo)[k] : k \in DOMAIN Tail(j.todo)}, o.todo = << >>,
         o.said \in Seq({"served", "empty"}), Streak(o.said) >= Limit
  PROVE  CourtRuns(o, stored, D)
<1> DEFINE c == j.court
           T == CourtRows(c, D)
           row == Head(j.todo)
           rest == Tail(j.todo)
<1>1. /\ FoundToday(j, D) /\ HadIsKnown(j, stored, D) /\ SettledUpTo(j, stored, c - 1)
      /\ j.left \subseteq RowsUpTo(c, D) /\ AskedByDay(j, D) /\ HeldBack(j, D)
      /\ \A k \in FirstRows(j.found[c]) : AskedOrSettled(j, stored, j.found[c][k])
  BY DEF CourtRuns
<1>2. /\ o.court = c /\ o.found = j.found /\ o.have = j.have
  BY DEF SameCourt
<1>3. FoundToday(o, D) /\ HadIsKnown(o, stored, D) /\ SettledUpTo(o, stored, o.court - 1)
  BY <1>1, <1>2, StillSettled DEF FoundToday, HadIsKnown
<1>4. /\ j.todo \in Seq(T) /\ InOrderOfDays(j.todo)
      /\ \A b \in 1..Len(j.batch) : [item |-> j.batch[b].item, date |-> j.batch[b].date] \in T
      /\ \A b \in 1..Len(j.batch) : \A t \in 1..Len(j.todo) : j.batch[b].date <= j.todo[t].date
  BY <1>1 DEF AskedByDay
<1> HIDE DEF T
<1>5. /\ row = j.todo[1] /\ rest \in Seq(T)
      /\ \A t \in 1..Len(rest) : t + 1 \in 1..Len(j.todo) /\ rest[t] = j.todo[t + 1]
      /\ \A t \in 1..Len(j.todo) : t = 1 \/ (t - 1 \in 1..Len(rest) /\ rest[t - 1] = j.todo[t])
  BY <1>4, FirstAndRest
<1> HIDE DEF row, rest
<1>6. DOMAIN rest = 1..Len(rest) /\ \A t \in 1..Len(rest) : rest[t] \in T
  BY <1>5
<1>7. o.left = j.left \union {rest[t] : t \in 1..Len(rest)}
  BY <1>6 DEF rest
<1>8. o.left \subseteq RowsUpTo(c, D)
  <2>1. c \in Nat /\ c > 0
    BY <1>1, CourtsListed DEF FoundToday
  <2>2. T \subseteq RowsUpTo(c, D)
    BY <2>1, RowsGrow DEF T
  <2> QED
    BY <1>1, <1>6, <1>7, <2>2
<1>9. AskedByDay(o, D)
  <2>1. o.todo \in Seq(T) /\ Len(o.todo) = 0
    OBVIOUS
  <2> QED
    BY <1>2, <1>4, <2>1 DEF AskedByDay, InOrderOfDays, T
<1>10. HeldBack(o, D)
  <2>1. j.left \intersect CourtRows(j.court, D) = {}
    BY <1>1 DEF HeldBack
  <2>2. /\ Len(o.said) >= Limit
        /\ \A k \in (Len(o.said) - Limit + 1)..Len(o.said) : o.said[k] = "empty"
    BY StreakIsLast
  <2>3. \A b \in 1..Len(o.batch), r \in o.left \intersect T : o.batch[b].date <= r.date
    <3> TAKE b \in 1..Len(o.batch), r \in o.left \intersect T
    <3>1. PICK t \in 1..Len(rest) : r = rest[t]
      BY <1>7, <2>1 DEF T
    <3> QED
      BY <1>4, <1>5, <3>1
  <2> QED
    BY <1>2, <2>2, <2>3 DEF HeldBack, T
<1>11. ASSUME NEW r, AskedOrSettled(j, stored, r) PROVE AskedOrSettled(o, stored, r)
  <2>1. CASE RowSettled(j, stored, r)
    BY <2>1, StillSettled DEF AskedOrSettled
  <2>2. ASSUME NEW t \in 1..Len(j.todo), j.todo[t] = r PROVE AskedOrSettled(o, stored, r)
    <3>1. CASE t = 1
      <4>1. r = row
        BY <1>5, <2>2, <3>1
      <4> QED
        BY <4>1 DEF AskedOrSettled, RowSettled, row
    <3>2. CASE t # 1
      <4>1. r \in o.left
        BY <1>5, <1>7, <2>2, <3>2
      <4> QED
        BY <4>1 DEF AskedOrSettled, RowSettled
    <3> QED
      BY <3>1, <3>2
  <2>3. ASSUME NEW b \in 1..Len(j.batch), j.batch[b].item = r.item PROVE AskedOrSettled(o, stored, r)
    BY <2>3 DEF AskedOrSettled
  <2> QED
    BY <1>11, <2>1, <2>2, <2>3 DEF AskedOrSettled
<1> QED
  BY <1>1, <1>2, <1>3, <1>8, <1>9, <1>10, <1>11 DEF CourtRuns

\* The rows that were found are of the day.
LEMMA FoundRows ==
  ASSUME NEW j, NEW D \in [Item -> 1..LastDate], FoundToday(j, D), NEW c \in Court,
         NEW k \in FirstRows(j.found[c])
  PROVE  j.found[c][k] \in CourtRows(c, D) /\ j.found[c][k].date = D[j.found[c][k].item]
<1> DEFINE rows == j.found[c]
           S == CourtRows(c, D)
<1>1. rows \in Seq(S) /\ k \in DOMAIN rows
  BY DEF FoundToday, FirstRows
<1> HIDE DEF rows, S
<1>2. rows[k] \in S
  BY <1>1
<1> QED
  BY <1>2, RowOfCourt DEF rows, S

\* A court given up closes: nothing is promised of it.
LEMMA CourtGivenUp ==
  ASSUME NEW j, NEW o, NEW stored, NEW D, CourtRuns(j, stored, D), SameCourt(j, o),
         o.left = j.left, j.court \in o.failed
  PROVE  CourtCloses(o, stored, D)
<1> DEFINE c == j.court
<1>1. /\ FoundToday(j, D) /\ HadIsKnown(j, stored, D) /\ SettledUpTo(j, stored, c - 1)
      /\ j.left \subseteq RowsUpTo(c, D)
  BY DEF CourtRuns
<1>2. o.court = c /\ o.found = j.found /\ o.have = j.have
  BY DEF SameCourt
<1>3. FoundToday(o, D) /\ HadIsKnown(o, stored, D) /\ SettledUpTo(o, stored, c - 1)
  BY <1>1, <1>2, StillSettled DEF FoundToday, HadIsKnown
<1>4. c \in Nat
  BY <1>1, CourtsListed DEF FoundToday
<1>5. SettledUpTo(o, stored, c)
  <2> SUFFICES ASSUME NEW b \in 1..c PROVE CourtSettled(o, stored, b)
    BY DEF SettledUpTo
  <2>1. b \in 1..(c - 1) \/ b = c
    BY <1>4
  <2> QED
    BY <1>3, <2>1 DEF SettledUpTo, CourtSettled
<1> QED
  BY <1>1, <1>2, <1>3, <1>5 DEF CourtCloses

\* A court saved closes: its batch is stored, or lost.
LEMMA CourtSaved ==
  ASSUME NEW j, NEW o, NEW stored, NEW D \in [Item -> 1..LastDate], CourtRuns(j, stored, D),
         SameCourt(j, o), o.left = j.left, j.todo = << >>,
         NEW S, j.batch \in Seq(S), NEW bad, bad \subseteq o.lost
  PROVE  CourtCloses(o, StoreBatch(bad, stored, j.batch), D)
<1> DEFINE c == j.court
           after == StoreBatch(bad, stored, j.batch)
<1>1. /\ FoundToday(j, D) /\ HadIsKnown(j, stored, D) /\ SettledUpTo(j, stored, c - 1)
      /\ j.left \subseteq RowsUpTo(c, D) /\ AskedByDay(j, D)
      /\ \A k \in FirstRows(j.found[c]) : AskedOrSettled(j, stored, j.found[c][k])
  BY DEF CourtRuns
<1>2. /\ o.court = c /\ o.found = j.found /\ o.have = j.have
      /\ j.lost \subseteq o.lost /\ j.failed \subseteq o.failed
  BY DEF SameCourt
<1>3. c \in Court /\ Court = 1..Len(Listing) /\ Len(Listing) \in Nat
  BY <1>1, CourtsListed DEF FoundToday
<1>4. \A b \in 1..Len(j.batch) : j.batch[b].date = D[j.batch[b].item]
  <2> TAKE b \in 1..Len(j.batch)
  <2>1. [item |-> j.batch[b].item, date |-> j.batch[b].date] \in CourtRows(c, D)
    BY <1>1 DEF AskedByDay
  <2> QED
    BY <1>3, <2>1, RowOfCourt
<1>5. /\ \A i : Known(stored, D, i) => Known(after, D, i)
      /\ \A b \in 1..Len(j.batch) : j.batch[b].item \in bad \/ Known(after, D, j.batch[b].item)
  BY <1>4, KeysByBatch
<1> HIDE DEF after
<1>6. FoundToday(o, D) /\ HadIsKnown(o, after, D)
  BY <1>1, <1>2, <1>5 DEF FoundToday, HadIsKnown
<1>7. ASSUME NEW row, row.date = D[row.item], RowSettled(j, stored, row)
      PROVE  RowSettled(o, after, row)
  <2>1. Known(stored, D, row.item) \/ row.item \in j.lost \/ row \in j.left
    BY <1>7 DEF RowSettled, Known
  <2>2. Known(after, D, row.item) \/ row.item \in o.lost \/ row \in o.left
    BY <1>2, <1>5, <2>1
  <2> QED
    BY <1>7, <2>2 DEF RowSettled, Known
<1>8. ASSUME NEW b \in 1..(c - 1) PROVE CourtSettled(o, after, b)
  <2>1. b \in Court
    BY <1>3
  <2>2. CourtSettled(j, stored, b)
    BY <1>1 DEF SettledUpTo
  <2>3. CASE b \in j.failed
    BY <1>2, <2>3 DEF CourtSettled
  <2>4. CASE \A k \in FirstRows(j.found[b]) : RowSettled(j, stored, j.found[b][k])
    <3>1. \A k \in FirstRows(j.found[b]) : RowSettled(o, after, j.found[b][k])
      BY <1>1, <1>7, <2>1, <2>4, FoundRows
    <3> QED
      BY <1>2, <3>1 DEF CourtSettled
  <2> QED
    BY <2>2, <2>3, <2>4 DEF CourtSettled
<1>9. ASSUME NEW k \in FirstRows(j.found[c]) PROVE RowSettled(o, after, j.found[c][k])
  <2> DEFINE row == j.found[c][k]
  <2>1. AskedOrSettled(j, stored, row) /\ row.date = D[row.item]
    BY <1>1, <1>3, FoundRows
  <2> HIDE DEF row
  <2>2. RowSettled(j, stored, row) => RowSettled(o, after, row)
    BY <1>7, <2>1
  <2>3. ASSUME NEW b \in 1..Len(j.batch), j.batch[b].item = row.item
        PROVE  RowSettled(o, after, row)
    <3>1. row.item \in o.lost \/ Known(after, D, row.item)
      BY <1>5, <2>3
    <3> QED
      BY <2>1, <3>1 DEF RowSettled, Known
  <2>4. ~ \E t \in 1..Len(j.todo) : j.todo[t] = row
    OBVIOUS
  <2>5. RowSettled(o, after, row)
    BY <2>1, <2>2, <2>3, <2>4 DEF AskedOrSettled
  <2> QED
    BY <2>5 DEF row
<1>10. SettledUpTo(o, after, c)
  <2> SUFFICES ASSUME NEW b \in 1..c PROVE CourtSettled(o, after, b)
    BY DEF SettledUpTo
  <2>1. b \in 1..(c - 1) \/ b = c
    BY <1>3
  <2>2. CourtSettled(o, after, c)
    BY <1>2, <1>9 DEF CourtSettled
  <2> QED
    BY <1>8, <2>1, <2>2
<1>11. CourtCloses(o, after, D)
  BY <1>1, <1>2, <1>6, <1>10 DEF CourtCloses
<1> QED
  BY <1>11 DEF after

-----------------------------------------------------------------------------
\* The steps

LEMMA Today == site \in [Item -> Sites] => Days \in [Item -> 1..LastDate]
  BY DEF Days, Sites

LEMMA CourtSteps ==
  ASSUME CompleteInv, Unsold \/ Sold \/ SharedOut
  PROVE  (site \in [Item -> Sites])' /\ StageInv'
<1>1. UNCHANGED <<base, job>> /\ job.pc \in {"idle", "ended", "results"}
  BY DEF Unsold, Sold, SharedOut, CourtChanges, BetweenRuns
<1>2. site' \in [Item -> Sites]
  <2>1. CASE Unsold
    <3>1. PICK i \in Moving, notice \in {0, 1, 2} :
            /\ site[i].date < LastDate
            /\ site' = [site EXCEPT ![i].date = @ + 1, ![i].notice = notice]
      BY <2>1 DEF Unsold
    <3>2. CASE i \in Item
      <4>1. site[i] \in Sites
        BY <3>2 DEF CompleteInv
      <4>2. site[i].date + 1 \in 1..LastDate
        BY <3>1, <4>1, DailyAssumption DEF Sites
      <4>3. [site[i] EXCEPT !.date = @ + 1, !.notice = notice] \in Sites
        BY <4>1, <4>2 DEF Sites
      <4>4. site' = [site EXCEPT ![i] = [site[i] EXCEPT !.date = @ + 1, !.notice = notice]]
        BY <3>1, <3>2 DEF CompleteInv
      <4> QED
        BY <4>3, <4>4 DEF CompleteInv
    <3>3. CASE i \notin Item
      <4>1. site' = site
        BY <3>1, <3>3 DEF CompleteInv
      <4> QED
        BY <4>1 DEF CompleteInv
    <3> QED
      BY <3>2, <3>3
  <2>2. CASE Sold
    BY <2>2 DEF Sold, Sites, CompleteInv
  <2>3. CASE SharedOut
    BY <2>3 DEF SharedOut, Sites, CompleteInv
  <2> QED
    BY <2>1, <2>2, <2>3
<1>3. StageOf(job, base.notices, Days')
  BY <1>1 DEF CompleteInv, StageInv, StageOf
<1> QED
  BY <1>1, <1>2, <1>3 DEF StageInv

\* What the other steps of a run have to show.
LEMMA SearchStarts ==
  ASSUME NEW D, StartDaily
  PROVE  StageOf(job', base'.notices, D)
<1>1. PICK reader : job' = [NoJob EXCEPT !.pc = "search", !.reader = reader]
  BY DEF StartDaily
<1>2. /\ job'.pc = "search" /\ job'.court = 1 /\ job'.found = [c \in Court |-> << >>]
      /\ job'.left = {} /\ job'.batch = << >> /\ job'.said = << >>
  BY <1>1 DEF NoJob
<1>3. FoundToday(job', D)
  <2>1. 1 \in Court
    BY CourtsListed
  <2>2. \A c \in Court : << >> \in Seq(CourtRows(c, D))
    OBVIOUS
  <2> QED
    BY <1>2, <2>1, <2>2 DEF FoundToday
<1> QED
  BY <1>2, <1>3 DEF StageOf

\* On from a search: to the next court, or to the keys.
LEMMA SearchGoesOn ==
  ASSUME NEW j, DOMAIN j = JobFields, j.pc = "search", NEW D, FoundToday(j, D), j.left = {},
         NEW stored
  PROVE  StageOf(Onward(j, "keys"), stored, D)
<1> DEFINE o == Onward(j, "keys")
<1>1. /\ o.batch = << >> /\ o.said = << >> /\ o.found = j.found /\ o.left = j.left
      /\ j.court < Len(Listing) => o.court = j.court + 1 /\ o.pc = "search"
      /\ ~(j.court < Len(Listing)) => o.court = 1 /\ o.pc = "keys"
  BY OnwardFields
<1> HIDE DEF o
<1>2. o.court \in Court /\ (o.pc = "keys" => o.court = 1) /\ o.pc \in {"search", "keys"}
  BY <1>1, CourtsListed DEF FoundToday
<1>3. FoundToday(o, D)
  BY <1>1, <1>2 DEF FoundToday
<1>4. StageOf(o, stored, D)
  BY <1>1, <1>2, <1>3 DEF StageOf
<1> QED
  BY <1>4 DEF o

LEMMA SearchSteps ==
  ASSUME CompleteInv, SearchPage \/ SearchFails
  PROVE  StageOf(job', base'.notices, Days)
<1> DEFINE c == job.court
           rows == PageAt(RowsOf(c), job.page)
<1>1. /\ DOMAIN job = JobFields /\ job.pc = "search" /\ FoundToday(job, Days)
      /\ job.left = {} /\ job.batch = << >> /\ job.said = << >>
  BY DEF CompleteInv, DailyInv, HasBatch, StageInv, StageOf, SearchPage, SearchFails
<1>2. CASE SearchFails
  <2>1. job' = Onward(CourtFailed, "keys")
    BY <1>2, FailureGoesOn DEF SearchFails
  <2>2. /\ DOMAIN CourtFailed = JobFields /\ CourtFailed.pc = "search"
        /\ FoundToday(CourtFailed, Days) /\ CourtFailed.left = {}
    BY <1>1 DEF CourtFailed, JobFields, FoundToday
  <2> QED
    BY <2>1, <2>2, SearchGoesOn
<1>3. CASE SearchPage
  <2> DEFINE total == IF job.page = 1 THEN Len(RowsOf(c)) ELSE job.total
             over == rows = << >> \/ job.page * PageRows >= total \/ job.page >= MaxPages
  <2>1. LET j == [job EXCEPT !.found[job.court] = @ \o rows, !.total = total]
        IN  job' = IF over THEN Onward(j, "keys") ELSE [j EXCEPT !.page = @ + 1]
    BY <1>3, Zenon DEF SearchPage
  <2>2. rows \in Seq(CourtRows(c, Days))
    BY <1>1, PageOfCourt DEF CompleteInv, FoundToday
  <2> HIDE DEF rows, total, over
  <2> DEFINE j == [job EXCEPT !.found[job.court] = @ \o rows, !.total = total]
             more == [job.found EXCEPT ![c] = @ \o rows]
  <2>3. /\ DOMAIN j = JobFields /\ j.pc = "search" /\ j.found = more /\ j.court = c
        /\ j.left = {} /\ j.batch = << >> /\ j.said = << >>
    BY <1>1 DEF JobFields
  <2>4. job' = IF over THEN Onward(j, "keys") ELSE [j EXCEPT !.page = @ + 1]
    BY <2>1
  <2>5. c \in Court /\ DOMAIN more = Court
    BY <1>1 DEF FoundToday
  <2>6. ASSUME NEW d \in Court PROVE more[d] \in Seq(CourtRows(d, Days))
    <3>1. CASE d = c
      <4>1. job.found[c] \in Seq(CourtRows(c, Days)) /\ more[d] = job.found[c] \o rows
        BY <1>1, <2>5, <3>1 DEF FoundToday
      <4> HIDE DEF c, more
      <4>2. job.found[c] \o rows \in Seq(CourtRows(c, Days))
        BY <2>2, <4>1, ConcatProperties
      <4> QED
        BY <3>1, <4>1, <4>2
    <3>2. CASE d # c
      BY <1>1, <3>2 DEF FoundToday
    <3> QED
      BY <3>1, <3>2
  <2> HIDE DEF j, more
  <2>7. FoundToday(j, Days)
    BY <2>3, <2>5, <2>6 DEF FoundToday
  <2>8. CASE over
    BY <2>3, <2>4, <2>7, <2>8, SearchGoesOn
  <2>9. CASE ~over
    <3>1. /\ job'.pc = "search" /\ job'.found = j.found /\ job'.court = j.court
          /\ job'.left = {} /\ job'.batch = << >> /\ job'.said = << >>
      BY <2>3, <2>4, <2>9 DEF JobFields
    <3>2. FoundToday(job', Days)
      BY <2>7, <3>1 DEF FoundToday
    <3> QED
      BY <3>1, <3>2 DEF StageOf
  <2> QED
    BY <2>8, <2>9
<1> QED
  BY <1>2, <1>3

LEMMA KeySteps ==
  ASSUME CompleteInv, FindKeys \/ FindKeysFails
  PROVE  StageOf(job', base'.notices, Days)
<1>1. /\ DOMAIN job = JobFields /\ job.pc = "keys" /\ FoundToday(job, Days) /\ job.court = 1
      /\ job.left = {} /\ job.batch = << >> /\ job.said = << >> /\ base' = base
  BY DEF CompleteInv, DailyInv, HasBatch, StageInv, StageOf, FindKeys, FindKeysFails
<1>2. CASE FindKeys
  <2> DEFINE j == [job EXCEPT !.have = KeysOf(base.notices),
                     !.scans = KeysOf({n \in base.notices : n.scanned /\ job.reader})]
  <2>1. /\ DOMAIN j = JobFields /\ j.have = KeysOf(base.notices) /\ j.found = job.found
        /\ j.court = 1 /\ j.left = {} /\ j.batch = << >> /\ j.said = << >>
    BY <1>1 DEF JobFields
  <2>2. job' = BeginCourt(j)
    BY <1>2 DEF FindKeys
  <2> HIDE DEF j
  <2>3. FoundToday(j, Days) /\ HadIsKnown(j, base.notices, Days)
    BY <1>1, <2>1 DEF FoundToday, HadIsKnown, Known
  <2>4. SettledUpTo(j, base.notices, j.court - 1)
    BY <2>1 DEF SettledUpTo
  <2>5. CourtOpens(j, base.notices, Days)
    BY <2>1, <2>3, <2>4 DEF CourtOpens
  <2>6. job'.pc = "details" /\ CourtRuns(job', base.notices, Days)
    BY <2>1, <2>2, <2>5, Today, CourtBegins DEF CompleteInv
  <2> QED
    BY <1>1, <2>6 DEF StageOf
<1>3. CASE FindKeysFails
  <2>1. job'.pc = "results" /\ job'.failed = Court
    BY <1>1, <1>3 DEF FindKeysFails, JobFields
  <2>2. SettledUpTo(job', base'.notices, Len(Listing))
    BY <2>1, CourtsListed DEF SettledUpTo, CourtSettled
  <2> QED
    BY <2>1, <2>2 DEF StageOf
<1> QED
  BY <1>2, <1>3

\* Within a court.
LEMMA DetailHolds ==
  ASSUME CompleteInv, job.pc = "details"
  PROVE  /\ DOMAIN job = JobFields /\ CourtRuns(job, base.notices, Days)
         /\ Days \in [Item -> 1..LastDate] /\ \E S : job.batch \in Seq(S)
         /\ job.said \in Seq({"served", "empty"})
<1>1. CourtRuns(job, base.notices, Days)
  BY DEF CompleteInv, StageInv, StageOf
<1> QED
  BY <1>1, Today DEF CompleteInv, DailyInv, HasBatch, CourtRuns

LEMMA DetailSteps ==
  ASSUME CompleteInv, DetailServed \/ DetailEmpty \/ DetailFails
  PROVE  StageOf(job', base'.notices, Days)
<1>1. job.pc = "details" /\ job.todo # << >> /\ base' = base
  BY DEF DetailServed, DetailEmpty, DetailFails, AskDetail
<1>2. /\ DOMAIN job = JobFields /\ CourtRuns(job, base.notices, Days)
      /\ Days \in [Item -> 1..LastDate] /\ job.said \in Seq({"served", "empty"})
  BY <1>1, DetailHolds
<1>3. PICK S : job.batch \in Seq(S)
  BY <1>1, DetailHolds
<1> SUFFICES job'.pc = "details" /\ CourtRuns(job', base.notices, Days)
  BY <1>1 DEF StageOf
<1>4. CASE DetailServed
  <2>1. PICK open \in {FALSE, job.reader} :
          job' = [job EXCEPT !.todo = Tail(@), !.said = Append(@, "served"),
                    !.batch = Append(@, [item |-> Current.item, date |-> Current.date,
                                         document |-> site[Current.item].notice,
                                         scanned |-> open,
                                         people |-> open /\ Current.item \in Tenanted])]
    BY <1>4 DEF DetailServed
  <2> DEFINE n == [item |-> Current.item, date |-> Current.date,
                   document |-> site[Current.item].notice, scanned |-> open,
                   people |-> open /\ Current.item \in Tenanted]
  <2>2. n.item = Head(job.todo).item /\ n.date = Head(job.todo).date
    BY DEF Current
  <2>3. job' = [job EXCEPT !.todo = Tail(@), !.said = Append(@, "served"), !.batch = Append(@, n)]
    BY <2>1
  <2> HIDE DEF n
  <2>4. /\ job'.pc = "details" /\ SameCourt(job, job') /\ job'.left = job.left
        /\ job'.todo = Tail(job.todo) /\ job'.said = Append(job.said, "served")
        /\ job'.batch = Append(job.batch, n)
    BY <1>1, <1>2, <2>3 DEF JobFields, SameCourt
  <2>5. RowTaken(job, job')
    BY <2>2, <2>4 DEF RowTaken
  <2>6. job'.said \in Seq({"served", "empty"})
    BY <1>2, <2>4
  <2> QED
    BY <1>1, <1>2, <1>3, <2>4, <2>5, <2>6, RowAsked
<1>5. CASE DetailEmpty
  <2> DEFINE said == Append(job.said, "empty")
             held == Streak(said) >= Limit
             rest == {Tail(job.todo)[k] : k \in DOMAIN Tail(job.todo)}
  <2>1. job' = [job EXCEPT !.said = said, !.lost = @ \union {Current.item},
                  !.todo = IF held THEN << >> ELSE Tail(@),
                  !.left = IF held THEN @ \union rest ELSE @]
    BY <1>5 DEF DetailEmpty
  <2>2. said \in Seq({"served", "empty"})
    BY <1>2
  <2> HIDE DEF rest, held, said
  <2>3. /\ job'.pc = "details" /\ SameCourt(job, job') /\ job'.batch = job.batch
        /\ job'.said = said /\ job'.lost = job.lost \union {Current.item}
        /\ job'.todo = (IF held THEN << >> ELSE Tail(job.todo))
        /\ job'.left = (IF held THEN job.left \union rest ELSE job.left)
    BY <1>1, <1>2, <2>1 DEF JobFields, SameCourt
  <2>4. Head(job.todo).item \in job'.lost /\ RowTaken(job, job')
    BY <2>3 DEF RowTaken, Current
  <2>5. CASE held
    <3>1. job'.todo = << >> /\ job'.left = job.left \union rest /\ Streak(job'.said) >= Limit
      BY <2>3, <2>5 DEF held
    <3>2. job'.left = job.left \union {Tail(job.todo)[k] : k \in DOMAIN Tail(job.todo)}
      BY <3>1 DEF rest
    <3> QED
      BY <1>1, <1>2, <2>2, <2>3, <2>4, <3>1, <3>2, CourtHolds
  <2>6. CASE ~held
    BY <1>1, <1>2, <1>3, <2>2, <2>3, <2>4, <2>6, RowAsked
  <2> QED
    BY <2>5, <2>6
<1>6. CASE DetailFails
  <2>1. job' = [job EXCEPT !.todo = Tail(@), !.lost = @ \union {Current.item}]
    BY <1>6, FailureGoesOn DEF DetailFails
  <2>2. /\ job'.pc = "details" /\ SameCourt(job, job') /\ job'.left = job.left
        /\ job'.todo = Tail(job.todo) /\ job'.said = job.said /\ job'.batch = job.batch
        /\ job'.lost = job.lost \union {Current.item}
    BY <1>1, <1>2, <2>1 DEF JobFields, SameCourt
  <2>3. RowTaken(job, job')
    BY <2>2 DEF RowTaken, Current
  <2> QED
    BY <1>1, <1>2, <1>3, <2>2, <2>3, RowAsked
<1> QED
  BY <1>4, <1>5, <1>6

\* The end of a court.
LEMMA ClosedGoesOn ==
  ASSUME NEW j, DOMAIN j = JobFields, j.pc = "details", NEW stored,
         NEW D \in [Item -> 1..LastDate], CourtCloses(j, stored, D)
  PROVE  StageOf(NextCourt(j), stored, D)
  BY CourtFollows DEF StageOf

LEMMA CourtEnds ==
  ASSUME CompleteInv, BatchBreaks \/ SaveFails \/ SaveNotices
  PROVE  StageOf(job', base'.notices, Days)
<1>1. job.pc = "details"
  BY DEF BatchBreaks, SaveFails, SaveNotices, AskDetail
<1>2. /\ DOMAIN job = JobFields /\ CourtRuns(job, base.notices, Days)
      /\ Days \in [Item -> 1..LastDate]
  BY <1>1, DetailHolds
<1>3. CASE BatchBreaks \/ SaveFails
  <2>1. job' = NextCourt(CourtFailed) /\ base' = base
    BY <1>3, FailureGoesOn DEF BatchBreaks, SaveFails
  <2>2. /\ DOMAIN CourtFailed = JobFields /\ CourtFailed.pc = "details"
        /\ SameCourt(job, CourtFailed) /\ CourtFailed.left = job.left
        /\ job.court \in CourtFailed.failed
    BY <1>1, <1>2 DEF CourtFailed, JobFields, SameCourt
  <2>3. CourtCloses(CourtFailed, base.notices, Days)
    BY <1>2, <2>2, CourtGivenUp
  <2> QED
    BY <1>2, <2>1, <2>2, <2>3, ClosedGoesOn
<1>4. CASE SaveNotices
  <2>1. PICK bad :
          /\ job.todo = << >>
          /\ base' = [base EXCEPT !.notices = StoreBatch(bad, @, job.batch)]
          /\ job' = NextCourt([job EXCEPT !.lost = @ \union bad])
    BY <1>4 DEF SaveNotices
  <2>2. PICK S : job.batch \in Seq(S)
    BY <1>1, DetailHolds
  <2> DEFINE o == [job EXCEPT !.lost = @ \union bad]
             after == StoreBatch(bad, base.notices, job.batch)
  <2>3. /\ DOMAIN o = JobFields /\ o.pc = "details" /\ SameCourt(job, o)
        /\ o.left = job.left /\ bad \subseteq o.lost
    BY <1>1, <1>2 DEF JobFields, SameCourt
  <2>4. base' = [base EXCEPT !.notices = after] /\ job' = NextCourt(o)
    BY <2>1
  <2> HIDE DEF o, after
  <2>5. base'.notices = after
    BY <2>4 DEF CompleteInv, DailyInv
  <2>6. CourtCloses(o, after, Days)
    BY <1>2, <2>1, <2>2, <2>3, CourtSaved DEF after
  <2> QED
    BY <1>2, <2>3, <2>4, <2>5, <2>6, ClosedGoesOn
<1> QED
  BY <1>3, <1>4

\* The stages after the notices.
LEMMA LaterSteps ==
  ASSUME CompleteInv, NEW stored, NEW D,
         FindPending \/ FindPendingFails \/ BackfillCase \/ CaseFails \/ CaseBreaks
           \/ FindMissingPhotos \/ PhotoCase \/ MaskNames \/ MaskFails \/ Killed
  PROVE  StageOf(job', stored, D)
<1>1. DOMAIN job = JobFields
  BY DEF CompleteInv, DailyInv, HasBatch
<1>2. NoJob.pc = "idle" /\ [NoJob EXCEPT !.pc = "photos"].pc = "photos"
  BY DEF NoJob
<1>3. \A cases : [NoJob EXCEPT !.pc = "cases", !.cases = cases].pc = "cases"
  BY DEF NoJob
<1>4. CaseFails => job' = WithoutCase
  BY FailureGoesOn DEF CaseFails
<1>5. job'.pc \in {"idle", "cases", "photos", "pictures", "ended"}
  <2>1. CASE FindPending \/ FindPendingFails \/ Killed
    BY <1>2, <1>3, <2>1 DEF FindPending, FindPendingFails, Killed
  <2>2. CASE BackfillCase \/ CaseFails \/ CaseBreaks \/ PhotoCase
    BY <1>1, <1>4, <2>2 DEF BackfillCase, CaseFails, CaseBreaks, PhotoCase, WithoutCase, JobFields
  <2>3. CASE FindMissingPhotos \/ MaskNames \/ MaskFails
    BY <1>1, <2>3 DEF FindMissingPhotos, MaskNames, MaskFails, JobFields
  <2> QED
    BY <2>1, <2>2, <2>3
<1> QED
  BY <1>5 DEF StageOf

\* All of them.
LEMMA CompleteStep == CompleteInv /\ [DailyNext]_dailyVars => CompleteInv'
<1> SUFFICES ASSUME CompleteInv, [DailyNext]_dailyVars PROVE CompleteInv'
  OBVIOUS
<1>1. DailyInv'
  BY DailyStep DEF CompleteInv
<1>2. CASE UNCHANGED dailyVars
  BY <1>1, <1>2 DEF dailyVars, CompleteInv, StageInv, Days
<1>3. CASE Unsold \/ Sold \/ SharedOut
  BY <1>1, <1>3, CourtSteps DEF CompleteInv
<1>4. ASSUME site' = site, StageOf(job', base'.notices, Days) PROVE CompleteInv'
  <2>1. Days' = Days
    BY <1>4 DEF Days
  <2> QED
    BY <1>1, <1>4, <2>1 DEF CompleteInv, StageInv
<1>5. CASE StartDaily \/ SearchPage \/ SearchFails \/ FindKeys \/ FindKeysFails
  <2>1. site' = site
    BY <1>5 DEF StartDaily, SearchPage, SearchFails, FindKeys, FindKeysFails
  <2> QED
    BY <1>4, <1>5, <2>1, SearchStarts, SearchSteps, KeySteps
<1>6. CASE DetailServed \/ DetailEmpty \/ DetailFails \/ BatchBreaks \/ SaveNotices \/ SaveFails
  <2>1. site' = site
    BY <1>6 DEF DetailServed, DetailEmpty, DetailFails, BatchBreaks, SaveNotices, SaveFails
  <2> QED
    BY <1>4, <1>6, <2>1, DetailSteps, CourtEnds
<1>7. CASE FindPending \/ FindPendingFails \/ BackfillCase \/ CaseFails \/ CaseBreaks
             \/ FindMissingPhotos \/ PhotoCase \/ MaskNames \/ MaskFails \/ Killed
  <2>1. site' = site
    BY <1>7 DEF FindPending, FindPendingFails, BackfillCase, CaseFails, CaseBreaks,
                FindMissingPhotos, PhotoCase, MaskNames, MaskFails, Killed
  <2> QED
    BY <1>4, <1>7, <2>1, LaterSteps
<1> QED
  BY <1>2, <1>3, <1>5, <1>6, <1>7 DEF DailyNext

LEMMA CompleteStarts == DailyInit => CompleteInv
<1> SUFFICES ASSUME DailyInit PROVE CompleteInv
  OBVIOUS
<1>1. DailyInv
  BY DailyStarts
<1>2. site \in [Item -> Sites]
  BY DailyAssumption DEF DailyInit, Sites
<1>3. job.pc = "idle"
  BY DEF DailyInit, NoJob
<1> QED
  BY <1>1, <1>2, <1>3 DEF CompleteInv, StageInv, StageOf

\* What the invariant says of the end of a court and of the stage.
LEMMA StageIsComplete == CompleteInv => NoticesComplete
<1> SUFFICES ASSUME CompleteInv PROVE NoticesComplete
  OBVIOUS
<1>1. ASSUME job.pc = "results", NEW c \in Court \ job.failed, NEW k \in FirstRows(job.found[c])
      PROVE  RowSettled(job, base.notices, job.found[c][k])
  <2>1. SettledUpTo(job, base.notices, Len(Listing)) /\ c \in 1..Len(Listing)
    BY <1>1, CourtsListed DEF CompleteInv, StageInv, StageOf
  <2> QED
    BY <1>1, <2>1 DEF SettledUpTo, CourtSettled
<1> DEFINE rows == job.found[job.court]
           here == {rows[k] : k \in DOMAIN rows}
           held == job.left \intersect here
<1>2. ASSUME job.pc = "details", job.todo = << >>, held # {}
      PROVE  /\ Len(job.said) >= Limit
             /\ \A k \in (Len(job.said) - Limit + 1)..Len(job.said) : job.said[k] = "empty"
             /\ \A n \in {job.batch[k] : k \in DOMAIN job.batch}, row \in held : n.date <= row.date
  <2> DEFINE T == CourtRows(job.court, Days)
  <2>1. CourtRuns(job, base.notices, Days)
    BY <1>2, DetailHolds
  <2>2. rows \in Seq(T) /\ HeldBack(job, Days)
    BY <2>1 DEF CourtRuns, FoundToday
  <2>3. held \subseteq job.left \intersect T
    <3> HIDE DEF T, rows
    <3>1. \A k \in DOMAIN rows : rows[k] \in T
      BY <2>2
    <3> QED
      BY <3>1
  <2>4. /\ Len(job.said) >= Limit
        /\ \A k \in (Len(job.said) - Limit + 1)..Len(job.said) : job.said[k] = "empty"
        /\ \A b \in 1..Len(job.batch), row \in job.left \intersect T : job.batch[b].date <= row.date
    BY <1>2, <2>2, <2>3 DEF HeldBack
  <2>5. DOMAIN job.batch = 1..Len(job.batch)
    <3>1. PICK S : job.batch \in Seq(S)
      BY <1>2, DetailHolds
    <3> QED
      BY <3>1
  <2> HIDE DEF held, T
  <2> QED
    BY <2>3, <2>4, <2>5
<1> QED
  BY <1>1, <1>2 DEF NoticesComplete, RowSettled

\* After the notices every row found at a court without a failure of its own has
\* its notice for its date, or was answered without one, or was left behind a
\* streak of such answers, later than all that was asked for; for any courts,
\* items, streaks, runs and failures.
THEOREM NoticesAreComplete == DailySpec => []NoticesComplete
<1>1. CompleteInv => NoticesComplete
  BY StageIsComplete
<1> QED
  BY <1>1, CompleteStarts, CompleteStep, PTL DEF DailySpec

-----------------------------------------------------------------------------
\* The amounts of verdicts

Amounts(verdicts, n) ==
  DOMAIN verdicts = 1..n /\ \A k \in 1..n : AssumedAmount(verdicts[k]) \in Int

\* The partial sums of the assumed amounts.
SumsOf(verdicts, n, sum) ==
  sum = [s \in SUBSET (1..n) |->
           IF s = {} THEN 0 ELSE sum[s \ {Max(s)}] + AssumedAmount(verdicts[Max(s)])]

LEMMA AssumedSums ==
  ASSUME NEW verdicts, NEW n \in Nat, Amounts(verdicts, n)
  PROVE  \E sum : /\ SumsOf(verdicts, n, sum)
                  /\ AssumedTotalOf(verdicts).amount = sum[1..n]
                  /\ \A k \in 0..n : sum[1..k] \in Int
<1> DEFINE D == 1..n
           a == [i \in D |-> AssumedAmount(verdicts[i])]
<1>1. DOMAIN verdicts = D /\ a \in [D -> Int]
  BY DEF Amounts
<1>2. AssumedTotalOf(verdicts).amount = SumAll(a)
  BY <1>1 DEF AssumedTotalOf, SumOf
<1>3. \A s \in SUBSET D : s # {} => a[Max(s)] = AssumedAmount(verdicts[Max(s)])
  BY LargestPlace
<1> HIDE DEF a
<1>4. PICK sum \in [SUBSET D -> Int] :
        Sums(a, n, sum) /\ \A s \in SUBSET D : SumIn(a, n, s) = sum[s]
  BY <1>1, SumsExist
<1>5. SumsOf(verdicts, n, sum)
  BY <1>3, <1>4 DEF Sums, SumsOf
<1>6. SumAll(a) = sum[D]
  BY <1>1, <1>4, SumAllIs
<1>7. \A k \in 0..n : 1..k \in SUBSET D
  OBVIOUS
<1> QED
  BY <1>2, <1>4, <1>5, <1>6, <1>7

LEMMA AssumedIsAmount ==
  ASSUME NEW verdicts, NEW n \in Nat, Amounts(verdicts, n)
  PROVE  AssumedTotalOf(verdicts).amount \in Int
<1>1. n \in 0..n
  OBVIOUS
<1> QED
  BY <1>1, AssumedSums

\* People as rows make them: with a readable deposit or none.
People(rows, n) ==
  {p \in [seq : {n}, sources : SUBSET {rows[i].source : i \in DOMAIN rows},
          value : [Fields -> {Absent} \union {rows[i][f] : i \in DOMAIN rows, f \in Fields}],
          rank : [Fields -> 0..3]] :
     p.value["deposit"] \in Nat \union {Absent}}

LEMMA TakesReadable ==
  ASSUME NEW rows, NoticeRows(rows), NEW n, NEW p \in People(rows, n), NEW i \in DOMAIN rows
  PROVE  TakeOwn(p, rows[i]) \in People(rows, n)
<1> DEFINE row == rows[i]
           Values == {Absent} \union {rows[j][f] : j \in DOMAIN rows, f \in Fields}
           Better(f) == row[f] # Absent
                        /\ (p.value[f] = Absent \/ SourceRank(row.source) > p.rank[f])
           value == [f \in Fields |-> IF Better(f) THEN row[f] ELSE p.value[f]]
           rank == [f \in Fields |-> IF Better(f) THEN SourceRank(row.source) ELSE p.rank[f]]
           sources == (p.sources \union {row.source}) \ {Absent}
<1>1. /\ p.value \in [Fields -> Values] /\ p.rank \in [Fields -> 0..3] /\ p.seq = n
      /\ p.sources \in SUBSET {rows[j].source : j \in DOMAIN rows}
      /\ p.value["deposit"] \in Nat \union {Absent}
  BY DEF People
<1>2. \A f \in Fields : row[f] \in Values
  OBVIOUS
<1>3. SourceRank(row.source) \in 0..3
  BY DEF SourceRank
<1>4. row["deposit"] \in Nat \union {Absent} /\ "deposit" \in Fields
  BY DEF NoticeRows, Fields
<1>5. sources \in SUBSET {rows[j].source : j \in DOMAIN rows}
  BY <1>1
<1> HIDE DEF Values, sources
<1>6. value \in [Fields -> Values] /\ value["deposit"] \in Nat \union {Absent}
  BY <1>1, <1>2, <1>4
<1>7. rank \in [Fields -> 0..3]
  BY <1>1, <1>3
<1>8. CASE row.seq # p.seq
  BY <1>8 DEF TakeOwn
<1>9. CASE row.seq = p.seq
  <2>1. TakeOwn(p, row) = [seq |-> n, sources |-> sources, value |-> value, rank |-> rank]
    BY <1>1, <1>9 DEF TakeOwn, Take, sources
  <2> HIDE DEF row, value, rank
  <2> QED
    BY <1>5, <1>6, <1>7, <2>1 DEF People, Values, row
<1> QED
  BY <1>8, <1>9

LEMMA MergedReadable ==
  ASSUME NEW rows, NoticeRows(rows), NEW n
  PROVE  Merged(rows, n).value.deposit \in Nat \union {Absent}
<1> DEFINE V == People(rows, n)
           m == Len(rows)
           D == 1..m
           Folds(h) == h = [s \in SUBSET D |-> IF s = {} THEN Nobody(n)
                                               ELSE TakeOwn(h[s \ {Max(s)}], rows[Max(s)])]
           iter == CHOOSE h : Folds(h)
           steps == [p \in V \X D |-> TakeOwn(p[1], rows[p[2]])]
<1>1. Merged(rows, n) = iter[D]
  BY DEF Merged, FoldLeft, MapThenFoldSet, NoticeRows
<1>2. m \in Nat /\ DOMAIN rows = D
  BY DEF NoticeRows
<1>3. Nobody(n) \in V
  BY DEF Nobody, People, Fields
<1>4. steps \in [V \X D -> V]
  <2>1. \A p \in V, i \in D : TakeOwn(p, rows[i]) \in V
    BY <1>2, TakesReadable
  <2> HIDE DEF V
  <2> QED
    BY <2>1
<1> HIDE DEF V, m
<1>5. PICK h \in [SUBSET D -> V] : FoldOver(steps, Nobody(n), D, h)
  <2> HIDE DEF steps
  <2> QED
    BY <1>2, <1>3, <1>4, FoldInside
<1>6. Folds(h)
  <2>1. ASSUME NEW s \in SUBSET D, s # {}
        PROVE  steps[h[s \ {Max(s)}], Max(s)] = TakeOwn(h[s \ {Max(s)}], rows[Max(s)])
    <3>1. Max(s) \in D
      BY <1>2, <2>1, LargestPlace
    <3>2. h[s \ {Max(s)}] \in V
      OBVIOUS
    <3> QED
      BY <3>1, <3>2
  <2> HIDE DEF steps
  <2> QED
    BY <1>5, <2>1 DEF FoldOver
<1>7. Folds(iter)
  BY <1>6
<1> HIDE DEF iter
<1>8. iter[{}] \in V
  BY <1>3, <1>7
<1>9. ASSUME NEW k \in 0..(m - 1), iter[1..k] \in V
      PROVE  iter[1..(k + 1)] \in V
  <2>1. /\ 1..(k + 1) \in SUBSET D /\ 1..(k + 1) # {}
        /\ Max(1..(k + 1)) = k + 1 /\ (1..(k + 1)) \ {k + 1} = 1..k /\ k + 1 \in D
    BY <1>2, FirstPlaces
  <2>2. iter[1..(k + 1)] = TakeOwn(iter[1..k], rows[k + 1])
    BY <1>7, <2>1
  <2> QED
    BY <1>2, <1>9, <2>1, <2>2, TakesReadable DEF V
<1>10. iter[D] \in V
  BY <1>2, <1>8, <1>9, PlaceByPlace
<1> QED
  BY <1>1, <1>10 DEF V, People

\* The verdict on a tenant whose deposit can be read has an amount or none.
LEMMA VerdictAmount ==
  ASSUME NEW tenant, tenant.deposit \in Nat \union {Absent}, NEW baseline, NEW deadline
  PROVE  AssumedAmount(ClassifyNoticeAssumption(tenant, baseline, deadline)) \in Int
<1> DEFINE v == ClassifyNoticeAssumption(tenant, baseline, deadline)
<1>1. \E e : v \in {Verdict("UNKNOWN", Absent, Absent), Verdict("NOT_ASSUMED", 0, e),
                    Verdict("ASSUMED_FULL", tenant.deposit, FALSE),
                    Verdict("ASSUMED_AMOUNT_UNKNOWN", Absent, e)}
  BY Zenon DEF ClassifyNoticeAssumption
<1> HIDE DEF v
<1>2. v.assumption = "ASSUMED_FULL" => v.amount = tenant.deposit
  BY <1>1 DEF Verdict
<1> QED
  BY <1>2 DEF AssumedAmount, v

Assumptions == {"UNKNOWN", "NOT_ASSUMED", "ASSUMED_FULL", "ASSUMED_AMOUNT_UNKNOWN"}

\* A verdict is one of four.
LEMMA VerdictKinds ==
  ASSUME NEW tenant, NEW baseline, NEW deadline
  PROVE  ClassifyNoticeAssumption(tenant, baseline, deadline).assumption \in Assumptions
<1> DEFINE v == ClassifyNoticeAssumption(tenant, baseline, deadline)
<1>1. \E e : v \in {Verdict("UNKNOWN", Absent, Absent), Verdict("NOT_ASSUMED", 0, e),
                    Verdict("ASSUMED_FULL", tenant.deposit, FALSE),
                    Verdict("ASSUMED_AMOUNT_UNKNOWN", Absent, e)}
  BY Zenon DEF ClassifyNoticeAssumption
<1> HIDE DEF v
<1> QED
  BY <1>1 DEF Verdict, Assumptions, v

\* The verdicts on the people of a table: one each, of four kinds, with amounts.
LEMMA VerdictsOnPeople ==
  ASSUME NEW rows, NoticeRows(rows), NEW baseline, NEW deadline
  PROVE  LET n == Cardinality({rows[i].seq : i \in DOMAIN rows})
             verdicts == AnalyzeNotice(rows, baseline, deadline)
         IN  /\ n \in Nat /\ Amounts(verdicts, n) /\ verdicts \in [1..n -> {verdicts[k] : k \in 1..n}]
             /\ \A k \in 1..n : verdicts[k].assumption \in Assumptions
<1> DEFINE numbers == {rows[i].seq : i \in DOMAIN rows}
           n == Cardinality(numbers)
           verdicts == AnalyzeNotice(rows, baseline, deadline)
           Nth(k) == CHOOSE m \in numbers : Cardinality({o \in numbers : o < m}) = k - 1
<1>1. n \in Nat
  <2>1. IsFiniteSet(DOMAIN rows)
    BY FS_Interval DEF NoticeRows
  <2>2. IsFiniteSet(numbers)
    <3> DEFINE F == [i \in DOMAIN rows |-> rows[i].seq]
    <3>1. F \in Surjection(DOMAIN rows, numbers)
      BY DEF Surjection
    <3> QED
      BY <2>1, <3>1, FS_Surjection
  <2> QED
    BY <2>2, FS_CardinalityType
<1>2. verdicts = [k \in 1..n |-> ClassifyNoticeAssumption(Merged(rows, Nth(k)).value,
                                                           baseline, deadline)]
  BY DEF AnalyzeNotice, MergeNoticeTenants
<1> HIDE DEF n, verdicts, Nth
<1>3. Amounts(verdicts, n)
  <2>1. ASSUME NEW k \in 1..n
        PROVE  AssumedAmount(ClassifyNoticeAssumption(Merged(rows, Nth(k)).value,
                                                      baseline, deadline)) \in Int
    <3>1. Merged(rows, Nth(k)).value.deposit \in Nat \union {Absent}
      BY MergedReadable
    <3> QED
      BY <3>1, VerdictAmount
  <2> QED
    BY <1>2, <2>1 DEF Amounts
<1>4. \A k \in 1..n : verdicts[k].assumption \in Assumptions
  BY <1>2, VerdictKinds
<1>5. verdicts \in [1..n -> {verdicts[k] : k \in 1..n}]
  BY <1>2
<1> QED
  BY <1>1, <1>3, <1>4, <1>5 DEF verdicts, n

LEMMA NoticeAmount ==
  ASSUME NEW rows, NoticeRows(rows), NEW baseline, NEW deadline
  PROVE  AssumedTotalOf(AnalyzeNotice(rows, baseline, deadline)).amount \in Int
<1> DEFINE verdicts == AnalyzeNotice(rows, baseline, deadline)
           n == Cardinality({rows[i].seq : i \in DOMAIN rows})
<1>1. n \in Nat /\ Amounts(verdicts, n)
  BY VerdictsOnPeople
<1> HIDE DEF n, verdicts
<1> QED
  BY <1>1, AssumedIsAmount DEF verdicts

-----------------------------------------------------------------------------
\* The burden of a bid

\* The middle bracket in one division.
LEMMA MiddleBracket ==
  ASSUME NEW b \in Nat, b > 60000, b < 90000
  PROVE  HousingMinTax(b) = (11 * (b * (b - 45000)) + 750) \div 1500
<1> DEFINE a == b - 45000
           q == b \div 1500
           r == b % 1500
<1>1. q \in Int /\ r \in Int /\ a \in Int /\ b = 1500 * q + r
  OBVIOUS
<1>2. HousingMinTax(b) = 11 * q * a + (11 * r * a + 750) \div 1500
  BY DEF HousingMinTax, Rounded
<1> HIDE DEF a, q, r
<1>3. 11 * (b * a) + 750 = 1500 * (11 * q * a) + (11 * r * a + 750)
  BY <1>1
<1>4. \A x, y \in Int : (1500 * x + y) \div 1500 = x + y \div 1500
  OBVIOUS
<1>5. 11 * q * a \in Int /\ 11 * r * a + 750 \in Int
  BY <1>1
<1>6. (11 * (b * a) + 750) \div 1500 = 11 * q * a + (11 * r * a + 750) \div 1500
  BY <1>3, <1>4, <1>5
<1> QED
  BY <1>2, <1>6 DEF a

\* The tax on a home never falls with its price.
LEMMA TaxRises ==
  ASSUME NEW b \in Nat, NEW c \in Nat, b <= c
  PROVE  HousingMinTax(b) \in Int /\ HousingMinTax(b) <= HousingMinTax(c)
<1> DEFINE F(x) == (11 * (x * (x - 45000)) + 750) \div 1500
<1>1. ASSUME NEW x \in Nat, NEW y \in Nat, 60000 <= x, x <= y
      PROVE  F(x) \in Int /\ F(x) <= F(y)
  <2>1. x * (x - 45000) \in Int /\ y * (y - 45000) \in Int
    OBVIOUS
  <2>2. x * (x - 45000) <= y * (y - 45000)
    <3>1. x * (x - 45000) <= y * (x - 45000)
      BY <1>1
    <3>2. y * (x - 45000) <= y * (y - 45000)
      BY <1>1
    <3> QED
      BY <3>1, <3>2, <2>1
  <2>3. \A m, n \in Int : m <= n => (11 * m + 750) \div 1500 \in Int
                                    /\ (11 * m + 750) \div 1500 <= (11 * n + 750) \div 1500
    OBVIOUS
  <2> QED
    BY <2>1, <2>2, <2>3
<1>2. F(60000) = 6600000 /\ F(90000) = 29700000
  OBVIOUS
<1>3. ASSUME NEW x \in Nat, x > 60000, x < 90000
      PROVE  HousingMinTax(x) = F(x)
  BY <1>3, MiddleBracket
<1>4. \A x \in Nat : /\ x <= 60000 => HousingMinTax(x) = 110 * x
                     /\ x >= 90000 => HousingMinTax(x) = 330 * x
  BY DEF HousingMinTax
<1>5. ASSUME NEW x \in Nat, x > 60000, x < 90000
      PROVE  HousingMinTax(x) \in Int /\ 6600000 <= HousingMinTax(x) /\ HousingMinTax(x) <= 29700000
  <2>1. F(60000) <= F(x) /\ F(x) <= F(90000) /\ F(x) \in Int
    BY <1>1, <1>5
  <2> HIDE DEF F
  <2> QED
    BY <1>2, <1>3, <1>5, <2>1
<1> HIDE DEF F
<1>6. CASE b > 60000 /\ c < 90000
  BY <1>1, <1>3, <1>6
<1>7. CASE b > 60000 /\ b < 90000 /\ c >= 90000
  BY <1>4, <1>5, <1>7
<1>8. CASE b <= 60000 /\ c > 60000 /\ c < 90000
  BY <1>4, <1>5, <1>8
<1>9. CASE b <= 60000 /\ c >= 90000
  BY <1>4, <1>9
<1>10. CASE b <= 60000 /\ c <= 60000
  BY <1>4, <1>10
<1>11. CASE b >= 90000
  BY <1>4, <1>11
<1> QED
  BY <1>6, <1>7, <1>8, <1>9, <1>10, <1>11

LEMMA AcquisitionRises ==
  ASSUME NEW b \in Nat, NEW c \in Nat, b <= c, NEW kind
  PROVE  /\ AcquisitionTax(b, kind).min \in Int /\ AcquisitionTax(b, kind).max \in Int
         /\ AcquisitionTax(b, kind).min <= AcquisitionTax(c, kind).min
         /\ AcquisitionTax(b, kind).max <= AcquisitionTax(c, kind).max
<1>1. /\ HousingMinTax(b) \in Int /\ HousingMinTax(c) \in Int
      /\ HousingMinTax(b) <= HousingMinTax(c)
  BY TaxRises
<1>2. CASE kind = "NON_HOUSING"
  BY <1>2 DEF AcquisitionTax, Span
<1>3. CASE kind # "NON_HOUSING" /\ kind = "HOUSING"
  BY <1>1, <1>3 DEF AcquisitionTax, Span
<1>4. CASE kind # "NON_HOUSING" /\ kind # "HOUSING"
  BY <1>1, <1>4 DEF AcquisitionTax, Span
<1> QED
  BY <1>2, <1>3, <1>4

Outlooks == {"NO_REPORTED_TENANT", "TENANT_FULLY_COVERED", "TENANT_WITH_LOSS"}

\* What comes on top of a bid, and the total.
LEMMA BurdenRises ==
  ASSUME NEW b \in Nat, NEW c \in Nat, b <= c, NEW assumed \in Int, NEW kind,
         NEW outlook \in Outlooks
  PROVE  LET low == CalculateTotalBurden(b, assumed, kind, outlook)
             high == CalculateTotalBurden(c, assumed, kind, outlook)
         IN  /\ {low.min, low.max, high.min, high.max} \subseteq Int
             /\ low.min - 10000 * b <= high.min - 10000 * c
             /\ low.max - 10000 * b <= high.max - 10000 * c
             /\ low.min <= high.min /\ low.max <= high.max
<1> DEFINE tb == AcquisitionTax(b, kind)
           tc == AcquisitionTax(c, kind)
           e == EvictionCost(outlook)
<1>1. /\ tb.min \in Int /\ tb.max \in Int /\ tc.min \in Int /\ tc.max \in Int
      /\ tb.min <= tc.min /\ tb.max <= tc.max
  BY AcquisitionRises
<1>2. e.min \in Int /\ e.max \in Int
  <2>1. e \in {Span(0, 1500000), Span(500000, 3000000), Span(2000000, 7000000)}
    BY DEF EvictionCost, Outlooks
  <2> QED
    BY <2>1 DEF Span
<1>3. /\ CalculateTotalBurden(b, assumed, kind, outlook).min
           = 10000 * (b + assumed) + tb.min + 50 * b + e.min
      /\ CalculateTotalBurden(b, assumed, kind, outlook).max
           = 10000 * (b + assumed) + tb.max + 150 * b + e.max
      /\ CalculateTotalBurden(c, assumed, kind, outlook).min
           = 10000 * (c + assumed) + tc.min + 50 * c + e.min
      /\ CalculateTotalBurden(c, assumed, kind, outlook).max
           = 10000 * (c + assumed) + tc.max + 150 * c + e.max
  BY DEF CalculateTotalBurden, Span
<1> HIDE DEF tb, tc, e
<1> QED
  BY <1>1, <1>2, <1>3

LEMMA RoundedRises ==
  ASSUME NEW d \in Nat, d > 0, NEW m \in Int, NEW n \in Int, m <= n
  PROVE  Rounded(m, d) <= Rounded(n, d)
<1>1. d \div 2 \in Int
  OBVIOUS
<1>2. \A x, y \in Int : x <= y => x \div d <= y \div d
  OBVIOUS
<1> QED
  BY <1>1, <1>2 DEF Rounded

-----------------------------------------------------------------------------
ItemSpec == ItemInit /\ [][ItemNext]_itemVars

\* Notices have one id and one date each, amounts or none in their tables, and
\* there is always a newest one.
NoticesKnown ==
  /\ \A n \in notices : /\ DOMAIN n = {"id", "date", "observed", "said", "rows"}
                         /\ n.date \in NoticeDates /\ NoticeRows(n.rows)
  /\ \A n, m \in notices : n.date = m.date => n = m
  /\ notices # {} => \E n \in notices : \A m \in notices \ {n} : Dated(n) > Dated(m)

\* Scenarios under way are those of a collected item, a notice that is still there
\* and, once read, a table of amounts.
UnderWay(q) ==
  /\ DOMAIN q = {"item", "custom", "began", "rows", "noticeRead", "notice"}
  /\ q.item \in {Absent} \union ItemRows /\ q.custom \in CustomBids
  /\ ~q.noticeRead => q.item # Absent /\ q.notice = Absent
  /\ q.notice # Absent => q.item # Absent /\ \E n \in notices : n.id = q.notice.id
  /\ q.rows # Absent => NoticeRows(q.rows)

\* Scenarios answered are those of an item and of a table of amounts.
AnsweredScenarios(body) ==
  \E row \in ItemRows, rates \in Rates, custom \in CustomBids : \E rows, baseline, deadline :
    /\ NoticeRows(rows)
    /\ body = ComputeAffordability(row, AnalyzeNotice(rows, baseline, deadline), rates, custom)

ItemInv ==
  /\ item \in {Absent} \union ItemRows
  /\ NoticesKnown
  /\ DOMAIN query = Readers /\ DOMAIN answer = Readers
  /\ query["affordability"] # Absent => UnderWay(query["affordability"])
  /\ LET a == answer["affordability"]
     IN  a # Absent => a.body = Absent \/ AnsweredScenarios(a.body)

-----------------------------------------------------------------------------
\* What is answered

LEMMA RatioRises ==
  ASSUME NEW low, NEW high, {low.min, low.max, high.min, high.max} \subseteq Int,
         low.min <= high.min, low.max <= high.max,
         NEW appraisal \in Nat \union {Absent}, RatioRange(low, appraisal) # Absent
  PROVE  /\ RatioRange(low, appraisal).min <= RatioRange(high, appraisal).min
         /\ RatioRange(low, appraisal).max <= RatioRange(high, appraisal).max
<1>1. ~(appraisal = Absent \/ appraisal <= 0) /\ appraisal \in Nat
  BY DEF RatioRange
<1>2. 10 * appraisal \in Nat /\ 10 * appraisal > 0
  BY <1>1
<1>3. /\ Rounded(low.min, 10 * appraisal) <= Rounded(high.min, 10 * appraisal)
      /\ Rounded(low.max, 10 * appraisal) <= Rounded(high.max, 10 * appraisal)
  BY <1>2, RoundedRises
<1>4. \A span : RatioRange(span, appraisal)
                = Span(Rounded(span.min, 10 * appraisal), Rounded(span.max, 10 * appraisal))
  BY <1>1 DEF RatioRange
<1> QED
  BY <1>3, <1>4 DEF Span

LEMMA RateIsPrice ==
  ASSUME NEW appraisal \in Nat, NEW rate \in Nat
  PROVE  Rounded(appraisal * rate, 1000) \in Nat
<1>1. appraisal * rate \in Nat
  OBVIOUS
<1>2. \A x \in Nat : (x + 500) \div 1000 \in Nat
  OBVIOUS
<1>3. 1000 \div 2 = 500
  OBVIOUS
<1> QED
  BY <1>1, <1>2, <1>3 DEF Rounded

\* The scenarios of an answer, by their bids.
LEMMA ScenariosByBid ==
  ASSUME NEW row \in ItemRows, NEW rows, NoticeRows(rows), NEW baseline, NEW deadline,
         NEW rates \in Rates, NEW custom \in CustomBids
  PROVE  \E assumed \in Int, outlook \in Outlooks : \E kind :
           \A s \in ComputeAffordability(row, AnalyzeNotice(rows, baseline, deadline),
                                         rates, custom).scenarios :
             /\ s.bid \in Nat
             /\ s.range = CalculateTotalBurden(s.bid, assumed, kind, outlook)
             /\ s.ratio = RatioRange(s.range, row.appraisal)
<1> DEFINE verdicts == AnalyzeNotice(rows, baseline, deadline)
           assumed == AssumedTotalOf(verdicts).amount
           kind == PropertyKindOfUsage(row.usage)
           outlook == EvictionOutlookOf(verdicts)
           Scenario(name, bid) ==
             LET range == CalculateTotalBurden(bid, assumed, kind, outlook)
             IN  [kind |-> name, bid |-> bid, range |-> range,
                  ratio |-> RatioRange(range, row.appraisal)]
           priced == ~row.bulk /\ row.minimum # Absent /\ row.minimum > 0
           rated == ~row.bulk /\ row.appraisal # Absent /\ row.appraisal > 0 /\ rates # Absent
           ByRate(rate) == Rounded(row.appraisal * rate, 1000)
           scenarios ==
             (IF priced THEN {Scenario("MINIMUM_PRICE", row.minimum)} ELSE {})
             \union (IF rated THEN {Scenario("COMPARABLE", ByRate(rates[q])) : q \in 1..3} ELSE {})
             \union (IF custom # Absent /\ custom > 0 THEN {Scenario("CUSTOM", custom)} ELSE {})
<1>1. assumed \in Int
  BY NoticeAmount
<1>2. outlook \in Outlooks
  BY DEF EvictionOutlookOf, Outlooks
<1>3. ComputeAffordability(row, verdicts, rates, custom).scenarios = scenarios
  BY DEF ComputeAffordability
<1>4. \A s \in scenarios : \E bid \in Nat : \E name : s = Scenario(name, bid)
  <2>1. priced => row.minimum \in Nat
    BY ItemAssumption
  <2>2. rated => \A q \in 1..3 : ByRate(rates[q]) \in Nat
    <3>1. SUFFICES ASSUME rated, NEW q \in 1..3 PROVE ByRate(rates[q]) \in Nat
      OBVIOUS
    <3>2. row.appraisal \in Nat /\ rates \in [1..3 -> Nat]
      BY <3>1, ItemAssumption
    <3> QED
      BY <3>2, RateIsPrice
  <2>3. custom # Absent /\ custom > 0 => custom \in Nat
    BY ItemAssumption
  <2> HIDE DEF Scenario, priced, rated, ByRate
  <2> QED
    BY <2>1, <2>2, <2>3
<1>5. \A name, bid : /\ Scenario(name, bid).bid = bid
                    /\ Scenario(name, bid).range = CalculateTotalBurden(bid, assumed, kind, outlook)
                    /\ Scenario(name, bid).ratio
                         = RatioRange(CalculateTotalBurden(bid, assumed, kind, outlook),
                                      row.appraisal)
  OBVIOUS
<1> HIDE DEF assumed, kind, outlook, Scenario, scenarios
<1>6. \A s \in scenarios : /\ s.bid \in Nat
                          /\ s.range = CalculateTotalBurden(s.bid, assumed, kind, outlook)
                          /\ s.ratio = RatioRange(s.range, row.appraisal)
  BY <1>4, <1>5
<1> QED
  BY <1>1, <1>2, <1>3, <1>6

LEMMA AnsweredIsOrdered ==
  ASSUME NEW body, AnsweredScenarios(body), NEW s \in body.scenarios, NEW t \in body.scenarios,
         s.bid <= t.bid
  PROVE  /\ s.range.min - 10000 * s.bid <= t.range.min - 10000 * t.bid
         /\ s.range.max - 10000 * s.bid <= t.range.max - 10000 * t.bid
         /\ s.ratio # Absent => s.ratio.min <= t.ratio.min /\ s.ratio.max <= t.ratio.max
<1>1. PICK row \in ItemRows, rates \in Rates, custom \in CustomBids : \E rows, baseline, deadline :
        /\ NoticeRows(rows)
        /\ body = ComputeAffordability(row, AnalyzeNotice(rows, baseline, deadline), rates, custom)
  BY DEF AnsweredScenarios
<1>2. PICK assumed \in Int, outlook \in Outlooks : \E kind :
        \A x \in body.scenarios :
          /\ x.bid \in Nat
          /\ x.range = CalculateTotalBurden(x.bid, assumed, kind, outlook)
          /\ x.ratio = RatioRange(x.range, row.appraisal)
  BY <1>1, ScenariosByBid
<1> PICK kind : \A x \in body.scenarios :
                  /\ x.bid \in Nat
                  /\ x.range = CalculateTotalBurden(x.bid, assumed, kind, outlook)
                  /\ x.ratio = RatioRange(x.range, row.appraisal)
  BY <1>2
<1>3. s.bid \in Nat /\ t.bid \in Nat
  OBVIOUS
<1>4. /\ {s.range.min, s.range.max, t.range.min, t.range.max} \subseteq Int
      /\ s.range.min - 10000 * s.bid <= t.range.min - 10000 * t.bid
      /\ s.range.max - 10000 * s.bid <= t.range.max - 10000 * t.bid
      /\ s.range.min <= t.range.min /\ s.range.max <= t.range.max
  BY <1>2, <1>3, BurdenRises
<1>5. row.appraisal \in Nat \union {Absent}
  BY ItemAssumption
<1>6. s.ratio = RatioRange(s.range, row.appraisal) /\ t.ratio = RatioRange(t.range, row.appraisal)
  OBVIOUS
<1> DEFINE low == s.range
           high == t.range
<1>7. ASSUME s.ratio # Absent
      PROVE  s.ratio.min <= t.ratio.min /\ s.ratio.max <= t.ratio.max
  <2>1. /\ {low.min, low.max, high.min, high.max} \subseteq Int
        /\ low.min <= high.min /\ low.max <= high.max
        /\ RatioRange(low, row.appraisal) # Absent
    BY <1>4, <1>6, <1>7
  <2> HIDE DEF low, high
  <2>2. /\ RatioRange(low, row.appraisal).min <= RatioRange(high, row.appraisal).min
        /\ RatioRange(low, row.appraisal).max <= RatioRange(high, row.appraisal).max
    BY <1>5, <2>1, RatioRises
  <2> QED
    BY <1>6, <2>2 DEF low, high
<1> QED
  BY <1>4, <1>7

-----------------------------------------------------------------------------
\* The steps

LEMMA LatestIsNotice ==
  ASSUME NoticesKnown, notices # {}
  PROVE  LatestForDetail(notices) \in notices
<1>1. PICK n \in notices : \A m \in notices \ {n} : Dated(n) > Dated(m)
  BY DEF NoticesKnown
<1> QED
  BY <1>1 DEF LatestForDetail, LastBy

\* Scenarios under way keep their notice while notices are only added and changed.
LEMMA StillUnderWay ==
  ASSUME NEW q, UnderWay(q), \A n \in notices : \E m \in notices' : m.id = n.id
  PROVE  UnderWay(q)'
  BY DEF UnderWay

LEMMA WrittenNotice ==
  ASSUME NoticesKnown, UpsertNotice
  PROVE  NoticesKnown' /\ \A n \in notices : \E m \in notices' : m.id = n.id
<1>0. PICK date \in NoticeDates, content \in Contents :
      LET existing == NoticesOfDate(date)
          Updated(n) == [n EXCEPT !.said = content.said,
                                  !.observed = IF n.said = content.said THEN @ ELSE writes + 1,
                                  !.rows = IF content.rows = << >> THEN @ ELSE content.rows]
          inserted == [id |-> Cardinality(notices) + 1, date |-> date, observed |-> writes + 1,
                       said |-> content.said, rows |-> content.rows]
      IN  notices' = IF existing = {} THEN notices \union {inserted}
                     ELSE LET n == CHOOSE x \in existing : TRUE
                          IN  (notices \ {n}) \union {Updated(n)}
  BY DEF UpsertNotice
<1>1. NoticeRows(content.rows)
  BY ItemAssumption
<1>2. ASSUME NEW n, n.date \in NoticeDates
      PROVE  Dated(n) \in Int
             /\ \A m : m.date \in NoticeDates /\ m.date # n.date => Dated(n) # Dated(m)
  <2>1. NoticeDates \subseteq Nat \union {Absent} /\ Absent \notin Nat
    BY ItemAssumption, AbsentAssumption
  <2>2. ASSUME NEW m, m.date \in NoticeDates
        PROVE  /\ Dated(m) \in Int
               /\ m.date = Absent => Dated(m) = -1
               /\ m.date # Absent => Dated(m) = m.date /\ m.date \in Nat
    <3>1. CASE m.date = Absent
      BY <2>1, <3>1 DEF Dated
    <3>2. CASE m.date # Absent
      <4>1. m.date \in Nat
        BY <2>1, <2>2, <3>2
      <4>2. Dated(m) = m.date
        BY <3>2 DEF Dated
      <4> QED
        BY <3>2, <4>1, <4>2
    <3> QED
      BY <3>1, <3>2
  <2>3. Dated(n) \in Int
    BY <1>2, <2>2
  <2>4. ASSUME NEW m, m.date \in NoticeDates, m.date # n.date
        PROVE  Dated(n) # Dated(m)
    <3>1. CASE n.date = Absent
      BY <1>2, <2>2, <2>4, <3>1
    <3>2. CASE n.date # Absent /\ m.date = Absent
      BY <1>2, <2>2, <2>4, <3>2
    <3>3. CASE n.date # Absent /\ m.date # Absent
      BY <1>2, <2>2, <2>4, <3>3
    <3> QED
      BY <3>1, <3>2, <3>3
  <2> QED
    BY <2>3, <2>4
<1>3. CASE NoticesOfDate(date) = {}
  <2> DEFINE new == [id |-> Cardinality(notices) + 1, date |-> date, observed |-> writes + 1,
                     said |-> content.said, rows |-> content.rows]
  <2>1. notices' = notices \union {new}
    BY <1>0, <1>3
  <2>2. \A n \in notices : n.date # date
    BY <1>3 DEF NoticesOfDate
  <2>3. /\ DOMAIN new = {"id", "date", "observed", "said", "rows"}
        /\ new.date = date /\ new.rows = content.rows
    OBVIOUS
  <2> HIDE DEF new
  <2>4. \E n \in notices' : \A m \in notices' \ {n} : Dated(n) > Dated(m)
    <3>1. CASE notices = {}
      BY <2>1, <3>1
    <3>2. CASE notices # {}
      <4>1. PICK top \in notices : \A m \in notices \ {top} : Dated(top) > Dated(m)
        BY <3>2 DEF NoticesKnown
      <4>2. /\ Dated(new) \in Int /\ \A m \in notices : Dated(m) \in Int
            /\ Dated(top) # Dated(new)
        BY <1>2, <2>2, <2>3 DEF NoticesKnown
      <4>3. CASE Dated(new) > Dated(top)
        <5>1. \A m \in notices : Dated(new) > Dated(m)
          BY <4>1, <4>2, <4>3
        <5>2. new \in notices' /\ \A m \in notices' \ {new} : m \in notices
          BY <2>1
        <5> QED
          BY <5>1, <5>2
      <4>4. CASE Dated(top) > Dated(new)
        <5>1. top \in notices' /\ \A m \in notices' \ {top} : m \in notices \ {top} \/ m = new
          BY <2>1
        <5> QED
          BY <4>1, <4>4, <5>1
      <4> QED
        BY <4>2, <4>3, <4>4
    <3> QED
      BY <3>1, <3>2
  <2> QED
    BY <1>1, <2>1, <2>2, <2>3, <2>4 DEF NoticesKnown
<1>4. CASE NoticesOfDate(date) # {}
  <2> DEFINE old == CHOOSE x \in NoticesOfDate(date) : TRUE
             new == [old EXCEPT !.said = content.said,
                                !.observed = IF old.said = content.said THEN @ ELSE writes + 1,
                                !.rows = IF content.rows = << >> THEN @ ELSE content.rows]
  <2>1. notices' = (notices \ {old}) \union {new}
    BY <1>0, <1>4
  <2>2. old \in notices
    BY <1>4 DEF NoticesOfDate
  <2>3. /\ DOMAIN old = {"id", "date", "observed", "said", "rows"}
        /\ old.date \in NoticeDates /\ NoticeRows(old.rows)
    BY <2>2 DEF NoticesKnown
  <2> DEFINE observed == IF old.said = content.said THEN old.observed ELSE writes + 1
             table == IF content.rows = << >> THEN old.rows ELSE content.rows
  <2>10. new = [old EXCEPT !.said = content.said, !.observed = observed, !.rows = table]
    OBVIOUS
  <2> HIDE DEF old, observed, table, new
  <2>4. /\ DOMAIN new = {"id", "date", "observed", "said", "rows"}
        /\ new.id = old.id /\ new.date = old.date
        /\ new.rows = table
    BY <2>3, <2>10
  <2>5. NoticeRows(new.rows) /\ Dated(new) = Dated(old)
    BY <1>1, <2>3, <2>4 DEF Dated, table
  <2>6. \E n \in notices' : \A m \in notices' \ {n} : Dated(n) > Dated(m)
    <3>1. PICK top \in notices : \A m \in notices \ {top} : Dated(top) > Dated(m)
      BY <2>2 DEF NoticesKnown
    <3>2. CASE top = old
      BY <2>1, <2>5, <3>1, <3>2
    <3>3. CASE top # old
      BY <2>1, <2>2, <2>5, <3>1, <3>3
    <3> QED
      BY <3>2, <3>3
  <2>7. \A n, m \in notices' : n.date = m.date => n = m
    BY <2>1, <2>2, <2>4 DEF NoticesKnown
  <2>8. \A n \in notices' : /\ DOMAIN n = {"id", "date", "observed", "said", "rows"}
                           /\ n.date \in NoticeDates /\ NoticeRows(n.rows)
    BY <2>1, <2>3, <2>4, <2>5 DEF NoticesKnown
  <2>9. \A n \in notices : \E m \in notices' : m.id = n.id
    BY <2>1, <2>4
  <2> QED
    BY <2>6, <2>7, <2>8, <2>9 DEF NoticesKnown
<1> QED
  BY <1>3, <1>4

\* A request that begins.
LEMMA BegunUnderWay ==
  ASSUME ItemInv, NEW reader \in Readers, NEW custom, reader = "affordability" => custom \in CustomBids,
         Begin(reader, custom)
  PROVE  /\ DOMAIN query' = Readers
         /\ query'["affordability"] # Absent => UnderWay(query'["affordability"])
<1> DEFINE seen == IF reader = "favorites" /\ ~favored THEN Absent ELSE item
           read == (reader # "affordability" \/ seen = Absent)
           notice == IF reader = "affordability" \/ seen = Absent THEN Absent
                     ELSE LatestNotice(reader)
           q == [item |-> seen, custom |-> custom, began |-> writes, rows |-> Absent,
                 noticeRead |-> read, notice |-> notice]
<1>1. query' = [query EXCEPT ![reader] = q]
  BY DEF Begin
<1>2. CASE reader # "affordability"
  BY <1>1, <1>2 DEF ItemInv
<1>3. CASE reader = "affordability"
  <2>1. /\ seen \in {Absent} \union ItemRows /\ read \in BOOLEAN /\ notice = Absent
        /\ ~read => seen # Absent
    BY <1>3 DEF ItemInv
  <2>2. "affordability" \in Readers
    BY DEF Readers
  <2> HIDE DEF seen, read, notice
  <2>3. UnderWay(q)
    BY <1>3, <2>1 DEF UnderWay
  <2> HIDE DEF q
  <2> QED
    BY <1>1, <1>3, <2>2, <2>3 DEF ItemInv
<1> QED
  BY <1>2, <1>3

\* A step by what it does to the scenarios under way and answered.
LEMMA ItemStarts == ItemInit => ItemInv
  BY DEF ItemInit, ItemInv, NoticesKnown, Readers

LEMMA ItemStep == ItemInv /\ [ItemNext]_itemVars => ItemInv'
<1> SUFFICES ASSUME ItemInv, [ItemNext]_itemVars PROVE ItemInv'
  OBVIOUS
<1> DEFINE q == query["affordability"]
<1>1. ASSUME item' \in {Absent} \union ItemRows, UNCHANGED <<query, answer>>, NoticesKnown',
             \A n \in notices : \E m \in notices' : m.id = n.id
      PROVE  ItemInv'
  <2>1. q # Absent => UnderWay(q)'
    BY <1>1, StillUnderWay DEF ItemInv
  <2> QED
    BY <1>1, <2>1 DEF ItemInv, AnsweredScenarios
<1>2. ASSUME UNCHANGED <<item, notices, answer>>, DOMAIN query' = Readers,
             query'["affordability"] # Absent => UnderWay(query'["affordability"])
      PROVE  ItemInv'
  BY <1>2 DEF ItemInv, AnsweredScenarios, UnderWay, NoticesKnown
<1>3. ASSUME UNCHANGED notices PROVE NoticesKnown'
  BY <1>3 DEF ItemInv, NoticesKnown
<1>4. "affordability" \in Readers
  BY DEF Readers
<1>5. CASE CollectItem
  BY <1>1, <1>3, <1>5 DEF CollectItem
<1>6. CASE UpsertNotice
  BY <1>1, <1>6, WrittenNotice DEF UpsertNotice, ItemInv
<1>7. CASE SetFavorite
  BY <1>1, <1>3, <1>7 DEF SetFavorite, ItemInv
<1>8. ASSUME NEW reader \in Readers, NEW custom,
             reader = "affordability" => custom \in CustomBids, Begin(reader, custom)
      PROVE  ItemInv'
  BY <1>2, <1>8, BegunUnderWay DEF Begin
<1>9. CASE FindMany \/ FindByUser \/ FindNoticeAnalysis
  BY <1>8, <1>9 DEF FindMany, FindByUser, FindNoticeAnalysis, Readers
<1>10. CASE FindAffordability
  BY <1>4, <1>8, <1>10 DEF FindAffordability
<1>11. CASE ReadNotice
  <2> DEFINE latest == LatestNotice("affordability")
  <2>1. UnderWay(q) /\ ~q.noticeRead
    BY <1>11 DEF ReadNotice, ItemInv
  <2>2. latest # Absent => latest \in notices
    BY LatestIsNotice DEF LatestNotice, ItemInv
  <2> DEFINE r == [q EXCEPT !.noticeRead = TRUE, !.notice = latest]
  <2>3. query' = [query EXCEPT !["affordability"] = r]
    BY <1>4, <1>11 DEF ReadNotice, ItemInv
  <2> HIDE DEF latest
  <2>4. UnderWay(r)
    BY <2>1, <2>2 DEF UnderWay
  <2> HIDE DEF r, q
  <2>5. DOMAIN query' = Readers /\ query'["affordability"] = r
    BY <1>4, <2>3 DEF ItemInv
  <2> QED
    BY <1>2, <1>11, <2>4, <2>5 DEF ReadNotice
<1>12. CASE ReadTenantsSome
  <2>1. PICK reader \in Readers : ReadTenants(reader)
    BY <1>12 DEF ReadTenantsSome
  <2>2. CASE reader # "affordability"
    BY <1>2, <2>1, <2>2 DEF ReadTenants, ItemInv
  <2>3. CASE reader = "affordability"
    <3> DEFINE n == CHOOSE n \in notices : n.id = q.notice.id
               r == [q EXCEPT !.rows = n.rows]
    <3>1. UnderWay(q) /\ q.notice # Absent
      BY <2>1, <2>3 DEF ReadTenants, ItemInv
    <3>2. n \in notices
      BY <3>1 DEF UnderWay
    <3>3. NoticeRows(n.rows)
      BY <3>2 DEF ItemInv, NoticesKnown
    <3>4. query' = [query EXCEPT !["affordability"] = r]
      BY <1>4, <2>1, <2>3 DEF ReadTenants, ItemInv
    <3> HIDE DEF n
    <3>5. UnderWay(r)
      BY <3>1, <3>3 DEF UnderWay
    <3> HIDE DEF r, q
    <3>6. DOMAIN query' = Readers /\ query'["affordability"] = r
      BY <1>4, <3>4 DEF ItemInv
    <3> QED
      BY <1>2, <2>1, <3>5, <3>6 DEF ReadTenants
  <2> QED
    BY <2>2, <2>3
<1>13. CASE AnswerSome
  <2>1. PICK reader \in Readers : Answer(reader)
    BY <1>13 DEF AnswerSome
  <2>2. CASE reader # "affordability"
    BY <2>1, <2>2 DEF Answer, ItemInv, AnsweredScenarios, UnderWay, NoticesKnown
  <2>3. CASE reader = "affordability"
    <3>1. PICK rates \in Rates :
            answer' = [answer EXCEPT !["affordability"] =
                         [body |-> Body("affordability", q, rates), of |-> q.item,
                          began |-> q.began, ended |-> writes]]
      BY <2>1, <2>3 DEF Answer
    <3>2. Body("affordability", q, rates) = Absent \/ AnsweredScenarios(Body("affordability", q, rates))
      <4>1. CASE q.notice = Absent
        BY <4>1 DEF Body
      <4>2. CASE q.notice # Absent
        <5>1. /\ q.item \in ItemRows /\ NoticeRows(q.rows) /\ q.custom \in CustomBids
          BY <2>1, <2>3, <4>2 DEF Answer, ItemInv, UnderWay
        <5>2. Body("affordability", q, rates)
                = ComputeAffordability(q.item, AnalyzeNotice(q.rows, q.notice.said.baseline,
                                                             q.notice.said.deadline),
                                       rates, q.custom)
          BY <4>2 DEF Body
        <5> QED
          BY <5>1, <5>2 DEF AnsweredScenarios
      <4> QED
        BY <4>1, <4>2
    <3>3. DOMAIN answer' = Readers /\ answer'["affordability"].body = Body("affordability", q, rates)
      BY <1>4, <3>1 DEF ItemInv
    <3>4. DOMAIN query' = Readers /\ query'["affordability"] = Absent
      BY <1>4, <2>1, <2>3 DEF Answer, ItemInv
    <3>5. UNCHANGED <<item, notices>>
      BY <2>1 DEF Answer
    <3> QED
      BY <3>2, <3>3, <3>4, <3>5 DEF ItemInv, NoticesKnown, AnsweredScenarios
  <2> QED
    BY <2>2, <2>3
<1>14. CASE UNCHANGED itemVars
  BY <1>1, <1>3, <1>14 DEF itemVars, ItemInv
<1> QED
  BY <1>5, <1>6, <1>7, <1>9, <1>10, <1>11, <1>12, <1>13, <1>14 DEF ItemNext

\* For any rows, notices, rates and bids: what comes on top of the bid never
\* falls for a dearer scenario, nor does the ratio to the appraisal.
THEOREM DearerCostsMore == ItemSpec => []ScenariosOrdered
<1>1. ItemInv => ScenariosOrdered
  <2> SUFFICES ASSUME ItemInv, answer["affordability"] # Absent,
                      answer["affordability"].body # Absent,
                      NEW s \in answer["affordability"].body.scenarios,
                      NEW t \in answer["affordability"].body.scenarios, s.bid <= t.bid
               PROVE  /\ s.range.min - 10000 * s.bid <= t.range.min - 10000 * t.bid
                      /\ s.range.max - 10000 * s.bid <= t.range.max - 10000 * t.bid
                      /\ s.ratio # Absent => s.ratio.min <= t.ratio.min /\ s.ratio.max <= t.ratio.max
    BY DEF ScenariosOrdered
  <2>1. AnsweredScenarios(answer["affordability"].body)
    BY DEF ItemInv
  <2> QED
    BY <2>1, AnsweredIsOrdered
<1> QED
  BY <1>1, ItemStarts, ItemStep, PTL DEF ItemSpec

-----------------------------------------------------------------------------
\* What the screens say

\* The clients' sum of verdicts is the API's.
OpenVerdict(v) ==
  \/ v.assumption \in {"ASSUMED_AMOUNT_UNKNOWN", "UNKNOWN"}
  \/ v.assumption = "ASSUMED_FULL" /\ v.amount = Absent
LEMMA AddedVerdict ==
  ASSUME NEW sum \in Int, NEW more \in BOOLEAN, NEW v, v.assumption \in Assumptions,
         AssumedAmount(v) \in Int
  PROVE  AddVerdict([amount |-> sum, lowerBound |-> more], v)
           = [amount |-> sum + AssumedAmount(v), lowerBound |-> (more \/ OpenVerdict(v))]
<1>1. CASE v.assumption = "ASSUMED_FULL" /\ v.amount # Absent
  <2>1. AssumedAmount(v) = v.amount /\ ~OpenVerdict(v)
    BY <1>1 DEF AssumedAmount, OpenVerdict
  <2> QED
    BY <1>1, <2>1 DEF AddVerdict
<1>2. CASE ~(v.assumption = "ASSUMED_FULL" /\ v.amount # Absent)
  <2>1. AssumedAmount(v) = 0 /\ (OpenVerdict(v) <=> v.assumption # "NOT_ASSUMED")
    BY <1>2 DEF AssumedAmount, OpenVerdict, Assumptions
  <2> QED
    BY <1>2, <2>1 DEF AddVerdict
<1> QED
  BY <1>1, <1>2

LEMMA SameTotal ==
  ASSUME NEW verdicts, NEW n \in Nat, Amounts(verdicts, n),
         \A k \in 1..n : verdicts[k].assumption \in Assumptions
  PROVE  AssumedTotal(verdicts) = AssumedTotalOf(verdicts)
<1> DEFINE D == 1..n
           Totals == [amount : Int, lowerBound : BOOLEAN]
           zero == [amount |-> 0, lowerBound |-> FALSE]
           Adds(h) == h = [s \in SUBSET D |->
                             IF s = {} THEN zero
                             ELSE AddVerdict(h[s \ {Max(s)}], verdicts[Max(s)])]
           add == CHOOSE h : Adds(h)
           More(k) == \E i \in 1..k : OpenVerdict(verdicts[i])
           steps == [p \in Totals \X D |-> AddVerdict(p[1], verdicts[p[2]])]
<1>1. PICK sum : /\ SumsOf(verdicts, n, sum)
                 /\ AssumedTotalOf(verdicts).amount = sum[D]
                 /\ \A k \in 0..n : sum[1..k] \in Int
  BY AssumedSums
<1>2. AssumedTotal(verdicts) = add[D]
  BY DEF AssumedTotal, FoldLeft, MapThenFoldSet, Amounts
<1>3. AssumedTotalOf(verdicts) = [amount |-> sum[D], lowerBound |-> More(n)]
  <2>1. More(n) = (\E k \in DOMAIN verdicts : OpenVerdict(verdicts[k]))
    BY DEF Amounts
  <2> QED
    BY <1>1, <2>1 DEF AssumedTotalOf, OpenVerdict
<1>4. \A total \in Totals, k \in D : AddVerdict(total, verdicts[k]) \in Totals
  <2> SUFFICES ASSUME NEW total \in Totals, NEW k \in D
               PROVE  AddVerdict(total, verdicts[k]) \in Totals
    OBVIOUS
  <2>1. total = [amount |-> total.amount, lowerBound |-> total.lowerBound]
        /\ total.amount \in Int /\ total.lowerBound \in BOOLEAN
    OBVIOUS
  <2>2. AssumedAmount(verdicts[k]) \in Int /\ verdicts[k].assumption \in Assumptions
    BY DEF Amounts
  <2>3. AddVerdict(total, verdicts[k])
          = [amount |-> total.amount + AssumedAmount(verdicts[k]),
             lowerBound |-> (total.lowerBound \/ OpenVerdict(verdicts[k]))]
    BY <2>1, <2>2, AddedVerdict
  <2> QED
    BY <2>1, <2>2, <2>3
<1>5. steps \in [Totals \X D -> Totals] /\ zero \in Totals
  <2> HIDE DEF Totals
  <2>1. steps \in [Totals \X D -> Totals]
    BY <1>4
  <2> QED
    BY <2>1 DEF Totals
<1> HIDE DEF Totals, zero
<1>6. PICK h \in [SUBSET D -> Totals] : FoldOver(steps, zero, D, h)
  <2> HIDE DEF steps
  <2> QED
    BY <1>5, FoldInside
<1>7. Adds(h)
  <2>1. ASSUME NEW s \in SUBSET D, s # {}
        PROVE  steps[h[s \ {Max(s)}], Max(s)] = AddVerdict(h[s \ {Max(s)}], verdicts[Max(s)])
    <3>1. Max(s) \in D
      BY <2>1, LargestPlace
    <3>2. h[s \ {Max(s)}] \in Totals
      OBVIOUS
    <3> QED
      BY <3>1, <3>2
  <2> HIDE DEF steps
  <2> QED
    BY <1>6, <2>1 DEF FoldOver
<1>8. Adds(add)
  BY <1>7
<1> HIDE DEF add
<1> DEFINE Same(s, k) == add[s] = [amount |-> sum[s], lowerBound |-> More(k)]
           SameFor(s) == \A k \in 0..n : s = 1..k => Same(s, k)
           agree == [s \in SUBSET D |-> IF SameFor(s) THEN 1 ELSE 0]
<1>13. \A s \in SUBSET D : agree[s] \in {1} <=> SameFor(s)
  <2> HIDE DEF SameFor
  <2> QED
    OBVIOUS
<1> HIDE DEF agree
<1>9. agree[{}] \in {1}
  <2>1. {} \in SUBSET D
    OBVIOUS
  <2>2. add[{}] = zero /\ sum[{}] = 0
    BY <1>1, <1>8, <2>1 DEF SumsOf
  <2>3. \A k \in 0..n : {} = 1..k => More(k) = FALSE
    OBVIOUS
  <2> HIDE DEF More
  <2>4. SameFor({})
    <3> SUFFICES ASSUME NEW k \in 0..n, {} = 1..k PROVE Same({}, k)
      OBVIOUS
    <3>1. More(k) = FALSE
      BY <2>3
    <3> QED
      BY <2>2, <3>1 DEF zero
  <2> HIDE DEF SameFor
  <2> QED
    BY <1>13, <2>1, <2>4
<1>10. ASSUME NEW k \in 0..(n - 1), agree[1..k] \in {1}
       PROVE  agree[1..(k + 1)] \in {1}
  <2>1. /\ 1..(k + 1) \in SUBSET D /\ 1..(k + 1) # {}
        /\ Max(1..(k + 1)) = k + 1 /\ (1..(k + 1)) \ {k + 1} = 1..k /\ k + 1 \in D
    BY FirstPlaces
  <2>2. k \in 0..n /\ 1..k \in SUBSET D
    BY <2>1
  <2>9. SameFor(1..k)
    <3> HIDE DEF SameFor
    <3> QED
      BY <1>10, <1>13, <2>2
  <2>3. Same(1..k, k) /\ sum[1..k] \in Int
    <3> HIDE DEF Same
    <3> QED
      BY <1>1, <2>2, <2>9
  <2>4. add[1..(k + 1)] = AddVerdict(add[1..k], verdicts[k + 1])
    BY <1>8, <2>1
  <2>10. sum[1..(k + 1)] = sum[1..k] + AssumedAmount(verdicts[k + 1])
    BY <1>1, <2>1 DEF SumsOf
  <2>5. AssumedAmount(verdicts[k + 1]) \in Int /\ verdicts[k + 1].assumption \in Assumptions
    BY <2>1 DEF Amounts
  <2>6. More(k + 1) = (More(k) \/ OpenVerdict(verdicts[k + 1])) /\ More(k) \in BOOLEAN
    <3>1. 1..(k + 1) = (1..k) \union {k + 1}
      OBVIOUS
    <3> QED
      BY <3>1
  <2> HIDE DEF More
  <2>7. Same(1..(k + 1), k + 1)
    BY <2>3, <2>4, <2>5, <2>6, <2>10, AddedVerdict
  <2>8. \A m \in 0..n : 1..(k + 1) = 1..m => m = k + 1
    OBVIOUS
  <2> HIDE DEF Same
  <2>11. SameFor(1..(k + 1))
    BY <2>7, <2>8
  <2> HIDE DEF SameFor
  <2> QED
    BY <1>13, <2>1, <2>11
<1>11. agree[D] \in {1}
  <2> DEFINE One == {1}
  <2>1. agree[{}] \in One /\ \A k \in 0..(n - 1) : agree[1..k] \in One => agree[1..(k + 1)] \in One
    BY <1>9, <1>10
  <2> HIDE DEF One
  <2>2. agree[D] \in One
    BY <2>1, PlaceByPlace
  <2> QED
    BY <2>2 DEF One
<1>12. Same(D, n)
  <2>1. n \in 0..n /\ D \in SUBSET D
    OBVIOUS
  <2>2. SameFor(D)
    <3> HIDE DEF SameFor
    <3> QED
      BY <1>11, <1>13, <2>1
  <2> HIDE DEF Same
  <2> QED
    BY <2>1, <2>2
<1> QED
  BY <1>2, <1>3, <1>12

\* Places counted by kind are all places.
CountOf(verdicts, n, kinds) == Cardinality({k \in 1..n : verdicts[k].assumption \in kinds})

LEMMA TwoParts ==
  ASSUME NEW S, NEW T, IsFiniteSet(S), IsFiniteSet(T), S \intersect T = {}
  PROVE  IsFiniteSet(S \union T) /\ Cardinality(S \union T) = Cardinality(S) + Cardinality(T)
<1>1. /\ IsFiniteSet(S \union T)
      /\ Cardinality(S \union T) = Cardinality(S) + Cardinality(T) - Cardinality(S \intersect T)
  BY FS_Union
<1>2. Cardinality(S \intersect T) = 0
  BY FS_EmptySet
<1>3. Cardinality(S) \in Nat /\ Cardinality(T) \in Nat
  BY FS_CardinalityType
<1> QED
  BY <1>1, <1>2, <1>3

LEMMA CountsAddUp ==
  ASSUME NEW n \in Nat, NEW verdicts, \A k \in 1..n : verdicts[k].assumption \in Assumptions
  PROVE  CountOf(verdicts, n, {"ASSUMED_FULL"})
           + CountOf(verdicts, n, {"ASSUMED_AMOUNT_UNKNOWN", "UNKNOWN"})
           + CountOf(verdicts, n, {"NOT_ASSUMED"}) = n
<1> DEFINE A == {k \in 1..n : verdicts[k].assumption \in {"ASSUMED_FULL"}}
           B == {k \in 1..n : verdicts[k].assumption \in {"ASSUMED_AMOUNT_UNKNOWN", "UNKNOWN"}}
           C == {k \in 1..n : verdicts[k].assumption \in {"NOT_ASSUMED"}}
<1>1. IsFiniteSet(1..n) /\ Cardinality(1..n) = n
  BY FS_Interval
<1>2. IsFiniteSet(A) /\ IsFiniteSet(B) /\ IsFiniteSet(C)
  BY <1>1, FS_Subset
<1>3. 1..n = (A \union B) \union C /\ A \intersect B = {} /\ (A \union B) \intersect C = {}
  BY DEF Assumptions
<1>6. /\ CountOf(verdicts, n, {"ASSUMED_FULL"}) = Cardinality(A)
      /\ CountOf(verdicts, n, {"ASSUMED_AMOUNT_UNKNOWN", "UNKNOWN"}) = Cardinality(B)
      /\ CountOf(verdicts, n, {"NOT_ASSUMED"}) = Cardinality(C)
  BY DEF CountOf
<1> HIDE DEF A, B, C
<1>4. IsFiniteSet(A \union B) /\ Cardinality(A \union B) = Cardinality(A) + Cardinality(B)
  BY <1>2, <1>3, TwoParts
<1>5. Cardinality((A \union B) \union C) = Cardinality(A \union B) + Cardinality(C)
  BY <1>2, <1>3, <1>4, TwoParts
<1> QED
  BY <1>1, <1>3, <1>4, <1>5, <1>6

LEMMA LenOfPlaces ==
  ASSUME NEW n \in Nat, NEW S, NEW s \in [1..n -> S]
  PROVE  Len(s) = n /\ DOMAIN s = 1..n
<1>1. s \in Seq(S)
  BY SeqDef
<1>2. DOMAIN s = 1..n
  OBVIOUS
<1> QED
  BY <1>1, <1>2, LenProperties

\* The rights page of an analysis.
LEMMA ViewOfVerdicts ==
  ASSUME NEW said, NEW verdicts, NEW n \in Nat, DOMAIN verdicts = 1..n, Len(verdicts) = n,
         [said |-> said, verdicts |-> verdicts] # Absent
  PROVE  LET page == RightsView([said |-> said, verdicts |-> verdicts])
         IN  /\ page.deposit = Headline(AssumedTotal(verdicts)) /\ page.people = n
             /\ page.whole = CountOf(verdicts, n, {"ASSUMED_FULL"})
             /\ page.open = CountOf(verdicts, n, {"ASSUMED_AMOUNT_UNKNOWN", "UNKNOWN"})
             /\ page.notAssumed = CountOf(verdicts, n, {"NOT_ASSUMED"})
  BY DEF RightsView, CountOf

\* What is said of a notice.
VerdictsOf(n) == AnalyzeNotice(n.rows, n.said.baseline, n.said.deadline)
DepositsOf(n) == IF n = Absent THEN Unread ELSE Headline(AssumedTotalOf(VerdictsOf(n)))
PeopleOf(n) == IF n = Absent THEN Unread ELSE TenantCount(n)

\* Absent stands for null: it is none of the answers.
AbsentIsNoAnswer ==
  /\ \A a, b : [amount |-> a, lowerBound |-> b] # Absent
  /\ \A a, b, c : [said |-> a, count |-> b, assumed |-> c] # Absent
  /\ \A a, b : [said |-> a, verdicts |-> b] # Absent
  /\ \A a, b : [assumed |-> a, scenarios |-> b] # Absent

\* An answer that says a notice.
Says(reader, a, n) ==
  IF n = Absent THEN a.body = Absent
  ELSE CASE reader = "affordability" ->
              \E it, rates, custom : a.body = ComputeAffordability(it, VerdictsOf(n), rates, custom)
         [] reader = "detail" -> a.body = [said |-> n.said, verdicts |-> VerdictsOf(n)]
         [] OTHER -> a.body = [said |-> n.said, count |-> TenantCount(n),
                               assumed |-> AssumedTotalOf(VerdictsOf(n))]

LEMMA SaidOfNotice ==
  ASSUME AbsentIsNoAnswer, NEW reader \in Readers, NEW n, n # Absent => NoticeRows(n.rows),
         Says(reader, answer[reader], n)
  PROVE  DepositsSaid(reader) \subseteq {DepositsOf(n)} /\ PeopleSaid(reader) \subseteq {PeopleOf(n)}
<1> DEFINE body == answer[reader].body
           row == CardRow(body)
<1>1. CASE n = Absent
  <2>1. body = Absent
    BY <1>1 DEF Says
  <2>2. row = [rights |-> Absent, flags |-> {}, count |-> Absent, deposit |-> Absent]
    BY <2>1 DEF CardRow
  <2>3. /\ ListCard(row) = Unread /\ HoverCard(row) = [deposit |-> Unread, people |-> Unread]
        /\ ItemPage(row) = Unread
    BY <2>2 DEF ListCard, AssumedDepositCardLabel, HoverCard, NoticeMissing, ItemPage
  <2>4. RightsView(body) = [deposit |-> Unread, people |-> Unread]
    BY <2>1 DEF RightsView
  <2>5. DepositsOf(n) = Unread /\ PeopleOf(n) = Unread
    BY <1>1 DEF DepositsOf, PeopleOf
  <2> HIDE DEF row
  <2>6. CASE reader \in {"list", "favorites"}
    BY <2>1, <2>3, <2>5, <2>6 DEF DepositsSaid, PeopleSaid, PreviewSheet, row
  <2>7. CASE reader = "detail"
    BY <2>1, <2>4, <2>5, <2>7 DEF DepositsSaid, PeopleSaid, RightsAnalysisScreen
  <2>8. CASE reader = "affordability"
    BY <2>1, <2>5, <2>8 DEF DepositsSaid, PeopleSaid
  <2> QED
    BY <2>6, <2>7, <2>8 DEF Readers
<1>2. CASE n # Absent
  <2> DEFINE m == Cardinality({n.rows[i].seq : i \in DOMAIN n.rows})
             verdicts == VerdictsOf(n)
             total == AssumedTotalOf(verdicts)
  <2>1. /\ m \in Nat /\ Amounts(verdicts, m) /\ verdicts \in [1..m -> {verdicts[k] : k \in 1..m}]
        /\ \A k \in 1..m : verdicts[k].assumption \in Assumptions
    BY <1>2, VerdictsOnPeople DEF VerdictsOf
  <2>2. PeopleOf(n) = m /\ TenantCount(n) = m /\ DepositsOf(n) = Headline(total)
    BY <1>2 DEF PeopleOf, TenantCount, DepositsOf
  <2>3. AssumedTotal(verdicts) = total
    BY <2>1, SameTotal
  <2>4. Len(verdicts) = m /\ DOMAIN verdicts = 1..m
    <3> DEFINE kinds == {verdicts[k] : k \in 1..m}
    <3> HIDE DEF m, verdicts, kinds
    <3>1. verdicts \in [1..m -> kinds] /\ m \in Nat
      BY <2>1 DEF kinds
    <3> QED
      BY <3>1, LenOfPlaces
  <2>5. total # Absent /\ m # Absent
    BY <2>1, AbsentAssumption DEF AbsentIsNoAnswer, AssumedTotalOf
  <2> HIDE DEF m, verdicts, total
  <2>6. CASE reader \in {"list", "favorites"}
    <3>1. body = [said |-> n.said, count |-> m, assumed |-> total] /\ body # Absent
      BY <1>2, <2>2, <2>6 DEF Says, AbsentIsNoAnswer, verdicts, total
    <3>2. row.count = m /\ row.deposit = total
      BY <3>1 DEF CardRow
    <3>3. /\ ListCard(row) = Headline(total) /\ HoverCard(row).deposit = Headline(total)
          /\ HoverCard(row).people = m /\ ItemPage(row) = m
      BY <2>5, <3>2 DEF ListCard, AssumedDepositCardLabel, HoverCard, NoticeMissing, ItemPage
    <3> HIDE DEF row
    <3> QED
      BY <2>2, <2>6, <3>3 DEF DepositsSaid, PeopleSaid, PreviewSheet, row
  <2>7. CASE reader = "detail"
    <3>1. body = [said |-> n.said, verdicts |-> verdicts] /\ body # Absent
      BY <1>2, <2>7 DEF Says, AbsentIsNoAnswer, verdicts
    <3> DEFINE page == RightsView(body)
    <3>2. /\ page.deposit = Headline(total) /\ page.people = m
          /\ page.whole = CountOf(verdicts, m, {"ASSUMED_FULL"})
          /\ page.open = CountOf(verdicts, m, {"ASSUMED_AMOUNT_UNKNOWN", "UNKNOWN"})
          /\ page.notAssumed = CountOf(verdicts, m, {"NOT_ASSUMED"})
      BY <2>1, <2>3, <2>4, <3>1, ViewOfVerdicts
    <3>3. page.whole + page.open + page.notAssumed = m
      BY <2>1, <3>2, CountsAddUp
    <3> HIDE DEF page
    <3> QED
      BY <2>2, <2>7, <3>1, <3>2, <3>3 DEF DepositsSaid, PeopleSaid, RightsAnalysisScreen, page
  <2>8. CASE reader = "affordability"
    <3>1. PICK it, rates, custom : body = ComputeAffordability(it, verdicts, rates, custom)
      BY <1>2, <2>8 DEF Says, verdicts
    <3>2. body.assumed = total /\ body # Absent
      BY <3>1 DEF ComputeAffordability, AbsentIsNoAnswer, total
    <3> QED
      BY <2>2, <2>8, <3>2 DEF DepositsSaid, PeopleSaid, CostSection
  <2> QED
    BY <2>6, <2>7, <2>8 DEF Readers
<1> QED
  BY <1>1, <1>2

-----------------------------------------------------------------------------
\* Answers that no write crossed say the notice of their moment.

Newest == IF notices = {} THEN Absent ELSE LatestForDetail(notices)

\* Notices have numbers of their own, up to how many there are.
NoticesNumbered ==
  /\ IsFiniteSet(notices)
  /\ \A n \in notices : n.id \in 1..Cardinality(notices)
  /\ \A n, m \in notices : n.id = m.id => n = m

\* A request under way that no write has crossed yet has read the newest notice.
Uncrossed(q) ==
  /\ DOMAIN q = {"item", "custom", "began", "rows", "noticeRead", "notice"}
  /\ q.began \in 0..writes
  /\ ~q.noticeRead => q.rows = Absent
  /\ q.began = writes /\ q.item # Absent /\ q.noticeRead =>
       q.notice = Newest /\ (q.rows # Absent => q.rows = Newest.rows)

Steady(a) == a # Absent /\ a.of # Absent /\ a.began = a.ended

\* hist: the newest notice after so many writes.
Recorded(hist) ==
  /\ DOMAIN hist = Nat /\ hist[writes] = Newest
  /\ \A k \in Nat : hist[k] # Absent => NoticeRows(hist[k].rows)
  /\ \A r \in Readers : Steady(answer[r]) => answer[r].began \in 0..writes
                                           /\ Says(r, answer[r], hist[answer[r].began])

AgreeInv ==
  /\ ItemInv /\ writes \in Nat /\ NoticesNumbered
  /\ \A r \in Readers : query[r] # Absent => Uncrossed(query[r])
  /\ \E hist : Recorded(hist)

\* Both orders choose the same notice.
LEMMA OrdersAgree ==
  ASSUME NoticesKnown, notices # {}
  PROVE  LatestForList(notices) = LatestForDetail(notices)
<1>1. PICK n \in notices : \A m \in notices \ {n} : Dated(n) > Dated(m)
  BY DEF NoticesKnown
<1>2. \A m \in notices : Dated(m) \in Int
  <2>1. NoticeDates \subseteq Nat \union {Absent}
    BY ItemAssumption
  <2>2. SUFFICES ASSUME NEW m \in notices PROVE Dated(m) \in Int
    OBVIOUS
  <2>3. m.date = Absent \/ m.date \in Nat
    BY <2>1, <2>2 DEF NoticesKnown
  <2>4. CASE m.date = Absent
    BY <2>4 DEF Dated
  <2>5. CASE m.date # Absent
    BY <2>3, <2>5 DEF Dated
  <2> QED
    BY <2>4, <2>5
<1> DEFINE First(k) == \A m \in notices \ {k} :
                         Dated(k) > Dated(m) \/ (Dated(k) = Dated(m) /\ k.id > m.id)
           Next(k) == \A m \in notices \ {k} :
                        Dated(k) > Dated(m)
                        \/ (Dated(k) = Dated(m) /\ (k.observed > m.observed
                             \/ (k.observed = m.observed /\ k.id > m.id)))
<1>3. \A k \in notices : (First(k) <=> k = n) /\ (Next(k) <=> k = n)
  BY <1>1, <1>2
<1>4. LatestForList(notices) = CHOOSE k \in notices : First(k)
  BY Zenon DEF LatestForList, LastBy
<1>5. LatestForDetail(notices) = CHOOSE k \in notices : Next(k)
  BY Zenon DEF LatestForDetail, LastBy
<1> HIDE DEF First, Next
<1>6. (CHOOSE k \in notices : First(k)) = n /\ (CHOOSE k \in notices : Next(k)) = n
  BY <1>3
<1> QED
  BY <1>4, <1>5, <1>6

LEMMA NewestIsNotice ==
  ASSUME NoticesKnown
  PROVE  /\ Newest # Absent => Newest \in notices /\ NoticeRows(Newest.rows)
         /\ \A r \in Readers : LatestNotice(r) = Newest
<1>1. Newest # Absent => Newest \in notices
  BY LatestIsNotice DEF Newest
<1>2. \A r \in Readers : LatestNotice(r) = Newest
  BY OrdersAgree DEF LatestNotice, Newest
<1> QED
  BY <1>1, <1>2 DEF NoticesKnown

LEMMA NumbersKept ==
  ASSUME NoticesKnown, NoticesNumbered, UpsertNotice
  PROVE  NoticesNumbered'
<1>0. PICK date \in NoticeDates, content \in Contents :
      LET existing == NoticesOfDate(date)
          Updated(n) == [n EXCEPT !.said = content.said,
                                  !.observed = IF n.said = content.said THEN @ ELSE writes + 1,
                                  !.rows = IF content.rows = << >> THEN @ ELSE content.rows]
          inserted == [id |-> Cardinality(notices) + 1, date |-> date, observed |-> writes + 1,
                       said |-> content.said, rows |-> content.rows]
      IN  notices' = IF existing = {} THEN notices \union {inserted}
                     ELSE LET n == CHOOSE x \in existing : TRUE
                          IN  (notices \ {n}) \union {Updated(n)}
  BY DEF UpsertNotice
<1> DEFINE size == Cardinality(notices)
<1>1. size \in Nat /\ IsFiniteSet(notices)
  BY FS_CardinalityType DEF NoticesNumbered
<1>2. CASE NoticesOfDate(date) = {}
  <2> DEFINE new == [id |-> size + 1, date |-> date, observed |-> writes + 1,
                     said |-> content.said, rows |-> content.rows]
  <2>1. notices' = notices \union {new} /\ new.id = size + 1
    BY <1>0, <1>2
  <2> HIDE DEF new
  <2>2. \A n \in notices : n.id \in 1..size
    BY DEF NoticesNumbered
  <2>3. new \notin notices
    BY <1>1, <2>1, <2>2
  <2>4. IsFiniteSet(notices') /\ Cardinality(notices') = size + 1
    BY <1>1, <2>1, <2>3, FS_AddElement
  <2> HIDE DEF size
  <2>5. \A n \in notices' : n.id \in 1..(size + 1)
    BY <1>1, <2>1, <2>2
  <2>6. \A n, m \in notices' : n.id = m.id => n = m
    BY <1>1, <2>1, <2>2 DEF NoticesNumbered
  <2> QED
    BY <2>4, <2>5, <2>6 DEF NoticesNumbered
<1>3. CASE NoticesOfDate(date) # {}
  <2> DEFINE old == CHOOSE x \in NoticesOfDate(date) : TRUE
             observed == IF old.said = content.said THEN old.observed ELSE writes + 1
             table == IF content.rows = << >> THEN old.rows ELSE content.rows
             new == [old EXCEPT !.said = content.said, !.observed = observed, !.rows = table]
  <2>1. notices' = (notices \ {old}) \union {new}
    BY <1>0, <1>3
  <2>2. old \in notices
    BY <1>3 DEF NoticesOfDate
  <2>3. DOMAIN old = {"id", "date", "observed", "said", "rows"}
    BY <2>2 DEF NoticesKnown
  <2> HIDE DEF old, observed, table
  <2>4. new.id = old.id
    BY <2>3
  <2> HIDE DEF new
  <2>5. new \notin notices \ {old}
    BY <2>2, <2>4 DEF NoticesNumbered
  <2>6. IsFiniteSet(notices \ {old}) /\ Cardinality(notices \ {old}) = size - 1
    BY <1>1, <2>2, FS_RemoveElement
  <2>7. IsFiniteSet(notices') /\ Cardinality(notices') = size
    <3>1. Cardinality(notices') = Cardinality(notices \ {old}) + 1 /\ IsFiniteSet(notices')
      BY <2>1, <2>5, <2>6, FS_AddElement
    <3> QED
      BY <1>1, <2>6, <3>1
  <2>8. \A n \in notices' : n.id \in 1..size
    BY <2>1, <2>2, <2>4 DEF NoticesNumbered
  <2>9. \A n, m \in notices' : n.id = m.id => n = m
    BY <2>1, <2>2, <2>4 DEF NoticesNumbered
  <2> QED
    BY <2>7, <2>8, <2>9 DEF NoticesNumbered
<1> QED
  BY <1>2, <1>3

\* An answer from the newest notice and its table says it.
LEMMA BodySays ==
  ASSUME NEW reader \in Readers, NEW q, NEW rates, NEW a, NEW n,
         a.body = Body(reader, q, rates), q.notice = n, n # Absent => q.rows = n.rows
  PROVE  Says(reader, a, n)
<1>1. CASE n = Absent
  BY <1>1 DEF Body, Says
<1>2. CASE n # Absent
  <2> DEFINE verdicts == AnalyzeNotice(q.rows, q.notice.said.baseline, q.notice.said.deadline)
  <2>1. verdicts = VerdictsOf(n)
    BY <1>2 DEF VerdictsOf
  <2>2. a.body = CASE reader = "affordability" -> ComputeAffordability(q.item, verdicts, rates, q.custom)
                   [] reader = "detail" -> [said |-> q.notice.said, verdicts |-> verdicts]
                   [] OTHER -> [said |-> q.notice.said, count |-> TenantCount(q.notice),
                                assumed |-> AssumedTotalOf(verdicts)]
    BY <1>2 DEF Body
  <2> HIDE DEF verdicts
  <2> QED
    BY <1>2, <2>1, <2>2 DEF Says
<1> QED
  BY <1>1, <1>2

LEMMA NewestKnown == NoticesKnown => (Newest # Absent => NoticeRows(Newest.rows))
  BY NewestIsNotice

LEMMA BegunCurrent ==
  ASSUME AgreeInv, NEW reader \in Readers, NEW custom, Begin(reader, custom)
  PROVE  /\ \A r \in Readers \ {reader} : query'[r] = query[r]
         /\ query'[reader] # Absent => Uncrossed(query'[reader])
<1> DEFINE seen == IF reader = "favorites" /\ ~favored THEN Absent ELSE item
           read == (reader # "affordability" \/ seen = Absent)
           notice == IF reader = "affordability" \/ seen = Absent THEN Absent
                     ELSE LatestNotice(reader)
           q == [item |-> seen, custom |-> custom, began |-> writes, rows |-> Absent,
                 noticeRead |-> read, notice |-> notice]
<1>1. query' = [query EXCEPT ![reader] = q] /\ DOMAIN query = Readers
  BY DEF Begin, AgreeInv, ItemInv
<1>2. read \in BOOLEAN /\ (seen # Absent /\ read => notice = Newest)
  BY NewestIsNotice DEF AgreeInv, ItemInv
<1>3. writes \in 0..writes
  BY DEF AgreeInv
<1> HIDE DEF seen, read, notice
<1>4. Uncrossed(q)
  BY <1>2, <1>3 DEF Uncrossed
<1> HIDE DEF q
<1> QED
  BY <1>1, <1>4

LEMMA AgreeStarts == ItemInit => AgreeInv
<1> SUFFICES ASSUME ItemInit PROVE AgreeInv
  OBVIOUS
<1>1. ItemInv /\ writes = 0
  BY ItemStarts DEF ItemInit
<1>2. NoticesNumbered
  BY FS_EmptySet DEF ItemInit, NoticesNumbered
<1> DEFINE hist == [k \in Nat |-> Absent]
<1>3. Recorded(hist)
  BY <1>1 DEF ItemInit, Recorded, Newest, Steady
<1> QED
  BY <1>1, <1>2, <1>3 DEF ItemInit, AgreeInv

LEMMA AgreeStep == AgreeInv /\ [ItemNext]_itemVars => AgreeInv'
<1> SUFFICES ASSUME AgreeInv, [ItemNext]_itemVars PROVE AgreeInv'
  OBVIOUS
<1>0. ItemInv /\ ItemInv' /\ NoticesKnown /\ NoticesKnown' /\ writes \in Nat
  BY ItemStep DEF AgreeInv, ItemInv
<1> PICK hist : Recorded(hist)
  BY DEF AgreeInv
\* A write ends what the requests under way know.
<1>1. ASSUME writes' = writes + 1, UNCHANGED <<query, answer>>, NoticesNumbered'
      PROVE  AgreeInv'
  <2>0. PICK more : more = [k \in Nat |-> IF k = writes + 1 THEN Newest' ELSE hist[k]]
    OBVIOUS
  <2>1. (NoticesKnown => (Newest # Absent => NoticeRows(Newest.rows)))'
    BY NewestKnown, PTL
  <2>2. Newest' # Absent => NoticeRows(Newest'.rows)
    BY <1>0, <2>1
  <2>3. Recorded(more)'
    <3>1. \A k \in Nat : more[k] = IF k = writes + 1 THEN Newest' ELSE hist[k]
      BY <2>0
    <3>2. DOMAIN more = Nat /\ more[writes'] = Newest'
      BY <1>0, <1>1, <2>0
    <3>3. \A k \in Nat : more[k] # Absent => NoticeRows(more[k].rows)
      BY <2>2, <3>1 DEF Recorded
    <3>4. \A k \in 0..writes : k \in 0..writes' /\ more[k] = hist[k]
      BY <1>0, <1>1, <3>1
    <3>5. \A r \in Readers : Steady(answer[r]) => answer[r].began \in 0..writes'
                                              /\ Says(r, answer[r], more[answer[r].began])
      BY <3>4 DEF Recorded
    <3> QED
      BY <1>1, <3>2, <3>3, <3>5 DEF Recorded
  <2>4. (\A r \in Readers : query[r] # Absent => Uncrossed(query[r]))'
    <3>1. \A b \in 0..writes : b \in 0..writes' /\ b # writes'
      BY <1>0, <1>1
    <3> QED
      BY <1>1, <3>1 DEF AgreeInv, Uncrossed
  <2> QED
    BY <1>0, <1>1, <2>3, <2>4 DEF AgreeInv
\* A request begins or reads.
<1>2. ASSUME UNCHANGED <<notices, writes, answer>>, NEW reader \in Readers,
             \A r \in Readers \ {reader} : query'[r] = query[r],
             query'[reader] # Absent => Uncrossed(query'[reader])
      PROVE  AgreeInv'
  <2>1. Newest' = Newest /\ NoticesNumbered'
    BY <1>2 DEF Newest, NoticesNumbered, AgreeInv
  <2>2. Recorded(hist)'
    BY <1>2, <2>1 DEF Recorded
  <2>3. \A r \in Readers : query'[r] # Absent => Uncrossed(query'[r])
    BY <1>2 DEF AgreeInv
  <2>4. (\A r \in Readers : query[r] # Absent => Uncrossed(query[r]))'
    BY <1>2, <2>1, <2>3 DEF Uncrossed
  <2> QED
    BY <1>0, <1>2, <2>1, <2>2, <2>4 DEF AgreeInv
<1>3. ASSUME UNCHANGED <<notices, writes, query, answer>> PROVE AgreeInv'
  <2>1. Newest' = Newest /\ NoticesNumbered'
    BY <1>3 DEF Newest, NoticesNumbered, AgreeInv
  <2>2. Recorded(hist)'
    BY <1>3, <2>1 DEF Recorded
  <2> QED
    BY <1>0, <1>3, <2>1, <2>2 DEF AgreeInv, Uncrossed
<1>4. "affordability" \in Readers /\ "list" \in Readers /\ "favorites" \in Readers
      /\ "detail" \in Readers
  BY DEF Readers
<1>5. CASE CollectItem
  BY <1>1, <1>5 DEF CollectItem, AgreeInv, NoticesNumbered
<1>6. CASE UpsertNotice
  BY <1>0, <1>1, <1>6, NumbersKept DEF UpsertNotice, AgreeInv
<1>7. CASE SetFavorite
  BY <1>3, <1>7 DEF SetFavorite
<1>8. ASSUME NEW reader \in Readers, NEW custom, Begin(reader, custom)
      PROVE  AgreeInv'
  <2>1. UNCHANGED <<notices, writes, answer>>
    BY <1>8 DEF Begin
  <2> QED
    BY <1>2, <1>8, <2>1, BegunCurrent
<1>9. CASE FindMany \/ FindByUser \/ FindNoticeAnalysis \/ FindAffordability
  BY <1>4, <1>8, <1>9 DEF FindMany, FindByUser, FindNoticeAnalysis, FindAffordability
<1>10. CASE ReadNotice
  <2> DEFINE q == query["affordability"]
             latest == LatestNotice("affordability")
             r == [q EXCEPT !.noticeRead = TRUE, !.notice = latest]
  <2>1. Uncrossed(q) /\ ~q.noticeRead /\ latest = Newest
    BY <1>0, <1>4, <1>10, NewestIsNotice DEF ReadNotice, AgreeInv
  <2>2. query' = [query EXCEPT !["affordability"] = r]
    BY <1>0, <1>4, <1>10 DEF ReadNotice, ItemInv
  <2> HIDE DEF latest
  <2>3. Uncrossed(r)
    BY <2>1 DEF Uncrossed
  <2> HIDE DEF r, q
  <2>4. /\ query'["affordability"] = r
        /\ \A k \in Readers \ {"affordability"} : query'[k] = query[k]
    BY <1>0, <1>4, <2>2 DEF ItemInv
  <2>5. UNCHANGED <<notices, writes, answer>>
    BY <1>10 DEF ReadNotice
  <2> QED
    BY <1>2, <1>4, <2>3, <2>4, <2>5
<1>11. CASE ReadTenantsSome
  <2>1. PICK reader \in Readers : ReadTenants(reader)
    BY <1>11 DEF ReadTenantsSome
  <2> DEFINE q == query[reader]
             n == CHOOSE k \in notices : k.id = q.notice.id
             r == [q EXCEPT !.rows = n.rows]
  <2>2. Uncrossed(q) /\ q.notice # Absent /\ q.noticeRead
    BY <2>1 DEF ReadTenants, AgreeInv
  <2>3. ASSUME q.began = writes, q.item # Absent PROVE n = Newest
    <3>1. q.notice = Newest
      BY <2>2, <2>3 DEF Uncrossed
    <3>2. Newest \in notices
      BY <1>0, <2>2, <3>1, NewestIsNotice
    <3> QED
      BY <3>1, <3>2 DEF AgreeInv, NoticesNumbered
  <2>4. query' = [query EXCEPT ![reader] = r]
    BY <1>0, <2>1 DEF ReadTenants, ItemInv
  <2> HIDE DEF n
  <2>5. Uncrossed(r)
    BY <2>2, <2>3 DEF Uncrossed
  <2> HIDE DEF r, q
  <2>6. query'[reader] = r /\ \A k \in Readers \ {reader} : query'[k] = query[k]
    BY <1>0, <2>4 DEF ItemInv
  <2>7. UNCHANGED <<notices, writes, answer>>
    BY <2>1 DEF ReadTenants
  <2> QED
    BY <1>2, <2>5, <2>6, <2>7
<1>12. CASE AnswerSome
  <2>1. PICK reader \in Readers : Answer(reader)
    BY <1>12 DEF AnswerSome
  <2> DEFINE q == query[reader]
  <2>2. /\ Uncrossed(q) /\ q.noticeRead /\ (q.notice = Absent \/ q.rows # Absent)
        /\ UNCHANGED <<notices, writes>>
    BY <2>1 DEF Answer, AgreeInv
  <2>3. PICK rates : answer' = [answer EXCEPT ![reader] =
                       [body |-> Body(reader, q, rates), of |-> q.item,
                        began |-> q.began, ended |-> writes]]
    BY <2>1 DEF Answer
  <2> DEFINE body == Body(reader, q, rates)
             a == [body |-> body, of |-> q.item, began |-> q.began, ended |-> writes]
  <2>4. ASSUME Steady(a) PROVE a.began \in 0..writes /\ Says(reader, a, hist[a.began])
    <3>1. q.began = writes /\ q.item # Absent
      BY <2>4 DEF Steady
    <3>2. q.notice = Newest /\ (Newest # Absent => q.rows = Newest.rows)
      BY <2>2, <3>1 DEF Uncrossed
    <3>3. Says(reader, a, Newest)
      <4>1. a.body = Body(reader, q, rates)
        OBVIOUS
      <4> HIDE DEF a, q, body
      <4> QED
        BY <3>2, <4>1, BodySays
    <3>4. a.began = writes
      BY <3>1
    <3>5. hist[writes] = Newest
      BY DEF Recorded
    <3> HIDE DEF a
    <3> QED
      BY <1>0, <3>3, <3>4, <3>5
  <2> HIDE DEF a, body
  <2>5. /\ DOMAIN answer = Readers /\ answer'[reader] = a
        /\ \A k \in Readers \ {reader} : answer'[k] = answer[k]
    BY <1>0, <2>3 DEF ItemInv, a, body
  <2>6. /\ query'[reader] = Absent /\ \A k \in Readers \ {reader} : query'[k] = query[k]
    BY <1>0, <2>1 DEF Answer, ItemInv
  <2>7. Newest' = Newest /\ NoticesNumbered'
    BY <2>2 DEF Newest, NoticesNumbered, AgreeInv
  <2>8. Recorded(hist)'
    BY <2>2, <2>4, <2>5, <2>7 DEF Recorded
  <2>9. (\A r \in Readers : query[r] # Absent => Uncrossed(query[r]))'
    BY <2>2, <2>6, <2>7 DEF Uncrossed, AgreeInv
  <2> QED
    BY <1>0, <2>2, <2>7, <2>8, <2>9 DEF AgreeInv
<1>13. CASE UNCHANGED itemVars
  BY <1>3, <1>13 DEF itemVars
<1> QED
  BY <1>5, <1>6, <1>7, <1>9, <1>10, <1>11, <1>12, <1>13 DEF ItemNext

\* At most one thing is said of an item between two writes of the collector, by
\* cards, pages, rights and costs alike, for any notices, tables and requests.
THEOREM ScreensAgree ==
  ASSUME AbsentIsNoAnswer
  PROVE  ItemSpec => []AnswersAgree
<1>1. AgreeInv => AnswersAgree
  <2> SUFFICES ASSUME AgreeInv, NEW n \in 0..writes
               PROVE  LET At == {r \in Readers : Steady(answer[r]) /\ answer[r].began = n}
                      IN  /\ Cardinality(UNION {DepositsSaid(r) : r \in At}) <= 1
                          /\ Cardinality(UNION {PeopleSaid(r) : r \in At}) <= 1
    BY DEF AnswersAgree, Steady
  <2> DEFINE At == {r \in Readers : Steady(answer[r]) /\ answer[r].began = n}
  <2>1. PICK hist : Recorded(hist)
    BY DEF AgreeInv
  <2>2. n \in Nat
    BY DEF AgreeInv
  <2>3. \A r \in At : /\ DepositsSaid(r) \subseteq {DepositsOf(hist[n])}
                     /\ PeopleSaid(r) \subseteq {PeopleOf(hist[n])}
    BY <2>1, <2>2, SaidOfNotice DEF Recorded
  <2>4. ASSUME NEW S, NEW x, S \subseteq {x} PROVE Cardinality(S) <= 1
    <3>1. IsFiniteSet({x}) /\ Cardinality({x}) = 1
      BY FS_Singleton
    <3> QED
      BY <2>4, <3>1, FS_Subset
  <2>5. /\ UNION {DepositsSaid(r) : r \in At} \subseteq {DepositsOf(hist[n])}
        /\ UNION {PeopleSaid(r) : r \in At} \subseteq {PeopleOf(hist[n])}
    BY <2>3
  <2> QED
    BY <2>4, <2>5
<1> QED
  BY <1>1, AgreeStarts, AgreeStep, PTL DEF ItemSpec

=============================================================================
