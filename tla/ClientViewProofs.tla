-------------------------- MODULE ClientViewProofs --------------------------
(***************************************************************************)
(* TransactionLifecycle implements ClientView, for any number of            *)
(* transactions, accounts, attempts and restarts, whatever calls fail and   *)
(* whichever attempts are mined.  The reason: an attempt is made from the   *)
(* one link of its transaction, after the client was told of the attempt    *)
(* before, and only while nothing of it is mined.  The types of the         *)
(* lifecycle, the report of every mined attempt and what ends the           *)
(* resubmissions of a transaction follow.                                   *)
(***************************************************************************)
EXTENDS TransactionLifecycleProofs

(* The view of a client, from the sequence s of its events.                 *)
MinedIn(s) == \E i \in DOMAIN s : s[i] = "mined"

NoError(s) == \A i \in DOMAIN s : s[i] # "error"

ToldBy(s) ==
  IF s = <<>> THEN "nothing"
  ELSE IF s[Len(s)] \in {"mined", "error"} THEN s[Len(s)]
  ELSE IF MinedIn(s) THEN "late hash" ELSE "hash"

NotLate(s) == ToldBy(s) # "late hash"

HashesBy(s) == Len(s) - (IF ToldBy(s) \in {"error", "mined", "late hash"} THEN 1 ELSE 0)

StoryOf(s) ==
  \A i \in DOMAIN s :
    /\ s[i] \in {"generated", "error"} <=> i = 1
    /\ s[i] = "error" => Len(s) = 1
    /\ s[i] = "mined" => \A j \in DOMAIN s : j > i => j = i + 1 /\ s[j] = "changed"

Latest(h) == h[2] = attempts[IdOf(h)]

Followed == accepted \cup announced \cup retryQueue \cup retrying

LatestInv == \A h \in Followed : Latest(h)

WaitersInv == \A h \in waiters : h \in Hashes /\ pc[IdOf(h)] = "sent" /\ Exists(h)

(* The receipt of t was found: it is not looked for again. *)
Settled(t) ==
  \E n \in 1 .. MaxAttempts :
    InLedger(<<t, n>>) /\ <<t, n>> \notin accepted \cup announced \cup waiters

(* What the events of an id say of the places its hashes are in.            *)
StoryInv ==
  /\ events \in [Ids -> Seq(EventTypes)]
  /\ \A t \in Ids : StoryOf(events[t])
  /\ \A t \in Ids : ~Broadcasted(t) => events[t] = <<>>
  /\ \A t \in Ids : pc[t] = "sent" => NoError(events[t])
  /\ \A h \in accepted : /\ HashesBy(events[IdOf(h)]) = h[2] - 1
                         /\ NotLate(events[IdOf(h)])
  /\ \A h \in announced \cup retryQueue \cup retrying : HashesBy(events[IdOf(h)]) = h[2]
  /\ \A h \in waiters : h[2] <= HashesBy(events[IdOf(h)])
  /\ waiters \cap (accepted \cup announced) = {}
  /\ \A t \in Ids : MinedIn(events[t]) => Settled(t)

ViewInv ==
  /\ LifecycleInv
  /\ OneRetryChain
  /\ LatestInv
  /\ WaitersInv
  /\ StoryInv

(* The part of it the steps of TransactionLifecycleProofs leave open. *)
ViewParts == LatestInv /\ WaitersInv /\ StoryInv

-----------------------------------------------------------------------------
LEMMA ToldOfEvents ==
  /\ \A t : Told(t) = ToldBy(events[t]) /\ HashesTold(t) = HashesBy(events[t])
  /\ \A t : Told(t)' = ToldBy(events'[t]) /\ HashesTold(t)' = HashesBy(events'[t])
BY DEF Told, HashesTold, Reported, ToldBy, HashesBy, MinedIn

LEMMA StoryOfEvents == ClientStory <=> \A t \in Ids : StoryOf(events[t])
BY DEF ClientStory, StoryOf

\* The story of a transaction that was sent.
LEMMA StoryParts ==
  ASSUME NEW s \in Seq(EventTypes), StoryOf(s), NoError(s)
  PROVE  /\ HashesBy(s) = IF MinedIn(s) THEN Len(s) - 1 ELSE Len(s)
         /\ HashesBy(s) \in Nat /\ (HashesBy(s) = 0 <=> s = <<>>)
         /\ MinedIn(s) => ToldBy(s) \in {"mined", "late hash"}
         /\ ~MinedIn(s) => ToldBy(s) = IF s = <<>> THEN "nothing" ELSE "hash"
         /\ ToldBy(s) = "mined" => s # <<>> /\ s[Len(s)] = "mined"
<1>1. Len(s) \in Nat /\ DOMAIN s = 1 .. Len(s) /\ (s = <<>> <=> Len(s) = 0)
  OBVIOUS
<1>2. CASE s = <<>>
  BY <1>1, <1>2 DEF HashesBy, ToldBy, MinedIn
<1>3. CASE s # <<>>
  <2>1. Len(s) \in DOMAIN s /\ s[Len(s)] # "error"
    BY <1>1, <1>3 DEF NoError
  <2>2. s[Len(s)] = "mined" => MinedIn(s)
    BY <2>1 DEF MinedIn
  <2>3. MinedIn(s) => Len(s) >= 2
    <3> SUFFICES ASSUME NEW i \in DOMAIN s, s[i] = "mined" PROVE Len(s) >= 2
      BY DEF MinedIn
    <3>1. 1 \in DOMAIN s /\ s[1] \in {"generated", "error"}
      BY <1>1, <1>3 DEF StoryOf
    <3> QED BY <1>1, <3>1
  <2>a. PICK told : told = ToldBy(s)
    OBVIOUS
  <2>4. /\ MinedIn(s) => told \in {"mined", "late hash"}
        /\ ~MinedIn(s) => told = "hash"
        /\ told = "mined" => s[Len(s)] = "mined"
    BY <1>3, <2>a, <2>1, <2>2 DEF ToldBy
  <2>5. HashesBy(s) = Len(s) - (IF told \in {"error", "mined", "late hash"} THEN 1 ELSE 0)
    BY <2>a DEF HashesBy
  <2>6. CASE MinedIn(s)
    <3>1. HashesBy(s) = Len(s) - 1
      BY <2>4, <2>5, <2>6
    <3>2. HashesBy(s) \in Nat /\ HashesBy(s) # 0
      BY <1>1, <2>3, <2>6, <3>1
    <3> QED BY <1>3, <2>a, <2>4, <2>6, <3>1, <3>2
  <2>7. CASE ~MinedIn(s)
    <3>1. HashesBy(s) = Len(s)
      BY <1>1, <2>4, <2>5, <2>7
    <3> QED BY <1>1, <1>3, <2>a, <2>4, <2>7, <3>1
  <2> QED BY <2>6, <2>7
<1> QED BY <1>2, <1>3

LEMMA Appended ==
  ASSUME NEW s \in Seq(EventTypes), NEW e \in EventTypes, NEW r, r = Append(s, e)
  PROVE  /\ r \in Seq(EventTypes) /\ r # <<>> /\ Len(r) = Len(s) + 1 /\ r[Len(s) + 1] = e
         /\ Len(s) \in Nat /\ DOMAIN s = 1 .. Len(s) /\ DOMAIN r = 1 .. Len(s) + 1
         /\ \A i \in 1 .. Len(s) : r[i] = s[i]
         /\ s = <<>> <=> Len(s) = 0
OBVIOUS

\* One more hash, the first or another one; after the receipt it is a late one.
LEMMA HashAdded ==
  ASSUME NEW s \in Seq(EventTypes), StoryOf(s), NoError(s), NotLate(s),
         NEW e, e = IF s = <<>> THEN "generated" ELSE "changed",
         NEW r, r = Append(s, e)
  PROVE  /\ r \in Seq(EventTypes) /\ StoryOf(r) /\ NoError(r) /\ (MinedIn(r) <=> MinedIn(s))
         /\ HashesBy(r) = HashesBy(s) + 1
         /\ ToldBy(s) \in {"nothing", "hash", "mined"}
         /\ ToldBy(r) = IF ToldBy(s) = "mined" THEN "late hash" ELSE "hash"
<1>e. e \in EventTypes /\ e \notin {"mined", "error"}
  BY DEF EventTypes
<1>1. /\ r \in Seq(EventTypes) /\ r # <<>> /\ Len(r) = Len(s) + 1 /\ r[Len(s) + 1] = e
      /\ Len(s) \in Nat /\ DOMAIN s = 1 .. Len(s) /\ DOMAIN r = 1 .. Len(s) + 1
      /\ \A i \in 1 .. Len(s) : r[i] = s[i]
      /\ s = <<>> <=> Len(s) = 0
  BY <1>e, Appended
<1>2. MinedIn(r) <=> MinedIn(s)
  BY <1>1 DEF MinedIn
<1>3. NoError(r)
  BY <1>1 DEF NoError
<1>4. MinedIn(s) => s # <<>> /\ s[Len(s)] = "mined"
  BY StoryParts DEF NotLate
<1>5. StoryOf(r)
  <2> SUFFICES ASSUME NEW i \in DOMAIN r
               PROVE  /\ r[i] \in {"generated", "error"} <=> i = 1
                      /\ r[i] = "error" => Len(r) = 1
                      /\ r[i] = "mined" => \A j \in DOMAIN r : j > i => j = i + 1 /\ r[j] = "changed"
    BY DEF StoryOf
  <2>1. CASE i = Len(s) + 1
    BY <1>1, <2>1
  <2>2. CASE i \in 1 .. Len(s)
    <3>1. r[i] = s[i] /\ i \in DOMAIN s
      BY <1>1, <2>2
    <3>2. /\ r[i] \in {"generated", "error"} <=> i = 1
          /\ r[i] # "error"
      BY <3>1 DEF StoryOf, NoError
    <3>3. ASSUME r[i] = "mined", NEW j \in DOMAIN r, j > i PROVE j = i + 1 /\ r[j] = "changed"
      <4>1. MinedIn(s)
        BY <3>1, <3>3 DEF MinedIn
      <4>2. Len(s) \in DOMAIN s /\ s[Len(s)] = "mined"
        BY <1>1, <1>4, <4>1
      <4>3. i = Len(s)
        BY <1>1, <2>2, <3>1, <3>3, <4>2 DEF StoryOf
      <4> QED BY <1>1, <1>4, <3>3, <4>1, <4>3
    <3> QED BY <3>2, <3>3
  <2> QED BY <1>1, <2>1, <2>2
<1>6. HashesBy(s) = (IF MinedIn(s) THEN Len(s) - 1 ELSE Len(s)) /\ HashesBy(r) = IF MinedIn(r) THEN Len(r) - 1 ELSE Len(r)
  BY <1>1, <1>3, <1>5, StoryParts
<1>7. HashesBy(r) = HashesBy(s) + 1
  BY <1>1, <1>2, <1>6
<1>8. ToldBy(s) \in {"nothing", "hash", "mined"} /\ (MinedIn(s) <=> ToldBy(s) = "mined")
  BY StoryParts DEF NotLate
<1>9. ToldBy(r) = IF MinedIn(r) THEN "late hash" ELSE "hash"
  BY <1>1 DEF ToldBy
<1> QED BY <1>1, <1>2, <1>3, <1>5, <1>7, <1>8, <1>9

\* The receipt, once.
LEMMA MinedAdded ==
  ASSUME NEW s \in Seq(EventTypes), StoryOf(s), NoError(s), ~MinedIn(s), s # <<>>,
         NEW r, r = Append(s, "mined")
  PROVE  /\ r \in Seq(EventTypes) /\ StoryOf(r) /\ NoError(r) /\ MinedIn(r)
         /\ HashesBy(r) = HashesBy(s)
         /\ ToldBy(s) = "hash" /\ ToldBy(r) = "mined"
<1>1. /\ r \in Seq(EventTypes) /\ r # <<>> /\ Len(r) = Len(s) + 1 /\ r[Len(s) + 1] = "mined"
      /\ Len(s) \in Nat /\ DOMAIN s = 1 .. Len(s) /\ DOMAIN r = 1 .. Len(s) + 1
      /\ \A i \in 1 .. Len(s) : r[i] = s[i]
      /\ s = <<>> <=> Len(s) = 0
  BY Appended DEF EventTypes
<1>2. MinedIn(r)
  BY <1>1 DEF MinedIn
<1>3. NoError(r)
  BY <1>1 DEF NoError
<1>4. StoryOf(r)
  <2> SUFFICES ASSUME NEW i \in DOMAIN r
               PROVE  /\ r[i] \in {"generated", "error"} <=> i = 1
                      /\ r[i] # "error"
                      /\ r[i] = "mined" => \A j \in DOMAIN r : ~(j > i)
    BY DEF StoryOf
  <2>1. CASE i = Len(s) + 1
    BY <1>1, <2>1
  <2>2. CASE i \in 1 .. Len(s)
    BY <1>1, <2>2 DEF StoryOf, NoError, MinedIn
  <2> QED BY <1>1, <2>1, <2>2
<1>5. HashesBy(s) = Len(s) /\ HashesBy(r) = Len(r) - 1
  BY <1>1, <1>2, <1>3, <1>4, StoryParts
<1>6. ToldBy(s) = "hash" /\ ToldBy(r) = "mined"
  BY <1>1, StoryParts DEF ToldBy
<1> QED BY <1>1, <1>2, <1>3, <1>4, <1>5, <1>6

LEMMA EmptyStory == StoryOf(<<>>) /\ NoError(<<>>) /\ ~MinedIn(<<>>)
                    /\ ToldBy(<<>>) = "nothing" /\ HashesBy(<<>>) = 0
BY DEF StoryOf, NoError, MinedIn, ToldBy, HashesBy

-----------------------------------------------------------------------------
LEMMA InitView == Init => ViewInv
<1> SUFFICES ASSUME Init PROVE ViewInv
  OBVIOUS
<1>1. OneRetryChain /\ LatestInv /\ WaitersInv
  BY LifecycleAssumption DEF Init, OneRetryChain, Links, LatestInv, Followed, WaitersInv
<1>2. events \in [Ids -> Seq(EventTypes)] /\ \A t \in Ids : events[t] = <<>>
  BY DEF Init
<1>3. StoryInv
  BY <1>2, EmptyStory DEF Init, StoryInv
<1> QED BY InitInv, <1>1, <1>3 DEF ViewInv

LEMMA ViewTypes ==
  ASSUME ViewInv
  PROVE  /\ pc \in [Ids -> Places] /\ sender \in [Ids -> Accounts \cup {None}]
         /\ nonce \in [Hashes -> Nat \cup {Missing}]
         /\ attempts \in [Ids -> 0 .. MaxAttempts] /\ ledger \in [Accounts -> Seq(Hashes)]
         /\ events \in [Ids -> Seq(EventTypes)]
         /\ \A h \in Followed \cup waiters : h \in Hashes /\ IdOf(h) \in Ids /\ pc[IdOf(h)] = "sent"
BY HashParts DEF ViewInv, LifecycleInv, HandlerTypes, ChainTypes, FollowedInv, StoryInv,
                 WaitersInv, Followed

\* A hash at one place of the chain of resubmissions of an id is at no other, and no
\* other hash of the id is at any.
LEMMA OnlyLink ==
  ASSUME OneRetryChain, NEW l \in Links, NEW k, IdOf(k) = IdOf(l[2])
  PROVE  /\ k \in accepted => l = <<"accepted", k>>
         /\ k \in announced => l = <<"announced", k>>
         /\ k \in retryQueue => l = <<"retryQueue", k>>
         /\ k \in retrying => l = <<"retrying", k>>
<1>1. \A place \in {"accepted", "announced", "retryQueue", "retrying"} :
        <<place, k>> \in Links => l = <<place, k>>
  BY DEF OneRetryChain
<1>2. /\ k \in accepted => <<"accepted", k>> \in Links
      /\ k \in announced => <<"announced", k>> \in Links
      /\ k \in retryQueue => <<"retryQueue", k>> \in Links
      /\ k \in retrying => <<"retrying", k>> \in Links
  BY DEF Links
<1> QED BY <1>1, <1>2

\* What is followed is the latest attempt.
LEMMA FollowedHash ==
  ASSUME ViewInv, NEW h \in Followed
  PROVE  /\ IdOf(h) \in Ids /\ h = <<IdOf(h), attempts[IdOf(h)]>> /\ h \in Hashes
         /\ attempts[IdOf(h)] \in 1 .. MaxAttempts /\ Exists(h) /\ sender[IdOf(h)] \in Accounts
         /\ StoryOf(events[IdOf(h)]) /\ NoError(events[IdOf(h)])
         /\ events[IdOf(h)] \in Seq(EventTypes)
<1>1. h \in Hashes /\ IdOf(h) \in Ids /\ pc[IdOf(h)] = "sent" /\ h = <<IdOf(h), h[2]>> /\ h[2] \in 1 .. MaxAttempts
  BY HashParts, ViewTypes
<1>2. h[2] = attempts[IdOf(h)]
  BY DEF ViewInv, LatestInv, Latest
<1>3. sender[IdOf(h)] \in Accounts
  BY <1>1 DEF ViewInv, LifecycleInv, HandlerTypes, HasSender
<1>4. /\ StoryOf(events[IdOf(h)]) /\ NoError(events[IdOf(h)])
      /\ events[IdOf(h)] \in Seq(EventTypes)
  BY <1>1 DEF ViewInv, StoryInv
<1> QED BY <1>1, <1>2, <1>3, <1>4 DEF Exists

\* A node accepts an attempt of an id only while no attempt of it is mined.
LEMMA AcceptedUnmined ==
  ASSUME LifecycleInv, NEW t \in Ids, Accepts(t, nonce[<<t, 1>>])
  PROVE  ~Mined(t)
<1> SUFFICES ASSUME NEW n \in 1 .. MaxAttempts, InLedger(<<t, n>>) PROVE FALSE
  BY DEF Mined
<1>1. <<t, n>> \in Hashes /\ IdOf(<<t, n>>) = t
  BY DEF Hashes, IdOf
<1>2. nonce[<<t, 1>>] \in Nat /\ nonce[<<t, 1>>] < Len(ledger[sender[t]])
  BY <1>1, MinedPlace
<1>3. nonce[<<t, 1>>] = Len(ledger[sender[t]])
  BY DEF Accepts, MinedCount
<1> QED BY <1>2, <1>3

LEMMA SettledMined == \A t : Settled(t) => Mined(t)
BY DEF Settled, Mined

\* Nothing changes what was settled but a hash that is followed again.
LEMMA SettledKept ==
  ASSUME UNCHANGED ledger, NEW t, Settled(t),
         \A n : <<t, n>> \in accepted' \cup announced' \cup waiters' =>
                  <<t, n>> \in accepted \cup announced \cup waiters
  PROVE  Settled(t)'
BY DEF Settled, InLedger

LEMMA ViewUnchanged ==
  ASSUME UNCHANGED <<events, ledger>>
  PROVE  UNCHANGED View!viewVars
BY DEF View!viewVars, Told, HashesTold, Reported, InLedger

-----------------------------------------------------------------------------
\* A step that tells the client nothing and only forgets hashes, or moves them on their
\* way through the retry queue.
LEMMA QuietStep ==
  ASSUME ViewInv, UNCHANGED <<attempts, ledger, events>>,
         accepted' \subseteq accepted, announced' \subseteq announced,
         retryQueue' \cup retrying' \subseteq retryQueue \cup retrying,
         waiters' \subseteq waiters,
         \A t \in Ids : /\ Broadcasted(t) => pc'[t] = pc[t]
                        /\ pc'[t] = "sent" => pc[t] = "sent"
  PROVE  ViewParts'
<1>0. \A h \in Followed \cup waiters : IdOf(h) \in Ids
  BY ViewTypes
<1>1. Followed' \subseteq Followed
  BY DEF Followed
<1>2. LatestInv'
  BY <1>1 DEF ViewInv, LatestInv, Latest
<1>3. WaitersInv'
  BY <1>0 DEF ViewInv, WaitersInv, Broadcasted, Exists
<1>5. \A t \in Ids : Settled(t) => Settled(t)'
  BY SettledKept
<1>6. \A t \in Ids : ~Broadcasted(t)' => ~Broadcasted(t)
  BY DEF Broadcasted
<1>7. StoryInv'
  BY <1>5, <1>6 DEF ViewInv, StoryInv
<1> QED BY <1>2, <1>3, <1>7 DEF ViewParts

\* A failed send is the only event of its id.
LEMMA TellErrorStep ==
  ASSUME ViewInv, NEW t \in Ids, pc[t] = "numbered",
         events' = [events EXCEPT ![t] = Append(@, "error")],
         pc' = [pc EXCEPT ![t] = "failed"],
         UNCHANGED <<accepted, announced, retryQueue, retrying, waiters, ledger>>,
         \A u \in Ids : u # t => attempts'[u] = attempts[u]
  PROVE  ViewParts' /\ View!TellError(t)
<1>1. events[t] = <<>> /\ events'[t] = <<"error">> /\ \A u \in Ids : u # t => events'[u] = events[u]
  <2>1. ~Broadcasted(t)
    BY DEF Broadcasted
  <2>2. events[t] = <<>>
    BY <2>1 DEF ViewInv, StoryInv
  <2>3. Append(<<>>, "error") = <<"error">>
    OBVIOUS
  <2> QED BY <2>2, <2>3, ViewTypes
<1>2. \A h \in Followed \cup waiters : IdOf(h) \in Ids /\ IdOf(h) # t
  BY ViewTypes
<1>3. StoryOf(<<"error">>) /\ ~MinedIn(<<"error">>) /\ ToldBy(<<"error">>) = "error" /\ HashesBy(<<"error">>) = 0
  BY DEF StoryOf, MinedIn, ToldBy, HashesBy
<1>4. LatestInv'
  BY <1>2 DEF ViewInv, LatestInv, Latest, Followed
<1>5. WaitersInv'
  BY <1>2, ViewTypes DEF ViewInv, WaitersInv, Exists
<1>7. \A u \in Ids : Settled(u) => Settled(u)'
  BY SettledKept
<1>8. StoryInv'
  <2>1. events' \in [Ids -> Seq(EventTypes)]
    BY ViewTypes DEF EventTypes
  <2>2. \A u \in Ids : u # t => (pc'[u] = pc[u] /\ events'[u] = events[u])
    BY <1>1, ViewTypes
  <2>3. pc'[t] = "failed"
    BY ViewTypes
  <2>4. \A u \in Ids : ~Broadcasted(u)' => events'[u] = <<>>
    BY <2>2, <2>3 DEF ViewInv, StoryInv, Broadcasted
  <2>5. \A u \in Ids : StoryOf(events'[u]) /\ (pc'[u] = "sent" => NoError(events'[u]))
    BY <1>1, <1>3, <2>2, <2>3 DEF ViewInv, StoryInv
  <2>6. \A h \in Followed \cup waiters : events'[IdOf(h)] = events[IdOf(h)]
    BY <1>1, <1>2
  <2>7. /\ \A h \in accepted' : /\ HashesBy(events'[IdOf(h)]) = h[2] - 1
                                /\ NotLate(events'[IdOf(h)])
        /\ \A h \in announced' \cup retryQueue' \cup retrying' : HashesBy(events'[IdOf(h)]) = h[2]
        /\ \A h \in waiters' : h[2] <= HashesBy(events'[IdOf(h)])
    BY <2>6 DEF ViewInv, StoryInv, Followed
  <2>8. \A u \in Ids : MinedIn(events'[u]) => Settled(u)'
    BY <1>1, <1>3, <1>7 DEF ViewInv, StoryInv
  <2> QED BY <2>1, <2>4, <2>5, <2>7, <2>8 DEF ViewInv, StoryInv
<1>9. View!TellError(t)
  <2>1. Told(t) = "nothing" /\ Told(t)' = "error" /\ HashesTold(t) = 0 /\ HashesTold(t)' = 0
    BY <1>1, <1>3, EmptyStory, ToldOfEvents
  <2>2. \A u \in Ids : u # t => Told(u)' = Told(u) /\ HashesTold(u)' = HashesTold(u)
    BY <1>1, ToldOfEvents
  <2> QED BY <2>1, <2>2 DEF View!TellError, View!Tell, InLedger
<1> QED BY <1>4, <1>5, <1>8, <1>9 DEF ViewParts

-----------------------------------------------------------------------------
\* A hash is announced while it is the only one of its id that can be: it is the next,
\* or, when an older attempt was reported meanwhile, the last.
LEMMA AnnounceStep ==
  ASSUME ViewInv, NEW h \in Hashes, Announce(h)
  PROVE  ViewParts' /\ (View!TellHash(IdOf(h)) \/ View!TellLateHash(IdOf(h)))
<1>t. PICK t : t = IdOf(h)
  OBVIOUS
<1>s. PICK s : s = events[t]
  OBVIOUS
<1>e. PICK e : e = IF s = <<>> THEN "generated" ELSE "changed"
  OBVIOUS
<1>r. PICK r : r = Append(s, e)
  OBVIOUS
<1>0. /\ h \in accepted /\ accepted' = accepted \ {h} /\ announced' = announced \cup {h}
      /\ events' = [events EXCEPT ![t] = Append(@, IF First(h) THEN "generated" ELSE "changed")]
      /\ UNCHANGED <<handlerVars, chainVars, retryVars, waiters>>
  BY <1>t DEF Announce, ToAnnounce, Publish
<1>1. /\ t \in Ids /\ pc[t] = "sent" /\ h = <<t, attempts[t]>> /\ attempts[t] \in 1 .. MaxAttempts
      /\ s \in Seq(EventTypes) /\ StoryOf(s) /\ NoError(s)
  BY <1>0, <1>t, <1>s, FollowedHash, ViewTypes DEF Followed
<1>2. HashesBy(s) = h[2] - 1 /\ NotLate(s) /\ h[2] = attempts[t]
  <2>1. HashesBy(s) = h[2] - 1 /\ NotLate(s)
    BY <1>0, <1>t, <1>s DEF ViewInv, StoryInv
  <2>2. h[2] = attempts[t]
    BY <1>1
  <2> QED BY <2>1, <2>2
<1>n. h[2] \in Nat /\ HashesBy(s) \in Nat /\ HashesBy(r) = h[2]
  <2>1. h[2] \in Nat
    BY <1>1, <1>2
  <2>2. HashesBy(s) = h[2] - 1 /\ HashesBy(s) \in Nat
    BY <1>1, <1>2, StoryParts
  <2>3. HashesBy(r) = HashesBy(s) + 1
    BY <1>1, <1>2, <1>e, <1>r, HashAdded
  <2> QED BY <2>1, <2>2, <2>3
<1>3. First(h) <=> s = <<>>
  <2>1. HashesBy(s) = 0 <=> s = <<>>
    BY <1>1, StoryParts
  <2> QED BY <1>1, <1>2, <2>1 DEF First
<1>4. events'[t] = r /\ \A u \in Ids : u # t => events'[u] = events[u]
  BY <1>0, <1>1, <1>3, <1>s, <1>e, <1>r, ViewTypes
<1>5. /\ r \in Seq(EventTypes) /\ StoryOf(r) /\ NoError(r) /\ (MinedIn(r) <=> MinedIn(s))
      /\ HashesBy(r) = HashesBy(s) + 1
      /\ ToldBy(s) \in {"nothing", "hash", "mined"}
      /\ ToldBy(r) = IF ToldBy(s) = "mined" THEN "late hash" ELSE "hash"
  BY <1>1, <1>2, <1>e, <1>r, HashAdded
<1>6. \A k \in Followed : IdOf(k) = t => k = h /\ k \notin announced \cup retryQueue \cup retrying
  <2>1. <<"accepted", h>> \in Links
    BY <1>0 DEF Links
  <2> QED BY <1>t, <2>1, OnlyLink DEF ViewInv, Followed
<1>7. LatestInv' /\ WaitersInv'
  <2>1. Followed' \subseteq Followed /\ UNCHANGED <<pc, attempts, waiters>>
    BY <1>0 DEF Followed, handlerVars, chainVars, retryVars
  <2> QED BY <2>1 DEF ViewInv, LatestInv, Latest, WaitersInv, Exists
<1>8. \A u \in Ids : Settled(u) => Settled(u)'
  <2>1. accepted' \cup announced' \cup waiters' = accepted \cup announced \cup waiters
    BY <1>0
  <2> QED BY <1>0, <2>1 DEF Settled, InLedger, chainVars
<1>9. StoryInv'
  <2>1. \A u \in Ids : events'[u] \in Seq(EventTypes) /\ StoryOf(events'[u])
    BY <1>4, <1>5 DEF ViewInv, StoryInv
  <2>2. events' \in [Ids -> Seq(EventTypes)]
    BY <1>0, <2>1, ViewTypes
  <2>3. /\ \A u \in Ids : ~Broadcasted(u)' => events'[u] = <<>>
        /\ \A u \in Ids : pc'[u] = "sent" => NoError(events'[u])
    BY <1>0, <1>1, <1>4, <1>5 DEF ViewInv, StoryInv, Broadcasted, handlerVars
  <2>4. \A k \in accepted' : HashesBy(events'[IdOf(k)]) = k[2] - 1 /\ NotLate(events'[IdOf(k)])
    BY <1>0, <1>4, <1>6, ViewTypes DEF ViewInv, StoryInv, Followed
  <2>6. \A k \in announced' \cup retryQueue' \cup retrying' : HashesBy(events'[IdOf(k)]) = k[2]
    <3> SUFFICES ASSUME NEW k \in announced' \cup retryQueue' \cup retrying'
                 PROVE  HashesBy(events'[IdOf(k)]) = k[2]
      OBVIOUS
    <3>1. CASE k = h
      BY <1>4, <1>n, <1>t, <3>1
    <3>2. CASE k # h
      <4>1. k \in announced \cup retryQueue \cup retrying
        BY <1>0, <3>2 DEF retryVars
      <4>2. IdOf(k) \in Ids /\ IdOf(k) # t
        BY <1>6, <3>2, <4>1, ViewTypes DEF Followed
      <4> QED BY <1>4, <4>1, <4>2 DEF ViewInv, StoryInv
    <3> QED BY <3>1, <3>2
  <2>7. \A k \in waiters' : k[2] <= HashesBy(events'[IdOf(k)])
    <3> SUFFICES ASSUME NEW k \in waiters PROVE k[2] <= HashesBy(events'[IdOf(k)])
      BY <1>0
    <3>1. k[2] <= HashesBy(events[IdOf(k)]) /\ k \in Hashes /\ IdOf(k) \in Ids
      BY ViewTypes DEF ViewInv, StoryInv
    <3>2. CASE IdOf(k) = t
      <4>1. k[2] \in 1 .. MaxAttempts /\ k[2] <= HashesBy(s)
        BY <1>s, <3>1, <3>2, HashParts
      <4>2. HashesBy(s) \in Nat /\ HashesBy(r) = HashesBy(s) + 1
        BY <1>5, <1>n
      <4>3. k[2] <= HashesBy(r)
        BY <4>1, <4>2
      <4> QED BY <1>4, <3>2, <4>3
    <3>3. CASE IdOf(k) # t
      BY <1>4, <3>1, <3>3
    <3> QED BY <3>2, <3>3
  <2>8. waiters' \cap (accepted' \cup announced') = {}
    BY <1>0 DEF ViewInv, StoryInv
  <2>9. \A u \in Ids : MinedIn(events'[u]) => Settled(u)'
    BY <1>4, <1>5, <1>8, <1>s DEF ViewInv, StoryInv
  <2> QED BY <2>1, <2>2, <2>3, <2>4, <2>6, <2>7, <2>8, <2>9 DEF StoryInv
<1>10. View!TellHash(t) \/ View!TellLateHash(t)
  <2>1. \A k : InLedger(k)' = InLedger(k)
    BY <1>0 DEF InLedger, chainVars
  <2>2. /\ Told(t) = ToldBy(s) /\ Told(t)' = ToldBy(r)
        /\ HashesTold(t) = HashesBy(s) /\ HashesTold(t)' = HashesBy(s) + 1
        /\ \A u \in Ids : u # t => Told(u)' = Told(u) /\ HashesTold(u)' = HashesTold(u)
    BY <1>4, <1>5, <1>s, ToldOfEvents
  <2>3. CASE ToldBy(s) = "mined"
    BY <1>1, <1>5, <2>1, <2>2, <2>3 DEF View!TellLateHash, View!Tell, View!AnotherHash
  <2>4. CASE ToldBy(s) # "mined"
    BY <1>1, <1>5, <2>1, <2>2, <2>4 DEF View!TellHash, View!Tell, View!AnotherHash
  <2> QED BY <2>3, <2>4
<1> QED BY <1>t, <1>7, <1>9, <1>10 DEF ViewParts

\* A waiter follows a hash that was announced.
LEMMA TrackStep ==
  ASSUME ViewInv, NEW h \in Hashes, Track(h)
  PROVE  ViewParts'
<1>t. PICK t : t = IdOf(h)
  OBVIOUS
<1>1. /\ h \in announced /\ announced' = announced \ {h}
      /\ retryQueue' = retryQueue \cup {h} /\ waiters' = waiters \cup {h}
      /\ UNCHANGED <<handlerVars, chainVars, retrying, accepted, events>>
  BY DEF Track, ToTrack, Awaiting
<1>2. t \in Ids /\ pc[t] = "sent" /\ Exists(h) /\ HashesBy(events[t]) = h[2] /\ h[2] \in Nat
  BY <1>1, <1>t, FollowedHash, HashParts, ViewTypes DEF Followed, ViewInv, StoryInv
<1>3. h \notin accepted
  <2>1. <<"announced", h>> \in Links
    BY <1>1 DEF Links
  <2> QED BY <2>1, OnlyLink DEF ViewInv
<1>4. LatestInv'
  BY <1>1 DEF ViewInv, LatestInv, Latest, Followed, chainVars
<1>5. WaitersInv'
  BY <1>1, <1>2, <1>t DEF ViewInv, WaitersInv, handlerVars, chainVars, Exists
<1>6. \A u \in Ids : Settled(u) => Settled(u)'
  <2>1. accepted' \cup announced' \cup waiters' = accepted \cup announced \cup waiters
    BY <1>1
  <2> QED BY <1>1, <2>1 DEF Settled, InLedger, chainVars
<1>7. StoryInv'
  <2>1. h[2] <= HashesBy(events[IdOf(h)])
    BY <1>2, <1>t
  <2> QED BY <1>1, <1>2, <1>3, <1>6, <1>t, <2>1 DEF ViewInv, StoryInv, Broadcasted, handlerVars
<1> QED BY <1>4, <1>5, <1>7 DEF ViewParts

\* A receipt is that of an attempt whose hash was announced, and the only one of its id.
LEMMA ReceiptStep ==
  ASSUME ViewInv, NEW h \in Hashes, ReceiptArrives(h)
  PROVE  ViewParts' /\ View!TellMined(IdOf(h))
<1>t. PICK t : t = IdOf(h)
  OBVIOUS
<1>s. PICK s : s = events[t]
  OBVIOUS
<1>r. PICK r : r = Append(s, "mined")
  OBVIOUS
<1>1. /\ h \in waiters /\ waiters' = waiters \ {h} /\ InLedger(h)
      /\ events' = [events EXCEPT ![t] = Append(@, "mined")]
      /\ UNCHANGED <<pc, chainVars, retryQueue, retrying, accepted, announced>>
  BY <1>t DEF ReceiptArrives, StopWaiting, Publish
<1>2. /\ t \in Ids /\ pc[t] = "sent" /\ h = <<t, h[2]>> /\ h[2] \in 1 .. MaxAttempts
      /\ s \in Seq(EventTypes) /\ StoryOf(s) /\ NoError(s)
  BY <1>1, <1>t, <1>s, HashParts, ViewTypes DEF ViewInv, StoryInv
<1>3. \A n \in 1 .. MaxAttempts : InLedger(<<t, n>>) => <<t, n>> = h
  <2>1. ExecutedOnce
    BY MinedOnce DEF ViewInv
  <2> QED BY <1>1, <1>2, <2>1 DEF ExecutedOnce
<1>4. ~MinedIn(s)
  BY <1>1, <1>2, <1>3, <1>s DEF ViewInv, StoryInv, Settled
<1>5. h[2] <= HashesBy(s)
  BY <1>1, <1>t, <1>s DEF ViewInv, StoryInv
<1>6. s # <<>>
  <2>1. HashesBy(s) \in Nat /\ (HashesBy(s) = 0 <=> s = <<>>)
    BY <1>2, StoryParts
  <2> QED BY <1>2, <1>5, <2>1
<1>7. /\ r \in Seq(EventTypes) /\ StoryOf(r) /\ NoError(r) /\ MinedIn(r)
      /\ HashesBy(r) = HashesBy(s)
      /\ ToldBy(s) = "hash" /\ ToldBy(r) = "mined"
  BY <1>2, <1>4, <1>6, <1>r, MinedAdded
<1>8. events'[t] = r /\ \A u \in Ids : u # t => events'[u] = events[u]
  BY <1>1, <1>2, <1>s, <1>r, ViewTypes
<1>9. LatestInv' /\ WaitersInv'
  BY <1>1 DEF ViewInv, LatestInv, Latest, Followed, WaitersInv, Exists, chainVars
<1>10. Settled(t)' /\ \A u \in Ids : Settled(u) => Settled(u)'
  <2>1. h \notin accepted' \cup announced' \cup waiters'
    BY <1>1 DEF ViewInv, StoryInv
  <2>2. InLedger(<<t, h[2]>>)' /\ h[2] \in 1 .. MaxAttempts /\ <<t, h[2]>> = h
    BY <1>1, <1>2 DEF InLedger, chainVars
  <2>3. Settled(t)'
    BY <2>1, <2>2 DEF Settled
  <2> QED BY <1>1, <2>3, SettledKept DEF chainVars
<1>11. StoryInv'
  <2>1. \A u \in Ids : /\ events'[u] \in Seq(EventTypes) /\ StoryOf(events'[u])
                       /\ HashesBy(events'[u]) = HashesBy(events[u])
    BY <1>7, <1>8, <1>s DEF ViewInv, StoryInv
  <2>2. events' \in [Ids -> Seq(EventTypes)]
    BY <1>1, <2>1, ViewTypes
  <2>3. /\ \A u \in Ids : ~Broadcasted(u)' => events'[u] = <<>>
        /\ \A u \in Ids : pc'[u] = "sent" => NoError(events'[u])
    BY <1>1, <1>2, <1>7, <1>8 DEF ViewInv, StoryInv, Broadcasted
  <2>4. \A k \in accepted' : HashesBy(events'[IdOf(k)]) = k[2] - 1 /\ NotLate(events'[IdOf(k)])
    <3> SUFFICES ASSUME NEW k \in accepted
                 PROVE  HashesBy(events'[IdOf(k)]) = k[2] - 1 /\ NotLate(events'[IdOf(k)])
      BY <1>1
    <3>1. HashesBy(events[IdOf(k)]) = k[2] - 1 /\ NotLate(events[IdOf(k)]) /\ IdOf(k) \in Ids
      BY ViewTypes DEF ViewInv, StoryInv, Followed
    <3> QED BY <1>7, <1>8, <2>1, <3>1 DEF NotLate
  <2>5. /\ \A k \in announced' \cup retryQueue' \cup retrying' : HashesBy(events'[IdOf(k)]) = k[2]
        /\ \A k \in waiters' : k[2] <= HashesBy(events'[IdOf(k)])
    BY <1>1, <2>1, ViewTypes DEF ViewInv, StoryInv, Followed
  <2>6. waiters' \cap (accepted' \cup announced') = {}
    BY <1>1 DEF ViewInv, StoryInv
  <2>7. \A u \in Ids : MinedIn(events'[u]) => Settled(u)'
    BY <1>8, <1>10 DEF ViewInv, StoryInv
  <2> QED BY <2>1, <2>2, <2>3, <2>4, <2>5, <2>6, <2>7 DEF StoryInv
<1>12. View!TellMined(t)
  <2>1. \A k : InLedger(k)' = InLedger(k)
    BY <1>1 DEF InLedger, chainVars
  <2>2. InLedger(<<t, h[2]>>) /\ h[2] \in 1 .. MaxAttempts
    BY <1>1, <1>2
  <2>3. /\ Told(t) = "hash" /\ Told(t)' = "mined"
        /\ \A u \in Ids : u # t => Told(u)' = Told(u)
        /\ \A u \in Ids : HashesTold(u)' = HashesTold(u)
    BY <1>7, <1>8, <1>s, ToldOfEvents
  <2>4. h[2] <= HashesTold(t)
    BY <1>5, <1>s, ToldOfEvents
  <2> QED BY <1>2, <2>1, <2>2, <2>3, <2>4 DEF View!TellMined, View!Tell
<1> QED BY <1>t, <1>9, <1>11, <1>12 DEF ViewParts

\* A block executes an attempt of an id of which none was executed.
LEMMA MineView ==
  ASSUME ViewInv, NEW a \in Accounts, MineNext(a)
  PROVE  ViewParts' /\ \E t \in Ids : \E n \in 1 .. MaxAttempts : View!Execute(t, n)
<1>1. PICK h \in Hashes :
           /\ Attempt(h, a, Len(ledger[a]))
           /\ ledger'[a][Len(ledger[a]) + 1] = h
           /\ Len(ledger'[a]) = Len(ledger[a]) + 1
           /\ ledger'[a] = Append(ledger[a], h)
           /\ \A i \in DOMAIN ledger[a] : i \in DOMAIN ledger'[a] /\ ledger'[a][i] = ledger[a][i]
           /\ \A b \in Accounts : b # a => ledger'[b] = ledger[b]
  BY MineTakes DEF ViewInv
<1>2. UNCHANGED <<handlerVars, attempts, retryVars, listenerVars>>
  BY DEF MineNext
<1>t. PICK t \in Ids : t = IdOf(h)
  BY HashParts
<1>3. h = <<t, h[2]>> /\ h[2] \in 1 .. MaxAttempts
  BY <1>t, HashParts
<1>4. ~Mined(t)
  <2>1. nonce[<<t, 1>>] = Len(ledger[sender[t]])
    BY <1>1, <1>t DEF Attempt, ViewInv, LifecycleInv, NonceInv
  <2> QED BY <2>1, AcceptedUnmined DEF ViewInv, Accepts, MinedCount
<1>5. ledger[a] \in Seq(Hashes) /\ ledger'[a] \in Seq(Hashes)
  BY <1>1, ViewTypes
<1>6. \A k : InLedger(k)' <=> InLedger(k) \/ k = h
  <2>1. ASSUME NEW k, InLedger(k)' PROVE InLedger(k) \/ k = h
    <3>1. PICK b \in Accounts : \E i \in DOMAIN ledger'[b] : ledger'[b][i] = k
      BY <2>1 DEF InLedger
    <3>2. PICK i \in DOMAIN ledger'[b] : ledger'[b][i] = k
      BY <3>1
    <3>3. CASE b = a
      <4>1. i = Len(ledger[a]) + 1 \/ i \in DOMAIN ledger[a]
        BY <1>1, <1>5, <3>2, <3>3
      <4> QED BY <1>1, <3>2, <3>3, <4>1 DEF InLedger
    <3>4. CASE b # a
      BY <1>1, <3>2, <3>4 DEF InLedger
    <3> QED BY <3>3, <3>4
  <2>2. ASSUME NEW k, InLedger(k) PROVE InLedger(k)'
    <3>1. [Next]_vars
      BY DEF Next
    <3> QED BY <2>2, <3>1, MinedStays DEF ViewInv
  <2>3. InLedger(h)'
    <3>1. Len(ledger[a]) + 1 \in DOMAIN ledger'[a]
      BY <1>1, <1>5
    <3> QED BY <1>1, <3>1 DEF InLedger
  <2> QED BY <2>1, <2>2, <2>3
<1>7. LatestInv' /\ WaitersInv'
  BY <1>2 DEF ViewInv, LatestInv, Latest, Followed, WaitersInv, Exists, handlerVars, retryVars, listenerVars
<1>9. \A u \in Ids : Settled(u) => Settled(u)'
  BY <1>2, <1>6 DEF Settled, listenerVars
<1>10. StoryInv'
  BY <1>2, <1>9 DEF ViewInv, StoryInv, Broadcasted, handlerVars, retryVars, listenerVars
<1>11. View!Execute(t, h[2])
  <2>1. \A n \in 1 .. MaxAttempts : ~InLedger(<<t, n>>)
    BY <1>4 DEF Mined
  <2>2. \A n \in 1 .. MaxAttempts : InLedger(<<t, n>>)' <=> n = h[2]
    <3>1. \A n : <<t, n>> = h <=> n = h[2]
      BY <1>3
    <3>2. \A n \in 1 .. MaxAttempts : InLedger(<<t, n>>)' <=> (InLedger(<<t, n>>) \/ <<t, n>> = h)
      BY <1>6
    <3> QED BY <2>1, <3>1, <3>2
  <2>3. \A u \in Ids : u # t => \A n \in 1 .. MaxAttempts : (InLedger(<<u, n>>)' <=> InLedger(<<u, n>>))
    BY <1>3, <1>6
  <2>4. \A u \in Ids : Told(u)' = Told(u) /\ HashesTold(u)' = HashesTold(u)
    BY <1>2, ToldOfEvents DEF listenerVars
  <2>5. {n \in 1 .. MaxAttempts : InLedger(<<t, n>>)} = {}
    BY <2>1
  <2>6. {n \in 1 .. MaxAttempts : InLedger(<<t, n>>)'} = {h[2]}
    BY <1>3, <2>2
  <2>7. \A u \in Ids : u # t =>
          {n \in 1 .. MaxAttempts : InLedger(<<u, n>>)'} = {n \in 1 .. MaxAttempts : InLedger(<<u, n>>)}
    BY <2>3
  <2>8. [u \in Ids |-> {n \in 1 .. MaxAttempts : InLedger(<<u, n>>)'}]
          = [[u \in Ids |-> {n \in 1 .. MaxAttempts : InLedger(<<u, n>>)}] EXCEPT ![t] = {h[2]}]
    <3> DEFINE before(u) == {n \in 1 .. MaxAttempts : InLedger(<<u, n>>)}
               after(u) == {n \in 1 .. MaxAttempts : InLedger(<<u, n>>)'}
    <3>1. after(t) = {h[2]} /\ \A u \in Ids : u # t => after(u) = before(u)
      BY <2>6, <2>7
    <3> HIDE DEF before, after
    <3>2. [u \in Ids |-> after(u)] = [[u \in Ids |-> before(u)] EXCEPT ![t] = {h[2]}]
      BY <3>1
    <3> QED BY <3>2 DEF before, after
  <2>9. /\ [u \in Ids |-> Told(u)]' = [u \in Ids |-> Told(u)]
        /\ [u \in Ids |-> HashesTold(u)]' = [u \in Ids |-> HashesTold(u)]
    BY <2>4, Zenon
  <2> QED BY <2>5, <2>8, <2>9, Zenon DEF View!Execute
<1> QED BY <1>3, <1>7, <1>10, <1>11 DEF ViewParts

\* A broadcast the client is not told of: the new attempt is all that is left to follow
\* of its id, if the answer arrives.
LEMMA BroadcastStep ==
  ASSUME ViewInv, NEW t \in Ids, ~Mined(t), attempts[t] < MaxAttempts,
         attempts'[t] = attempts[t] + 1, \A u \in Ids : u # t => attempts'[u] = attempts[u],
         UNCHANGED <<ledger, events, waiters>>,
         NEW k, k = <<t, attempts[t] + 1>>,
         accepted' \subseteq accepted \cup {k},
         announced' \subseteq announced, retryQueue' \subseteq retryQueue,
         retrying' \subseteq retrying,
         \A h \in Followed' : IdOf(h) = t => h = k,
         HashesBy(events[t]) = attempts[t], NoError(events[t]),
         \A u \in Ids : Broadcasted(u) => pc'[u] = pc[u],
         \A u \in Ids : pc'[u] = "sent" => pc[u] = "sent" \/ u = t
  PROVE  ViewParts'
<1>1. /\ attempts[t] \in Nat /\ k \in Hashes /\ IdOf(k) = t /\ k[2] = attempts[t] + 1 /\ ~Exists(k)
      /\ \A h \in Followed \cup waiters : h \in Hashes /\ IdOf(h) \in Ids
  BY ViewTypes, LifecycleAssumption DEF Hashes, IdOf, Exists
<1>2. Followed' \subseteq Followed \cup {k}
  BY DEF Followed
<1>3. LatestInv'
  <2> SUFFICES ASSUME NEW h \in Followed' PROVE h[2] = attempts'[IdOf(h)]
    BY DEF LatestInv, Latest
  <2>1. CASE h = k
    BY <1>1, <2>1
  <2>2. CASE h # k
    BY <1>1, <1>2, <2>2 DEF ViewInv, LatestInv, Latest
  <2> QED BY <2>1, <2>2
<1>4. WaitersInv'
  <2> SUFFICES ASSUME NEW h \in waiters
               PROVE  h \in Hashes /\ pc'[IdOf(h)] = "sent" /\ Exists(h)'
    BY DEF WaitersInv
  <2>1. h \in Hashes /\ IdOf(h) \in Ids /\ pc[IdOf(h)] = "sent" /\ Exists(h)
    BY <1>1 DEF ViewInv, WaitersInv
  <2>2. h[2] \in 1 .. MaxAttempts
    BY <2>1, HashParts
  <2> QED BY <1>1, <2>1, <2>2 DEF Broadcasted, Exists
<1>5. k \notin waiters
  BY <1>1 DEF ViewInv, WaitersInv
<1>6. \A u \in Ids : Settled(u) => Settled(u)'
  <2> SUFFICES ASSUME NEW u \in Ids, Settled(u) PROVE Settled(u)'
    OBVIOUS
  <2>1. u # t
    BY SettledMined
  <2>2. \A n : <<u, n>> # k
    BY <2>1
  <2> QED BY <2>2, SettledKept
<1>7. ~MinedIn(events[t])
  BY SettledMined DEF ViewInv, StoryInv
<1>8. NotLate(events[t])
  <2>1. events[t] \in Seq(EventTypes) /\ StoryOf(events[t])
    BY DEF ViewInv, StoryInv
  <2>2. ToldBy(events[t]) = IF events[t] = <<>> THEN "nothing" ELSE "hash"
    BY <1>7, <2>1, StoryParts
  <2> QED BY <2>2 DEF NotLate
<1>9. StoryInv'
  <2>1. /\ \A u \in Ids : ~Broadcasted(u)' => events'[u] = <<>>
        /\ \A u \in Ids : pc'[u] = "sent" => NoError(events'[u])
    BY DEF ViewInv, StoryInv, Broadcasted
  <2>2. HashesBy(events[IdOf(k)]) = k[2] - 1 /\ NotLate(events[IdOf(k)])
    BY <1>1, <1>8
  <2>3. \A h \in accepted' : HashesBy(events'[IdOf(h)]) = h[2] - 1 /\ NotLate(events'[IdOf(h)])
    BY <2>2 DEF ViewInv, StoryInv
  <2>4. /\ \A h \in announced' \cup retryQueue' \cup retrying' : HashesBy(events'[IdOf(h)]) = h[2]
        /\ \A h \in waiters' : h[2] <= HashesBy(events'[IdOf(h)])
    BY DEF ViewInv, StoryInv
  <2>5. waiters' \cap (accepted' \cup announced') = {}
    BY <1>5 DEF ViewInv, StoryInv
  <2>6. \A u \in Ids : MinedIn(events'[u]) => Settled(u)'
    BY <1>6 DEF ViewInv, StoryInv
  <2> QED BY <2>1, <2>3, <2>4, <2>5, <2>6 DEF ViewInv, StoryInv
<1> QED BY <1>3, <1>4, <1>9 DEF ViewParts

\* A first attempt is the first of an id that is not mined.
LEMMA FirstAttempt ==
  ASSUME ViewInv, NEW t \in Ids, SendAccepted(t) \/ SendAnswerLost(t)
  PROVE  /\ pc[t] = "numbered" /\ attempts[t] = 0 /\ sender[t] \in Accounts /\ events[t] = <<>> /\ ~Mined(t)
         /\ attempts[t] < MaxAttempts /\ attempts'[t] = attempts[t] + 1
         /\ \A u \in Ids : u # t => attempts'[u] = attempts[u]
         /\ \A u \in Ids : nonce'[<<u, 1>>] = nonce[<<u, 1>>]
         /\ \E p \in Prices : price' = [price EXCEPT ![<<t, 1>>] = p]
         /\ UNCHANGED <<sender, ledger>>
<1>1. PICK p \in Prices : Broadcast(t, nonce[<<t, 1>>], p)
  BY DEF SendAccepted, SendAnswerLost, FirstBroadcast
<1>2. /\ pc[t] = "numbered" /\ Accepts(t, nonce[<<t, 1>>]) /\ UNCHANGED <<sender, ledger>>
      /\ (pc' = [pc EXCEPT ![t] = "sent"] \/ pc' = [pc EXCEPT ![t] = "failed"])
  BY <1>1 DEF SendAccepted, SendAnswerLost, FirstBroadcast, TellError, Broadcast
<1>3. ~Broadcasted(t) /\ sender[t] \in Accounts /\ events[t] = <<>>
  BY <1>2 DEF ViewInv, LifecycleInv, HandlerTypes, HasSender, Broadcasted, StoryInv
<1>4. attempts[t] = 0 /\ attempts[t] < MaxAttempts
  <2>1. attempts[t] \in 0 .. MaxAttempts /\ ~(attempts[t] > 0)
    BY <1>3 DEF ViewInv, LifecycleInv, ChainTypes
  <2> QED BY <2>1, LifecycleAssumption
<1>5. Broadcasted(t)' /\ \A u \in Ids : Broadcasted(u) => Broadcasted(u)'
  BY <1>2, ViewTypes DEF Broadcasted
<1>6. /\ attempts'[t] = attempts[t] + 1 /\ \A u \in Ids : u # t => attempts'[u] = attempts[u]
      /\ \A u \in Ids : nonce'[<<u, 1>>] = nonce[<<u, 1>>]
  BY <1>1, <1>2, <1>4, <1>5, Broadcasts DEF ViewInv
<1>7. <<t, attempts[t] + 1>> = <<t, 1>>
  BY <1>4
<1>8. price' = [price EXCEPT ![<<t, 1>>] = p]
  BY <1>1, <1>7 DEF Broadcast
<1>9. ~Mined(t)
  BY <1>2, AcceptedUnmined DEF ViewInv
<1> QED BY <1>1, <1>2, <1>3, <1>4, <1>6, <1>8, <1>9

\* A resubmission makes the next attempt of an id that is not mined, in the place of the
\* only one that was followed.
LEMMA NextAttempt ==
  ASSUME ViewInv, NEW h \in Hashes, RetryBroadcast(h)
  PROVE  /\ IdOf(h) \in Ids /\ pc[IdOf(h)] = "sent" /\ h = <<IdOf(h), attempts[IdOf(h)]>>
         /\ ~Mined(IdOf(h))
         /\ attempts[IdOf(h)] \in 1 .. MaxAttempts /\ attempts[IdOf(h)] < MaxAttempts
         /\ attempts'[IdOf(h)] = attempts[IdOf(h)] + 1
         /\ \A u \in Ids : u # IdOf(h) => attempts'[u] = attempts[u]
         /\ \A u \in Ids : nonce'[<<u, 1>>] = nonce[<<u, 1>>]
         /\ price' = [price EXCEPT ![<<IdOf(h), attempts[IdOf(h)] + 1>>] = price[h] + 1]
         /\ UNCHANGED <<pc, sender, ledger, events, waiters, announced, retryQueue>>
         /\ h \in retrying /\ retrying' = retrying \ {h}
         /\ \A k \in Followed : IdOf(k) = IdOf(h) => k = h /\ k \notin accepted \cup announced \cup retryQueue
<1>1. /\ h \in retrying /\ retrying' = retrying \ {h} /\ attempts[IdOf(h)] < MaxAttempts
      /\ UNCHANGED <<pc, sender, ledger, events, waiters, announced, retryQueue>>
      /\ price' = [price EXCEPT ![<<IdOf(h), attempts[IdOf(h)] + 1>>] = price[h] + 1]
  BY DEF RetryBroadcast, Broadcast, handlerVars, BumpedUp
<1>2. /\ IdOf(h) \in Ids /\ h = <<IdOf(h), attempts[IdOf(h)]>> /\ pc[IdOf(h)] = "sent"
      /\ attempts[IdOf(h)] \in 1 .. MaxAttempts
  BY <1>1, FollowedHash, ViewTypes DEF Followed
<1>3. \A k \in Followed : IdOf(k) = IdOf(h) => k = h /\ k \notin accepted \cup announced \cup retryQueue
  <2>1. <<"retrying", h>> \in Links
    BY <1>1 DEF Links
  <2> QED BY <2>1, OnlyLink DEF ViewInv, Followed
<1>4. ~Mined(IdOf(h))
  <2>1. nonce[<<IdOf(h), 1>>] = MinedCount(IdOf(h))
    BY RetryBroadcasts DEF ViewInv
  <2> QED BY <1>2, <2>1, AcceptedUnmined DEF ViewInv, Accepts
<1>5. /\ attempts'[IdOf(h)] = attempts[IdOf(h)] + 1
      /\ \A u \in Ids : u # IdOf(h) => attempts'[u] = attempts[u]
      /\ \A u \in Ids : nonce'[<<u, 1>>] = nonce[<<u, 1>>]
  BY RetryBroadcasts DEF ViewInv
<1> QED BY <1>1, <1>2, <1>3, <1>4, <1>5

-----------------------------------------------------------------------------
\* The handler of an id tells its client of an error or nothing.
LEMMA SendView ==
  ASSUME ViewInv, NEW t \in Ids, Send(t) \/ SendAnswerLost(t)
  PROVE  ViewParts' /\ (View!TellError(t) \/ UNCHANGED View!viewVars)
<1> USE DEF chainVars, retryVars, listenerVars
<1>1. CASE TakeRelayer(t) \/ CreateTransaction(t)
  <2>1. UNCHANGED <<attempts, ledger, accepted, announced, retryQueue, retrying, waiters, events>>
    BY <1>1 DEF TakeRelayer, CreateTransaction
  <2>2. \A u \in Ids : /\ Broadcasted(u) => pc'[u] = pc[u]
                       /\ pc'[u] = "sent" => pc[u] = "sent"
    BY <1>1, ViewTypes DEF TakeRelayer, CreateTransaction, Broadcasted
  <2> QED BY <2>1, <2>2, QuietStep, ViewUnchanged
<1>2. CASE SendRejected(t)
  <2>1. /\ pc[t] = "numbered" /\ pc' = [pc EXCEPT ![t] = "failed"]
        /\ events' = [events EXCEPT ![t] = Append(@, "error")] \/ UNCHANGED events
        /\ UNCHANGED <<accepted, announced, retryQueue, retrying, waiters, chainVars>>
    BY <1>2 DEF SendRejected, TellError, Publish
  <2>2. CASE events' = [events EXCEPT ![t] = Append(@, "error")]
    BY <2>1, <2>2, TellErrorStep
  <2>3. CASE UNCHANGED events
    <3>1. \A u \in Ids : /\ Broadcasted(u) => pc'[u] = pc[u]
                         /\ pc'[u] = "sent" => pc[u] = "sent"
      BY <2>1, ViewTypes DEF Broadcasted
    <3> QED BY <2>1, <2>3, <3>1, QuietStep, ViewUnchanged
  <2> QED BY <2>1, <2>2, <2>3
<1>3. CASE SendAccepted(t) \/ SendAnswerLost(t)
  <2>a. PICK k : k = <<t, attempts[t] + 1>>
    OBVIOUS
  <2>1. /\ pc[t] = "numbered" /\ attempts[t] = 0 /\ events[t] = <<>> /\ ~Mined(t)
        /\ attempts[t] < MaxAttempts /\ attempts'[t] = attempts[t] + 1
        /\ \A u \in Ids : u # t => attempts'[u] = attempts[u]
        /\ UNCHANGED ledger
    BY <1>3, FirstAttempt
  <2>2. k = <<t, 1>>
    BY <2>a, <2>1
  <2>3. /\ \/ pc' = [pc EXCEPT ![t] = "sent"] /\ accepted' = accepted \cup {k} /\ UNCHANGED events
           \/ pc' = [pc EXCEPT ![t] = "failed"] /\ UNCHANGED <<accepted, events>>
           \/ /\ pc' = [pc EXCEPT ![t] = "failed"] /\ UNCHANGED accepted
              /\ events' = [events EXCEPT ![t] = Append(@, "error")]
        /\ UNCHANGED <<announced, retryQueue, retrying, waiters>>
    BY <1>3, <2>2 DEF SendAccepted, SendAnswerLost, TellError, Publish
  <2>4. CASE events' = [events EXCEPT ![t] = Append(@, "error")] /\ ~UNCHANGED events
    BY <2>1, <2>3, <2>4, TellErrorStep
  <2>5. CASE UNCHANGED events
    <3>1. accepted' \subseteq accepted \cup {k}
      BY <2>3, <2>5
    <3>2. \A h \in Followed : IdOf(h) # t
      BY <2>1, ViewTypes
    <3>3. \A h \in Followed' : IdOf(h) = t => h = k
      BY <2>3, <3>1, <3>2 DEF Followed
    <3>4. /\ \A u \in Ids : Broadcasted(u) => pc'[u] = pc[u]
          /\ \A u \in Ids : pc'[u] = "sent" => pc[u] = "sent" \/ u = t
      BY <2>1, <2>3, ViewTypes DEF Broadcasted
    <3>5. HashesBy(events[t]) = attempts[t] /\ NoError(events[t])
      BY <2>1, EmptyStory
    <3>6. ViewParts'
      BY <2>a, <2>1, <2>3, <2>5, <3>1, <3>3, <3>4, <3>5, BroadcastStep
    <3> QED BY <2>1, <2>5, <3>6, ViewUnchanged
  <2> QED BY <2>3, <2>4, <2>5
<1> QED BY <1>1, <1>2, <1>3 DEF Send

\* The listener tells the client of a hash or of the receipt; retries and failures tell
\* nothing.
LEMMA FollowView ==
  ASSUME ViewInv, NEW h \in Hashes, Listen(h) \/ Retry(h) \/ Fault(h)
  PROVE  /\ ViewParts'
         /\ \/ View!TellHash(IdOf(h)) \/ View!TellMined(IdOf(h)) \/ View!TellLateHash(IdOf(h))
            \/ UNCHANGED View!viewVars
<1> USE DEF handlerVars, chainVars, retryVars, listenerVars
<1>1. CASE Announce(h)
  BY <1>1, AnnounceStep
<1>2. CASE Track(h)
  BY <1>2, TrackStep, ViewUnchanged DEF Track
<1>3. CASE ReceiptArrives(h)
  BY <1>3, ReceiptStep
<1>4. CASE RetryAccepted(h) \/ RetryAnswerLost(h)
  <2>t. PICK t : t = IdOf(h)
    OBVIOUS
  <2>a. PICK k : k = <<t, attempts[t] + 1>>
    OBVIOUS
  <2>0. RetryBroadcast(h)
    BY <1>4 DEF RetryAccepted, RetryAnswerLost
  <2>1. /\ t \in Ids /\ pc[t] = "sent" /\ h = <<t, attempts[t]>> /\ ~Mined(t)
        /\ attempts[t] < MaxAttempts /\ attempts'[t] = attempts[t] + 1
        /\ \A u \in Ids : u # t => attempts'[u] = attempts[u]
        /\ UNCHANGED <<pc, ledger, events, waiters, announced, retryQueue>>
        /\ h \in retrying /\ retrying' = retrying \ {h}
        /\ \A m \in Followed : IdOf(m) = t => m = h /\ m \notin accepted \cup announced \cup retryQueue
    BY <2>t, <2>0, NextAttempt
  <2>2. accepted' \subseteq accepted \cup {k}
    BY <1>4, <2>t, <2>a, <2>1 DEF RetryAccepted, RetryAnswerLost
  <2>3. \A m \in Followed' : IdOf(m) = t => m = k
    BY <2>1, <2>2 DEF Followed
  <2>4. HashesBy(events[t]) = attempts[t] /\ NoError(events[t])
    <3>1. HashesBy(events[t]) = h[2]
      BY <2>t, <2>1 DEF ViewInv, StoryInv
    <3>2. h[2] = attempts[t]
      BY <2>1
    <3> QED BY <2>1, <3>1, <3>2 DEF ViewInv, StoryInv
  <2>5. ViewParts'
    BY <2>a, <2>1, <2>2, <2>3, <2>4, BroadcastStep
  <2> QED BY <2>1, <2>5, ViewUnchanged
<1>5. CASE RetryStarts(h) \/ RetryStops(h) \/ RetryRejected(h) \/ PublishFails(h) \/ WaiterFails(h)
  <2>1. /\ UNCHANGED <<pc, attempts, ledger, events>>
        /\ accepted' \subseteq accepted /\ announced' \subseteq announced
        /\ retryQueue' \cup retrying' \subseteq retryQueue \cup retrying
        /\ waiters' \subseteq waiters
    BY <1>5 DEF RetryStarts, RetryStops, RetryRejected, PublishFails, WaiterFails, StopWaiting, Consumed
  <2> QED BY <2>1, QuietStep, ViewUnchanged
<1> QED BY <1>1, <1>2, <1>3, <1>4, <1>5 DEF Listen, Retry, Fault

LEMMA RestartView ==
  ASSUME ViewInv, Restart
  PROVE  ViewParts' /\ UNCHANGED View!viewVars
<1>1. /\ UNCHANGED <<attempts, ledger, events, retryQueue>>
      /\ accepted' = {} /\ announced' = {} /\ waiters' = {} /\ retrying' = {}
  BY DEF Restart, chainVars
<1>2. \A t \in Ids : /\ Broadcasted(t) => pc'[t] = pc[t]
                     /\ pc'[t] = "sent" => pc[t] = "sent"
  BY ViewTypes DEF Restart, Broadcasted
<1> QED BY <1>1, <1>2, QuietStep, ViewUnchanged

\* The invariant is kept and every step is one of the view, or none.
LEMMA ViewStep == ViewInv /\ [Next]_vars => ViewInv' /\ [View!Next]_View!viewVars
<1> SUFFICES ASSUME ViewInv, [Next]_vars PROVE ViewInv' /\ [View!Next]_View!viewVars
  OBVIOUS
<1>1. LifecycleInv' /\ OneRetryChain'
  BY Invariance, ChainStep DEF ViewInv
<1>2. ASSUME NEW t \in Ids, Send(t) \/ SendAnswerLost(t)
      PROVE  ViewParts' /\ [View!Next]_View!viewVars
  BY <1>2, SendView DEF View!Next
<1>3. ASSUME NEW h \in Hashes, Listen(h) \/ Retry(h) \/ Fault(h)
      PROVE  ViewParts' /\ [View!Next]_View!viewVars
  BY <1>3, FollowView, HashParts DEF View!Next
<1>4. ASSUME NEW a \in Accounts, MineNext(a)
      PROVE  ViewParts' /\ [View!Next]_View!viewVars
  BY <1>4, MineView DEF View!Next
<1>5. CASE UNCHANGED vars
  <2>1. /\ UNCHANGED <<attempts, ledger, events, pc, accepted, announced, retryQueue, retrying, waiters>>
    BY <1>5 DEF vars, handlerVars, chainVars, retryVars, listenerVars
  <2> QED BY <1>1, <2>1, QuietStep, ViewUnchanged DEF ViewInv, ViewParts
<1> QED BY <1>1, <1>2, <1>3, <1>4, <1>5, RestartView DEF Next, ViewInv, ViewParts

LEMMA ViewInvariance == Spec => []ViewInv
<1>1. ViewInv /\ [Next]_vars => ViewInv'
  BY ViewStep
<1> QED BY InitView, <1>1, PTL DEF Spec

\* What a client is told is a consistent story, for any number of transactions and
\* attempts, whatever fails and whichever attempts are mined.
THEOREM StoryConsistent == Spec => []ClientStory
<1>1. ViewInv => ClientStory
  BY StoryOfEvents DEF ViewInv, StoryInv
<1> QED BY <1>1, ViewInvariance, PTL

\* The service, its retries and the network are to every client one transaction that is
\* executed once, by an attempt whose hash it was told, and reported after it was.
THEOREM ClientViewImplemented == Spec => ImplementsClientView
<1>1. Init => View!Init
  <2> SUFFICES ASSUME Init PROVE View!Init
    OBVIOUS
  <2>1. \A t \in Ids : Told(t) = "nothing" /\ HashesTold(t) = 0
    BY EmptyStory, ToldOfEvents DEF Init
  <2> QED BY <2>1 DEF Init, View!Init, InLedger
<1>2. ViewInv /\ [Next]_vars => [View!Next]_View!viewVars
  BY ViewStep
<1> QED BY <1>1, <1>2, ViewInvariance, PTL DEF Spec, ImplementsClientView, View!Spec
-----------------------------------------------------------------------------
(* A retry counts one up on its way from one attempt to the next: while an  *)
(* id has a message or an attempt to notify, it counts fewer than its       *)
(* attempts.                                                                *)
Countable == accepted \cup announced \cup retryQueue

CounterInv ==
  /\ retryCount \in [Ids -> {Missing} \cup Nat]
  /\ \A t \in Ids : retryCount[t] <= attempts[t]
  /\ \A h \in Countable : retryCount[IdOf(h)] < attempts[IdOf(h)]

OtherTypes ==
  /\ price \in [Hashes -> Nat]
  /\ counted \subseteq Ids
  /\ restarts \in 0 .. MaxRestarts
  /\ disturbed \subseteq Ids

\* Steps that leave the counters alone and begin no attempt.
LEMMA CounterKept ==
  ASSUME CounterInv, UNCHANGED <<retryCount, attempts>>, Countable' \subseteq Countable
  PROVE  CounterInv'
BY DEF CounterInv

\* One more attempt makes room for one more retry.
LEMMA CounterOfAttempt ==
  ASSUME ViewInv, CounterInv, UNCHANGED retryCount, NEW t \in Ids,
         attempts'[t] = attempts[t] + 1, \A u \in Ids : u # t => attempts'[u] = attempts[u],
         NEW k, IdOf(k) = t, Countable' \subseteq Countable \cup {k}
  PROVE  CounterInv'
<1>2. \A u \in Ids : attempts[u] \in Nat /\ retryCount[u] \in Int
  BY ViewTypes DEF CounterInv, Missing
<1>3. \A u \in Ids : retryCount[u] <= attempts[u]
  BY DEF CounterInv
<1>4. \A u \in Ids : retryCount[u] <= attempts'[u]
  BY <1>2, <1>3
<1>5. retryCount[t] < attempts'[t]
  BY <1>2, <1>3
<1>6. ASSUME NEW h \in Countable', IdOf(h) # t PROVE retryCount[IdOf(h)] < attempts'[IdOf(h)]
  <2>1. h \in Countable /\ IdOf(h) \in Ids
    BY <1>6, ViewTypes DEF Countable, Followed
  <2> QED BY <1>6, <2>1 DEF CounterInv
<1> QED BY <1>4, <1>5, <1>6 DEF CounterInv

LEMMA CounterStep ==
  ASSUME ViewInv, CounterInv, [Next]_vars
  PROVE  CounterInv'
<1> USE DEF handlerVars, chainVars, retryVars, listenerVars
<1>0. /\ \A t \in Ids : attempts[t] \in Nat /\ retryCount[t] \in Int
      /\ \A h \in Countable : IdOf(h) \in Ids /\ pc[IdOf(h)] = "sent"
  BY ViewTypes DEF CounterInv, Missing, Countable, Followed
<1>1. ASSUME NEW t \in Ids, Send(t) \/ SendAnswerLost(t) PROVE CounterInv'
  <2>1. CASE TakeRelayer(t)
    <3>1. /\ retryCount' = [retryCount EXCEPT ![t] = 0] /\ pc[t] = "queued"
          /\ UNCHANGED <<attempts, accepted, announced, retryQueue>>
      BY <2>1 DEF TakeRelayer
    <3>2. \A h \in Countable : IdOf(h) # t
      BY <1>0, <3>1
    <3> QED BY <1>0, <3>1, <3>2 DEF CounterInv, Countable
  <2>2. CASE SendAccepted(t) \/ SendAnswerLost(t)
    <3>1. /\ UNCHANGED retryCount
          /\ Countable' \subseteq Countable \cup {<<t, 1>>}
      BY <2>2 DEF SendAccepted, SendAnswerLost, TellError, Countable
    <3>2. attempts'[t] = attempts[t] + 1 /\ \A u \in Ids : u # t => attempts'[u] = attempts[u]
      BY <2>2, FirstAttempt
    <3> QED BY <3>1, <3>2, FirstHash, CounterOfAttempt
  <2>3. CASE CreateTransaction(t) \/ SendRejected(t)
    BY <2>3, CounterKept DEF CreateTransaction, SendRejected, TellError, Countable
  <2> QED BY <1>1, <2>1, <2>2, <2>3 DEF Send
<1>2. ASSUME NEW h \in Hashes, Listen(h) \/ Retry(h) \/ Fault(h) PROVE CounterInv'
  <2>0. IdOf(h) \in Ids
    BY HashParts
  <2>1. CASE RetryStarts(h)
    <3> DEFINE t == IdOf(h)
    <3>1. /\ h \in retryQueue /\ retryQueue' = retryQueue \ {h}
          /\ retryCount' = [retryCount EXCEPT ![t] = IF @ = Missing THEN Missing ELSE @ + 1]
          /\ UNCHANGED <<attempts, accepted, announced>>
      BY <2>1 DEF RetryStarts, Consumed
    <3>2. \A k \in Countable' : IdOf(k) # t /\ k \in Countable
      <4>1. <<"retryQueue", h>> \in Links
        BY <3>1 DEF Links
      <4>2. \A k \in Countable : IdOf(k) = t => <<"retryQueue", h>> = <<"retryQueue", k>> /\ k \notin accepted \cup announced
        BY <4>1, OnlyLink DEF ViewInv, Countable
      <4> QED BY <3>1, <4>2 DEF Countable
    <3>3. retryCount[t] < attempts[t]
      BY <3>1 DEF CounterInv, Countable
    <3>4. retryCount'[t] \in {Missing} \cup Nat /\ retryCount'[t] <= attempts[t]
      <4>1. retryCount'[t] = IF retryCount[t] = Missing THEN Missing ELSE retryCount[t] + 1
        BY <2>0, <3>1 DEF CounterInv
      <4>2. retryCount[t] \in {Missing} \cup Nat
        BY <2>0 DEF CounterInv
      <4> QED BY <1>0, <2>0, <3>3, <4>1, <4>2 DEF Missing
    <3>5. \A u \in Ids : u # t => retryCount'[u] = retryCount[u]
      BY <3>1 DEF CounterInv
    <3>6. retryCount' \in [Ids -> {Missing} \cup Nat]
      BY <2>0, <3>1, <3>4 DEF CounterInv
    <3> QED BY <1>0, <2>0, <3>1, <3>2, <3>4, <3>5, <3>6 DEF CounterInv
  <2>2. CASE StopWaiting(h) /\ UNCHANGED <<attempts, accepted, announced, retryQueue>>
    <3>1. retryCount' = [retryCount EXCEPT ![IdOf(h)] = Missing]
      BY <2>2 DEF StopWaiting
    <3> QED BY <1>0, <2>0, <2>2, <3>1 DEF CounterInv, Countable, Missing
  <2>3. CASE RetryAccepted(h) \/ RetryAnswerLost(h)
    <3>t. PICK t : t = IdOf(h)
      OBVIOUS
    <3>k. PICK k : k = <<t, attempts'[t]>>
      OBVIOUS
    <3>1. /\ UNCHANGED retryCount
          /\ Countable' \subseteq Countable \cup {k}
      BY <2>3, <3>t, <3>k DEF RetryAccepted, RetryAnswerLost, RetryBroadcast, Countable
    <3>2. attempts'[t] = attempts[t] + 1 /\ \A u \in Ids : u # t => attempts'[u] = attempts[u]
      BY <2>3, <3>t, NextAttempt DEF RetryAccepted, RetryAnswerLost
    <3>3. IdOf(k) = t
      BY <3>k DEF IdOf
    <3> QED BY <2>0, <3>t, <3>1, <3>2, <3>3, CounterOfAttempt
  <2>4. CASE Announce(h) \/ Track(h) \/ RetryStops(h) \/ RetryRejected(h) \/ PublishFails(h)
    <3>1. UNCHANGED <<retryCount, attempts>> /\ Countable' \subseteq Countable
      BY <2>4 DEF Announce, ToAnnounce, Track, ToTrack, RetryStops, Consumed, RetryRejected,
                  PublishFails, Countable
    <3> QED BY <3>1, CounterKept
  <2> QED BY <1>2, <2>1, <2>2, <2>3, <2>4
          DEF Listen, Retry, Fault, ReceiptArrives, WaiterFails, StopWaiting
<1>3. ASSUME NEW a \in Accounts, MineNext(a) PROVE CounterInv'
  BY <1>3, CounterKept DEF MineNext, Countable
<1>4. CASE Restart
  BY <1>4, CounterKept DEF Restart, Countable
<1>5. CASE UNCHANGED vars
  BY <1>5, CounterKept DEF vars, Countable
<1> QED BY <1>1, <1>2, <1>3, <1>4, <1>5 DEF Next

LEMMA OtherTypesStep ==
  ASSUME ViewInv, OtherTypes, [Next]_vars
  PROVE  OtherTypes'
<1> USE LifecycleAssumption DEF handlerVars, chainVars, retryVars, listenerVars, faultVars, OtherTypes, Fails
<1>1. ASSUME NEW t \in Ids, Send(t) \/ SendAnswerLost(t) PROVE OtherTypes'
  <2>1. price' \in [Hashes -> Nat]
    <3>1. CASE SendAccepted(t) \/ SendAnswerLost(t)
      BY <3>1, FirstAttempt
    <3>2. CASE TakeRelayer(t) \/ CreateTransaction(t) \/ SendRejected(t)
      BY <3>2 DEF TakeRelayer, CreateTransaction, SendRejected
    <3> QED BY <1>1, <3>1, <3>2 DEF Send
  <2>2. counted' \subseteq Ids
    BY <1>1 DEF Send, TakeRelayer, CreateTransaction, SendAccepted, SendRejected,
                SendAnswerLost, TellError
  <2>3. restarts' = restarts /\ disturbed' \subseteq Ids
    BY <1>1 DEF Send, TakeRelayer, CreateTransaction, SendAccepted, SendRejected,
                SendAnswerLost, TellError
  <2> QED BY <2>1, <2>2, <2>3
<1>2. ASSUME NEW h \in Hashes, Listen(h) \/ Retry(h) \/ Fault(h) PROVE OtherTypes'
  <2>1. price' \in [Hashes -> Nat]
    <3>1. CASE RetryAccepted(h) \/ RetryAnswerLost(h)
      <4>1. price' = [price EXCEPT ![<<IdOf(h), attempts[IdOf(h)] + 1>>] = price[h] + 1]
        BY <3>1, NextAttempt DEF RetryAccepted, RetryAnswerLost
      <4>2. PICK k : k = <<IdOf(h), attempts[IdOf(h)] + 1>>
        OBVIOUS
      <4>3. price[h] + 1 \in Nat
        OBVIOUS
      <4> QED BY <4>1, <4>2, <4>3
    <3>2. CASE Listen(h) \/ RetryStarts(h) \/ RetryStops(h) \/ RetryRejected(h) \/ PublishFails(h) \/ WaiterFails(h)
      BY <3>2 DEF Listen, Announce, Track, ReceiptArrives, WaiterFails, StopWaiting, RetryStarts,
                  RetryStops, RetryRejected, PublishFails
    <3> QED BY <1>2, <3>1, <3>2 DEF Retry, Fault
  <2>2. IdOf(h) \in Ids
    BY HashParts
  <2>3. counted' \subseteq Ids
    BY <1>2 DEF Listen, Announce, Track, ReceiptArrives, WaiterFails, StopWaiting, Retry, RetryStarts,
                RetryStops, RetryAccepted, RetryRejected, RetryBroadcast, Fault, PublishFails, RetryAnswerLost
  <2>4. restarts' = restarts /\ disturbed' \subseteq Ids
    BY <1>2, <2>2
       DEF Listen, Announce, Track, ReceiptArrives, WaiterFails, StopWaiting, Retry, RetryStarts,
           RetryStops, RetryAccepted, RetryRejected, RetryBroadcast, Fault, PublishFails, RetryAnswerLost
  <2> QED BY <2>1, <2>3, <2>4
<1>3. ASSUME NEW a \in Accounts, MineNext(a) PROVE OtherTypes'
  BY <1>3 DEF MineNext
<1>4. CASE Restart
  <2>1. \A h \in accepted \cup announced \cup waiters \cup retrying : IdOf(h) \in Ids
    BY ViewTypes DEF Followed
  <2>2. disturbed' \subseteq Ids
    BY <1>4, <2>1 DEF Restart
  <2> QED BY <1>4, <2>2 DEF Restart
<1>5. CASE UNCHANGED vars
  BY <1>5 DEF vars
<1> QED BY <1>1, <1>2, <1>3, <1>4, <1>5 DEF Next

LEMMA TypeInvariance == Spec => [](ViewInv /\ CounterInv /\ OtherTypes)
<1>1. Init => CounterInv /\ OtherTypes
  BY LifecycleAssumption DEF Init, CounterInv, Countable, OtherTypes, Missing
<1>2. ViewInv /\ CounterInv /\ OtherTypes /\ [Next]_vars => CounterInv' /\ OtherTypes'
  BY CounterStep, OtherTypesStep
<1> QED BY <1>1, <1>2, ViewInvariance, PTL DEF Spec

\* Every variable of the lifecycle keeps its type, and the retry counter never gets ahead
\* of the attempts: a message of the retry queue is counted once.
THEOREM LifecycleTyped == Spec => []TypeOK
<1>1. ViewInv /\ CounterInv /\ OtherTypes => TypeOK
  <2> SUFFICES ASSUME ViewInv, CounterInv, OtherTypes PROVE TypeOK
    OBVIOUS
  <2>1. retryCount \in [Ids -> {Missing} \cup 0 .. MaxAttempts]
    <3>1. \A t \in Ids : attempts[t] \in 0 .. MaxAttempts /\ retryCount[t] <= attempts[t]
      BY ViewTypes DEF CounterInv
    <3>2. \A t \in Ids : retryCount[t] \in {Missing} \cup 0 .. MaxAttempts
      BY <3>1, LifecycleAssumption DEF CounterInv, Missing
    <3> QED BY <3>2 DEF CounterInv
  <2>2. /\ accepted \subseteq Hashes /\ announced \subseteq Hashes
        /\ retryQueue \subseteq Hashes /\ retrying \subseteq Hashes /\ waiters \subseteq Hashes
    BY ViewTypes DEF Followed
  <2>3. /\ sender \in [Ids -> Accounts \cup {None}] /\ nonce \in [Hashes -> Nat \cup {Missing}]
    BY DEF ViewInv, LifecycleInv, HandlerTypes
  <2> QED BY <2>1, <2>2, <2>3, ViewTypes DEF OtherTypes, TypeOK
<1> QED BY <1>1, TypeInvariance, PTL
-----------------------------------------------------------------------------
(* Every attempt a node took is on its way to a waiter or with one, unless  *)
(* its id was reported or a call failed for it.                             *)
Awaited == accepted \cup announced \cup waiters

Watched(h) == h \in Awaited \/ Reported(IdOf(h)) \/ IdOf(h) \in disturbed

WatchedInv == \A h \in Hashes : Exists(h) => Watched(h)

\* Events are only added, and ids only disturbed.
LEMMA HistoryGrows ==
  ASSUME ViewInv, [Next]_vars
  PROVE  /\ disturbed \subseteq disturbed'
         /\ \A t \in Ids : Reported(t) => Reported(t)'
<1> USE DEF listenerVars, faultVars, Fails
<1>1. disturbed \subseteq disturbed'
  BY DEF Next, vars, Send, TakeRelayer, CreateTransaction, SendAccepted, SendRejected, SendAnswerLost,
         Listen, Announce, Track, ReceiptArrives, WaiterFails, Retry, RetryStarts, RetryStops,
         RetryAccepted, RetryRejected, RetryAnswerLost, Fault, PublishFails, MineNext, Restart
<1>2. UNCHANGED events \/ \E t \in Ids : \E e \in EventTypes : Publish(t, e)
  BY HashParts
     DEF Next, vars, Send, TakeRelayer, CreateTransaction, SendAccepted, SendRejected, SendAnswerLost, TellError,
         Listen, Announce, Track, ReceiptArrives, WaiterFails, StopWaiting, Retry, RetryStarts, RetryStops,
         RetryAccepted, RetryRejected, RetryAnswerLost, RetryBroadcast, Fault, PublishFails, MineNext, Restart,
         EventTypes
<1>3. ASSUME NEW t \in Ids, NEW e \in EventTypes, Publish(t, e), NEW u \in Ids, Reported(u)
      PROVE  Reported(u)'
  <2>1. PICK i \in DOMAIN events[u] : events[u][i] = "mined"
    BY <1>3 DEF Reported
  <2>2. events'[u] = IF u = t THEN Append(events[u], e) ELSE events[u]
    BY <1>3, ViewTypes DEF Publish
  <2>3. i \in DOMAIN events'[u] /\ events'[u][i] = "mined"
    BY <2>1, <2>2, ViewTypes
  <2> QED BY <2>3 DEF Reported
<1>4. ASSUME UNCHANGED events, NEW u \in Ids, Reported(u) PROVE Reported(u)'
  BY <1>4 DEF Reported
<1> QED BY <1>1, <1>2, <1>3, <1>4

\* A step that lets go of a hash only when it is reported or its id disturbed.
LEMMA WatchedKept ==
  ASSUME ViewInv, WatchedInv, [Next]_vars,
         \A h \in Hashes : Exists(h)' /\ ~Exists(h) => Watched(h)',
         \A h \in Awaited : Watched(h)'
  PROVE  WatchedInv'
<1> SUFFICES ASSUME NEW h \in Hashes, Exists(h), h \notin Awaited PROVE Watched(h)'
  BY DEF WatchedInv
<1>1. IdOf(h) \in Ids /\ (Reported(IdOf(h)) \/ IdOf(h) \in disturbed)
  BY HashParts DEF WatchedInv, Watched
<1>2. Reported(IdOf(h))' \/ IdOf(h) \in disturbed'
  BY <1>1, HistoryGrows
<1> QED BY <1>2 DEF Watched

\* The one attempt a broadcast adds.
LEMMA AddedAttempt ==
  ASSUME ViewInv, NEW t \in Ids, attempts'[t] = attempts[t] + 1,
         \A u \in Ids : u # t => attempts'[u] = attempts[u],
         NEW h \in Hashes, Exists(h)', ~Exists(h)
  PROVE  h = <<t, attempts[t] + 1>> /\ IdOf(h) = t
<1>1. IdOf(h) \in Ids /\ h[2] \in 1 .. MaxAttempts /\ h = <<IdOf(h), h[2]>>
  BY HashParts
<1>2. IdOf(h) = t
  BY <1>1 DEF Exists
<1>3. h[2] = attempts[t] + 1
  BY <1>1, <1>2, ViewTypes DEF Exists
<1> QED BY <1>1, <1>2, <1>3

LEMMA WatchedStep ==
  ASSUME ViewInv, WatchedInv, [Next]_vars
  PROVE  WatchedInv'
<1> USE DEF chainVars, listenerVars, Fails
<1>1. ASSUME NEW t \in Ids, Send(t) \/ SendAnswerLost(t) PROVE WatchedInv'
  <2>1. UNCHANGED <<announced, waiters>> /\ accepted \subseteq accepted'
    BY <1>1 DEF Send, TakeRelayer, CreateTransaction, SendAccepted, SendRejected, SendAnswerLost, TellError
  <2>2. \A h \in Awaited : Watched(h)'
    BY <2>1 DEF Awaited, Watched
  <2>3. CASE TakeRelayer(t) \/ CreateTransaction(t) \/ SendRejected(t)
    <3>1. UNCHANGED attempts
      BY <2>3 DEF TakeRelayer, CreateTransaction, SendRejected
    <3> QED BY <2>2, <3>1, WatchedKept DEF Exists
  <2>4. CASE SendAccepted(t) \/ SendAnswerLost(t)
    <3>1. /\ attempts[t] = 0 /\ attempts'[t] = attempts[t] + 1
          /\ \A u \in Ids : u # t => attempts'[u] = attempts[u]
      BY <2>4, FirstAttempt
    <3>2. ASSUME NEW h \in Hashes, Exists(h)', ~Exists(h) PROVE Watched(h)'
      <4>1. h = <<t, 1>> /\ IdOf(h) = t
        BY <3>1, <3>2, AddedAttempt
      <4> QED BY <2>4, <4>1 DEF SendAccepted, SendAnswerLost, Awaited, Watched
    <3> QED BY <2>2, <3>2, WatchedKept
  <2> QED BY <1>1, <2>3, <2>4 DEF Send
<1>2. ASSUME NEW h \in Hashes, Listen(h) \/ Retry(h) \/ Fault(h) PROVE WatchedInv'
  <2>0. IdOf(h) \in Ids
    BY HashParts
  <2>1. CASE RetryAccepted(h) \/ RetryAnswerLost(h)
    <3>1. /\ attempts'[IdOf(h)] = attempts[IdOf(h)] + 1
          /\ \A u \in Ids : u # IdOf(h) => attempts'[u] = attempts[u]
          /\ UNCHANGED <<announced, waiters>>
      BY <2>1, NextAttempt DEF RetryAccepted, RetryAnswerLost
    <3>2. ASSUME NEW k \in Hashes, Exists(k)', ~Exists(k) PROVE Watched(k)'
      <4>1. k = <<IdOf(h), attempts'[IdOf(h)]>> /\ IdOf(k) = IdOf(h)
        BY <2>0, <3>1, <3>2, AddedAttempt
      <4> QED BY <2>1, <4>1 DEF RetryAccepted, RetryAnswerLost, Awaited, Watched
    <3>3. \A k \in Awaited : Watched(k)'
      BY <2>1, <3>1 DEF RetryAccepted, RetryAnswerLost, Awaited, Watched
    <3> QED BY <3>2, <3>3, WatchedKept
  <2>2. CASE Announce(h) \/ Track(h)
    <3>1. Awaited \subseteq Awaited' /\ UNCHANGED attempts
      BY <2>2 DEF Announce, Track, Awaiting, Awaited
    <3> QED BY <3>1, WatchedKept DEF Exists, Watched
  <2>3. CASE RetryStarts(h) \/ RetryStops(h) \/ RetryRejected(h)
    <3>1. UNCHANGED <<accepted, announced, waiters, attempts>>
      BY <2>3 DEF RetryStarts, RetryStops, RetryRejected
    <3> QED BY <3>1, WatchedKept DEF Exists, Watched, Awaited
  <2>4. CASE ReceiptArrives(h) \/ WaiterFails(h) \/ PublishFails(h)
    <3>1. UNCHANGED attempts /\ \A k \in Awaited : k # h => k \in Awaited'
      BY <2>4 DEF ReceiptArrives, WaiterFails, StopWaiting, PublishFails, Awaited
    <3>2. Reported(IdOf(h))' \/ IdOf(h) \in disturbed'
      <4>1. CASE ReceiptArrives(h)
        <5>1. events' = [events EXCEPT ![IdOf(h)] = Append(@, "mined")] /\ events[IdOf(h)] \in Seq(EventTypes)
          BY <2>0, <4>1, ViewTypes DEF ReceiptArrives, Publish
        <5>2. events'[IdOf(h)] = Append(events[IdOf(h)], "mined")
          BY <2>0, <5>1, ViewTypes
        <5>3. /\ Len(events[IdOf(h)]) + 1 \in DOMAIN events'[IdOf(h)]
              /\ events'[IdOf(h)][Len(events[IdOf(h)]) + 1] = "mined"
          <6>1. "mined" \in EventTypes
            BY DEF EventTypes
          <6> QED BY <5>1, <5>2, <6>1, Appended
        <5> QED BY <5>3 DEF Reported
      <4>2. CASE WaiterFails(h) \/ PublishFails(h)
        BY <4>2 DEF WaiterFails, PublishFails
      <4> QED BY <2>4, <4>1, <4>2
    <3>3. Watched(h)'
      BY <3>2 DEF Watched
    <3>4. \A k \in Awaited : Watched(k)'
      BY <3>1, <3>3 DEF Watched
    <3> QED BY <3>1, <3>4, WatchedKept DEF Exists
  <2> QED BY <1>2, <2>1, <2>2, <2>3, <2>4 DEF Listen, Retry, Fault
<1>3. ASSUME NEW a \in Accounts, MineNext(a) PROVE WatchedInv'
  <2>1. UNCHANGED <<accepted, announced, waiters, attempts>>
    BY <1>3 DEF MineNext
  <2> QED BY <2>1, WatchedKept DEF Exists, Watched, Awaited
<1>4. CASE Restart
  <2>1. UNCHANGED attempts /\ \A h \in Awaited : IdOf(h) \in disturbed'
    BY <1>4 DEF Restart, Awaited
  <2> QED BY <2>1, WatchedKept DEF Exists, Watched
<1>5. CASE UNCHANGED vars
  <2>1. UNCHANGED <<accepted, announced, waiters, attempts>>
    BY <1>5 DEF vars
  <2> QED BY <2>1, WatchedKept DEF Exists, Watched, Awaited
<1> QED BY <1>1, <1>2, <1>3, <1>4, <1>5 DEF Next

\* Whichever attempt is mined, an older one than the newest too, is reported or still has
\* what will report it, unless a call failed for its id or the process exited.
THEOREM MinedReported == Spec => []MinedIsReported
<1>1. Init => WatchedInv
  <2> SUFFICES ASSUME Init, NEW h \in Hashes, Exists(h) PROVE FALSE
    BY DEF WatchedInv
  <2>1. IdOf(h) \in Ids /\ h[2] \in 1 .. MaxAttempts
    BY HashParts
  <2>2. attempts[IdOf(h)] = 0
    BY <2>1 DEF Init
  <2> QED BY <2>1, <2>2 DEF Exists
<1>2. ViewInv /\ WatchedInv /\ [Next]_vars => WatchedInv'
  BY WatchedStep
<1>3. ViewInv /\ WatchedInv => MinedIsReported
  <2> SUFFICES ASSUME ViewInv, WatchedInv, NEW h \in Hashes, InLedger(h) PROVE Watched(h)
    BY DEF MinedIsReported, Watched, Awaited
  <2> QED BY MinedPlace DEF ViewInv, WatchedInv
<1> QED BY <1>1, <1>2, <1>3, ViewInvariance, PTL DEF Spec
-----------------------------------------------------------------------------
(* What ends the resubmissions of an id: a mined attempt, a failing call or *)
(* an exit, or another transaction of its account with its nonce.           *)
Pursued(t) == \E k \in Followed : IdOf(k) = t

Rivalled(t) ==
  \E u \in Ids : /\ u # t /\ sender[u] = sender[t] /\ attempts[u] > 0
                 /\ nonce[<<u, 1>>] = nonce[<<t, 1>>]

PursuedOrOver(t) == Pursued(t) \/ Mined(t) \/ t \in disturbed \/ Rivalled(t)

(* The nonce of what a node took was the mined count, and the price rises.  *)
OfferInv ==
  /\ \A t \in Ids : attempts[t] > 0 => /\ nonce[<<t, 1>>] \in Nat
                                       /\ nonce[<<t, 1>>] <= Len(ledger[sender[t]])
  /\ \A h \in Hashes : Exists(h) => price[h] <= price[<<IdOf(h), attempts[IdOf(h)]>>]

PursuitInv ==
  /\ \A t \in Ids : attempts[t] > 0 => PursuedOrOver(t)
  /\ \A t \in Ids : Announced(t) => attempts[t] > 0

LEMMA FollowedResubmittable == \A t : Resubmittable(t) <=> Pursued(t)
<1>1. \A l \in Links : l[2] \in Followed
  BY DEF Links, Followed
<1>2. \A k \in Followed : \E l \in Links : l[2] = k
  <2>1. \A k \in accepted : <<"accepted", k>> \in Links
    BY DEF Links
  <2>2. \A k \in announced : <<"announced", k>> \in Links
    BY DEF Links
  <2>3. \A k \in retryQueue : <<"retryQueue", k>> \in Links
    BY DEF Links
  <2>4. \A k \in retrying : <<"retrying", k>> \in Links
    BY DEF Links
  <2> QED BY <2>1, <2>2, <2>3, <2>4 DEF Followed
<1> QED BY <1>1, <1>2 DEF Resubmittable, Pursued

\* What a node took keeps its account, its nonce and its price.
LEMMA AttemptKept ==
  ASSUME ViewInv, OtherTypes, [Next]_vars, NEW t \in Ids, attempts[t] > 0
  PROVE  /\ attempts'[t] \in Nat /\ attempts'[t] >= attempts[t]
         /\ sender'[t] = sender[t] /\ nonce'[<<t, 1>>] = nonce[<<t, 1>>]
         /\ \A n \in 1 .. attempts[t] : price'[<<t, n>>] = price[<<t, n>>]
<1> USE DEF handlerVars, chainVars
<1>0. /\ attempts[t] \in Nat /\ Broadcasted(t)
      /\ \A n \in 1 .. attempts[t] : <<t, n>> \in Hashes
  <2>1. attempts[t] \in 0 .. MaxAttempts /\ Broadcasted(t)
    BY ViewTypes DEF ViewInv, LifecycleInv, ChainTypes
  <2> QED BY <2>1, LifecycleAssumption DEF Hashes
<1>1. ASSUME NEW u \in Ids, TakeRelayer(u) \/ CreateTransaction(u)
      PROVE  UNCHANGED <<attempts, price>> /\ sender'[t] = sender[t] /\ nonce'[<<t, 1>>] = nonce[<<t, 1>>]
  <2>1. u # t /\ <<u, 1>> # <<t, 1>>
    BY <1>0, <1>1 DEF TakeRelayer, CreateTransaction, Broadcasted
  <2>2. /\ UNCHANGED <<attempts, price>>
        /\ UNCHANGED nonce \/ \E n : nonce' = [nonce EXCEPT ![<<u, 1>>] = n]
        /\ UNCHANGED sender \/ \E a \in Accounts : sender' = [sender EXCEPT ![u] = a]
    BY <1>1 DEF TakeRelayer, CreateTransaction
  <2> QED BY <2>1, <2>2, FirstHash, ViewTypes
<1>2. ASSUME NEW u \in Ids, SendRejected(u) PROVE UNCHANGED <<attempts, price, sender, nonce>>
  BY <1>2 DEF SendRejected, TellError
<1>3. ASSUME NEW u \in Ids, SendAccepted(u) \/ SendAnswerLost(u)
      PROVE  /\ attempts'[t] = attempts[t] /\ sender' = sender /\ nonce'[<<t, 1>>] = nonce[<<t, 1>>]
             /\ \A n \in 1 .. attempts[t] : price'[<<t, n>>] = price[<<t, n>>]
  <2>0. attempts[u] = 0 /\ \A v \in Ids : v # u => attempts'[v] = attempts[v]
    BY <1>3, FirstAttempt
  <2>1. /\ u # t /\ attempts'[t] = attempts[t] /\ nonce'[<<t, 1>>] = nonce[<<t, 1>>] /\ UNCHANGED sender
    <3>1. u # t
      BY <2>0
    <3>2. nonce'[<<t, 1>>] = nonce[<<t, 1>>] /\ UNCHANGED sender
      BY <1>3, FirstAttempt
    <3> QED BY <2>0, <3>1, <3>2
  <2>2. PICK p \in Prices : price' = [price EXCEPT ![<<u, 1>>] = p]
    BY <1>3, FirstAttempt
  <2>3. \A n : <<t, n>> # <<u, 1>>
    BY <2>1
  <2> QED BY <1>0, <2>1, <2>2, <2>3 DEF OtherTypes
<1>4. ASSUME NEW h \in Hashes, RetryAccepted(h) \/ RetryAnswerLost(h)
      PROVE  /\ attempts'[t] \in Nat /\ attempts'[t] >= attempts[t]
             /\ sender' = sender /\ nonce'[<<t, 1>>] = nonce[<<t, 1>>]
             /\ \A n \in 1 .. attempts[t] : price'[<<t, n>>] = price[<<t, n>>]
  <2>u. PICK u : u = IdOf(h)
    OBVIOUS
  <2>p. PICK p : p = price[h] + 1
    OBVIOUS
  <2>1. /\ UNCHANGED sender /\ nonce'[<<t, 1>>] = nonce[<<t, 1>>]
        /\ attempts'[u] = attempts[u] + 1 /\ (u # t => attempts'[t] = attempts[t])
        /\ price' = [price EXCEPT ![<<u, attempts[u] + 1>>] = p]
    BY <1>4, <2>u, <2>p, NextAttempt DEF RetryAccepted, RetryAnswerLost
  <2>2. attempts'[t] \in Nat /\ attempts'[t] >= attempts[t]
    BY <1>0, <2>1
  <2>3. ASSUME NEW n \in 1 .. attempts[t] PROVE price'[<<t, n>>] = price[<<t, n>>]
    <3>1. <<t, n>> # <<u, attempts[u] + 1>>
      BY <1>0
    <3> QED BY <1>0, <2>1, <3>1 DEF OtherTypes
  <2> QED BY <2>1, <2>2, <2>3
<1>5. ASSUME NEW h \in Hashes, Listen(h) \/ RetryStarts(h) \/ RetryStops(h) \/ RetryRejected(h)
                               \/ PublishFails(h) \/ WaiterFails(h)
      PROVE  UNCHANGED <<attempts, price, sender, nonce>>
  BY <1>5 DEF Listen, Announce, Track, ReceiptArrives, WaiterFails, StopWaiting, RetryStarts,
              RetryStops, RetryRejected, PublishFails
<1>6. ASSUME NEW a \in Accounts, MineNext(a) PROVE UNCHANGED <<attempts, price, sender, nonce>>
  BY <1>6 DEF MineNext
<1>7. CASE Restart
  BY <1>0, <1>7 DEF Restart
<1>8. CASE UNCHANGED vars
  BY <1>0, <1>8 DEF vars
<1>9. CASE \E u \in Ids : Send(u) \/ SendAnswerLost(u)
  BY <1>0, <1>1, <1>2, <1>3, <1>9 DEF Send
<1>10. CASE \E h \in Hashes : Listen(h) \/ Retry(h) \/ Fault(h)
  BY <1>0, <1>4, <1>5, <1>10 DEF Retry, Fault
<1>11. CASE \E a \in Accounts : MineNext(a)
  BY <1>0, <1>6, <1>11
<1> QED BY <1>7, <1>8, <1>9, <1>10, <1>11 DEF Next

LEMMA LedgerGrows ==
  ASSUME ViewInv, [Next]_vars, NEW a \in Accounts
  PROVE  Len(ledger[a]) \in Nat /\ Len(ledger'[a]) \in Nat /\ Len(ledger'[a]) >= Len(ledger[a])
<1> USE DEF handlerVars, chainVars, retryVars, listenerVars
<1>0. Len(ledger[a]) \in Nat
  BY ViewTypes
<1>1. ASSUME NEW b \in Accounts, MineNext(b) PROVE Len(ledger'[a]) = Len(ledger[a]) \/ Len(ledger'[a]) = Len(ledger[a]) + 1
  BY <1>1, MineTakes DEF ViewInv
<1>2. ASSUME NEW t \in Ids, Send(t) \/ SendAnswerLost(t) PROVE UNCHANGED ledger
  BY <1>2 DEF Send, TakeRelayer, CreateTransaction, SendAccepted, SendRejected, SendAnswerLost,
              FirstBroadcast, Broadcast
<1>3. ASSUME NEW k \in Hashes, Listen(k) \/ Retry(k) \/ Fault(k) PROVE UNCHANGED ledger
  BY <1>3 DEF Listen, Announce, Track, ReceiptArrives, WaiterFails, StopWaiting, Retry, RetryStarts,
     RetryStops, RetryAccepted, RetryRejected, RetryBroadcast, Broadcast, Fault, PublishFails, RetryAnswerLost
<1>4. CASE Restart
  BY <1>0, <1>4 DEF Restart
<1>5. CASE UNCHANGED vars
  BY <1>0, <1>5 DEF vars
<1> QED BY <1>0, <1>1, <1>2, <1>3, <1>4, <1>5 DEF Next

LEMMA RivalKept ==
  ASSUME ViewInv, OtherTypes, [Next]_vars, NEW t \in Ids, attempts[t] > 0, Rivalled(t)
  PROVE  Rivalled(t)'
<1>1. PICK u \in Ids : /\ u # t /\ sender[u] = sender[t] /\ attempts[u] > 0
                       /\ nonce[<<u, 1>>] = nonce[<<t, 1>>]
  BY DEF Rivalled
<1>2. attempts'[u] > 0
  BY <1>1, AttemptKept, ViewTypes
<1>3. /\ sender'[u] = sender[u] /\ nonce'[<<u, 1>>] = nonce[<<u, 1>>]
      /\ sender'[t] = sender[t] /\ nonce'[<<t, 1>>] = nonce[<<t, 1>>]
  BY <1>1, AttemptKept
<1> QED BY <1>1, <1>2, <1>3 DEF Rivalled

\* What the account of t holds of another id with the nonce of t is a rival.
LEMMA HolderRivals ==
  ASSUME ViewInv, NEW t \in Ids, NEW k \in Hashes, Exists(k), IdOf(k) # t,
         sender[IdOf(k)] = sender[t], nonce[k] = nonce[<<t, 1>>]
  PROVE  Rivalled(t)
<1>1. IdOf(k) \in Ids /\ k[2] \in 1 .. MaxAttempts
  BY HashParts
<1>2. attempts[IdOf(k)] > 0
  BY <1>1, ViewTypes DEF Exists
<1>3. nonce[k] = nonce[<<IdOf(k), 1>>]
  BY DEF ViewInv, LifecycleInv, NonceInv
<1> QED BY <1>1, <1>2, <1>3 DEF Rivalled

\* A node refuses a resubmission only when the nonce is taken, by an attempt of the id or
\* by another transaction: none of its own attempts pays as much.
LEMMA RefusedIsOver ==
  ASSUME ViewInv, OtherTypes, OfferInv, NEW h \in Hashes, h \in retrying,
         Refuses(IdOf(h), RetryNonce(h), BumpedUp(h))
  PROVE  Mined(IdOf(h)) \/ Rivalled(IdOf(h))
<1>t. PICK t : t = IdOf(h)
  OBVIOUS
<1>a. PICK a : a = sender[t]
  OBVIOUS
<1>n. PICK n : n = nonce[h]
  OBVIOUS
<1>1. /\ t \in Ids /\ h = <<t, attempts[t]>> /\ attempts[t] > 0 /\ Exists(h) /\ a \in Accounts
  BY <1>t, <1>a, FollowedHash DEF Followed
<1>2. n = nonce[<<t, 1>>] /\ n \in Nat /\ n <= Len(ledger[a]) /\ Len(ledger[a]) \in Nat
  BY <1>t, <1>a, <1>n, <1>1, ViewTypes DEF ViewInv, LifecycleInv, NonceInv, OfferInv
<1>3. CASE n # Len(ledger[a])
  <2>1. n + 1 \in DOMAIN ledger[a]
    BY <1>1, <1>2, <1>3, ViewTypes
  <2>k. PICK k : k = ledger[a][n + 1]
    OBVIOUS
  <2>2. /\ k \in Hashes /\ Exists(k) /\ sender[IdOf(k)] = a /\ nonce[k] = n /\ InLedger(k)
    <3>1. k \in Hashes
      BY <1>1, <2>1, <2>k, ViewTypes
    <3>2. Attempt(k, a, (n + 1) - 1)
      BY <1>1, <2>1, <2>k DEF ViewInv, LifecycleInv, LedgerInv
    <3>3. InLedger(k)
      BY <1>1, <2>1, <2>k DEF InLedger
    <3> QED BY <1>2, <3>1, <3>2, <3>3 DEF Attempt
  <2>3. CASE IdOf(k) = t
    <3>1. k = <<t, k[2]>> /\ k[2] \in 1 .. MaxAttempts
      BY <2>2, <2>3, HashParts
    <3>2. InLedger(<<t, k[2]>>)
      BY <2>2, <3>1
    <3>3. Mined(t)
      BY <3>1, <3>2 DEF Mined
    <3> QED BY <1>t, <3>3
  <2>4. CASE IdOf(k) # t
    BY <1>t, <1>a, <1>1, <1>2, <2>2, <2>4, HolderRivals
  <2> QED BY <2>3, <2>4
<1>4. CASE n = Len(ledger[a])
  <2>1. PICK k \in Hashes : /\ sender[IdOf(k)] = a /\ Exists(k) /\ nonce[k] = n
                            /\ price[k] >= price[h] + 1
    BY <1>t, <1>a, <1>n, <1>4 DEF Refuses, RetryNonce, BumpedUp, MinedCount, InFlight, Exists
  <2>2. IdOf(k) # t
    <3> SUFFICES ASSUME IdOf(k) = t PROVE FALSE
      OBVIOUS
    <3>1. price[k] <= price[<<IdOf(k), attempts[IdOf(k)]>>]
      BY <2>1 DEF OfferInv
    <3>2. price[k] <= price[h]
      BY <1>1, <3>1
    <3>3. price[k] \in Nat /\ price[h] \in Nat
      BY DEF OtherTypes
    <3> QED BY <2>1, <3>2, <3>3
  <2> QED BY <1>t, <1>a, <1>1, <1>2, <2>1, <2>2, HolderRivals
<1> QED BY <1>3, <1>4

\* The attempts of an id grow by its first send and by its resubmissions only.
LEMMA OnlyBroadcasts ==
  ASSUME ViewInv, [Next]_vars, NEW t \in Ids
  PROVE  \/ attempts'[t] = attempts[t]
         \/ SendAccepted(t) \/ SendAnswerLost(t)
         \/ \E h \in Hashes : IdOf(h) = t /\ RetryBroadcast(h)
<1> USE DEF chainVars
<1>1. ASSUME NEW u \in Ids, Send(u) \/ SendAnswerLost(u)
      PROVE  attempts'[t] = attempts[t] \/ SendAccepted(t) \/ SendAnswerLost(t)
  <2>1. CASE TakeRelayer(u) \/ CreateTransaction(u) \/ SendRejected(u)
    BY <2>1 DEF TakeRelayer, CreateTransaction, SendRejected
  <2>2. CASE SendAccepted(u) \/ SendAnswerLost(u)
    <3>1. \A v \in Ids : v # u => attempts'[v] = attempts[v]
      BY <2>2, FirstAttempt
    <3> QED BY <2>2, <3>1
  <2> QED BY <1>1, <2>1, <2>2 DEF Send
<1>2. ASSUME NEW h \in Hashes, Listen(h) \/ Retry(h) \/ Fault(h)
      PROVE  attempts'[t] = attempts[t] \/ (IdOf(h) = t /\ RetryBroadcast(h))
  <2>1. CASE RetryAccepted(h) \/ RetryAnswerLost(h)
    <3>1. RetryBroadcast(h)
      BY <2>1 DEF RetryAccepted, RetryAnswerLost
    <3>2. \A v \in Ids : v # IdOf(h) => attempts'[v] = attempts[v]
      BY <3>1, NextAttempt
    <3> QED BY <3>1, <3>2
  <2>2. CASE Listen(h) \/ RetryStarts(h) \/ RetryStops(h) \/ RetryRejected(h) \/ PublishFails(h) \/ WaiterFails(h)
    BY <2>2 DEF Listen, Announce, Track, ReceiptArrives, WaiterFails, StopWaiting, RetryStarts,
                RetryStops, RetryRejected, PublishFails
  <2> QED BY <1>2, <2>1, <2>2 DEF Retry, Fault
<1>3. ASSUME NEW a \in Accounts, MineNext(a) PROVE attempts'[t] = attempts[t]
  BY <1>3 DEF MineNext
<1>4. CASE Restart
  BY <1>4 DEF Restart
<1>5. CASE UNCHANGED vars
  BY <1>5 DEF vars
<1> QED BY <1>1, <1>2, <1>3, <1>4, <1>5 DEF Next

LEMMA RetriedBefore ==
  ASSUME ViewInv, NEW h \in Hashes, RetryBroadcast(h)
  PROVE  attempts[IdOf(h)] > 0
<1>1. attempts[IdOf(h)] \in 1 .. MaxAttempts
  BY NextAttempt
<1> QED BY <1>1

LEMMA OfferStep ==
  ASSUME ViewInv, OtherTypes, OfferInv, [Next]_vars
  PROVE  OfferInv'
<1>1. ASSUME NEW t \in Ids, attempts'[t] > 0
      PROVE  nonce'[<<t, 1>>] \in Nat /\ nonce'[<<t, 1>>] <= Len(ledger'[sender'[t]])
  <2>1. CASE attempts[t] > 0
    <3>1. sender'[t] = sender[t] /\ nonce'[<<t, 1>>] = nonce[<<t, 1>>]
      BY <2>1, AttemptKept
    <3>2. nonce[<<t, 1>>] \in Nat /\ nonce[<<t, 1>>] <= Len(ledger[sender[t]])
      BY <2>1 DEF OfferInv
    <3>3. sender[t] \in Accounts
      BY <2>1 DEF ViewInv, LifecycleInv, HandlerTypes, ChainTypes, HasSender, Broadcasted
    <3>a. PICK a \in Accounts : a = sender[t]
      BY <3>3
    <3>4. Len(ledger[a]) \in Nat /\ Len(ledger'[a]) \in Nat /\ Len(ledger'[a]) >= Len(ledger[a])
      BY LedgerGrows
    <3> QED BY <3>1, <3>2, <3>a, <3>4
  <2>2. CASE ~(attempts[t] > 0)
    <3>1. \A h \in Hashes : IdOf(h) = t => ~RetryBroadcast(h)
      BY <2>2, RetriedBefore
    <3>2. SendAccepted(t) \/ SendAnswerLost(t)
      BY <1>1, <2>2, <3>1, OnlyBroadcasts
    <3>3. /\ sender[t] \in Accounts /\ nonce'[<<t, 1>>] = nonce[<<t, 1>>] /\ UNCHANGED <<sender, ledger>>
      BY <3>2, FirstAttempt
    <3>4. nonce[<<t, 1>>] = Len(ledger[sender[t]])
      BY <3>2 DEF SendAccepted, SendAnswerLost, FirstBroadcast, Accepts, MinedCount
    <3>5. Len(ledger[sender[t]]) \in Nat
      BY <3>3, ViewTypes
    <3> QED BY <3>3, <3>4, <3>5
  <2> QED BY <2>1, <2>2
<1>2. ASSUME NEW h \in Hashes, Exists(h)'
      PROVE  price'[h] <= price'[<<IdOf(h), attempts'[IdOf(h)]>>]
  <2>t. PICK t : t = IdOf(h)
    OBVIOUS
  <2>0. /\ t \in Ids /\ h = <<t, h[2]>> /\ h[2] \in 1 .. MaxAttempts /\ h[2] <= attempts'[t]
        /\ attempts[t] \in Nat
    <3>1. t \in Ids /\ h = <<t, h[2]>> /\ h[2] \in 1 .. MaxAttempts
      BY <2>t, HashParts
    <3>2. h[2] <= attempts'[t]
      BY <1>2, <2>t DEF Exists
    <3>3. attempts[t] \in 0 .. MaxAttempts
      BY <3>1, ViewTypes
    <3> QED BY <3>1, <3>2, <3>3
  <2>1. ASSUME h[2] <= attempts[t]
        PROVE  /\ price'[h] = price[h] /\ price[h] \in Nat
               /\ price'[<<t, attempts[t]>>] = price[<<t, attempts[t]>>]
               /\ price[<<t, attempts[t]>>] \in Nat
               /\ price[h] <= price[<<t, attempts[t]>>]
    <3>1. attempts[t] > 0 /\ h[2] \in 1 .. attempts[t] /\ attempts[t] \in 1 .. attempts[t]
      BY <2>0, <2>1
    <3>2. price'[<<t, h[2]>>] = price[<<t, h[2]>>] /\ price'[<<t, attempts[t]>>] = price[<<t, attempts[t]>>]
      BY <2>0, <3>1, AttemptKept
    <3>3. attempts[t] \in 0 .. MaxAttempts
      BY <2>0, ViewTypes
    <3>4. <<t, attempts[t]>> \in Hashes
      BY <2>0, <3>1, <3>3 DEF Hashes
    <3>5. price[h] <= price[<<t, attempts[t]>>]
      BY <2>t, <2>1 DEF OfferInv, Exists
    <3> QED BY <2>0, <3>2, <3>4, <3>5 DEF OtherTypes
  <2>2. CASE attempts'[t] = attempts[t]
    BY <2>t, <2>0, <2>1, <2>2
  <2>3. CASE SendAccepted(t) \/ SendAnswerLost(t)
    <3>1. attempts'[t] = 1
      <4>1. attempts[t] = 0 /\ attempts'[t] = attempts[t] + 1
        BY <2>0, <2>3, FirstAttempt
      <4> QED BY <4>1
    <3>2. h = <<t, 1>>
      BY <2>0, <3>1
    <3>3. PICK p \in Prices : price' = [price EXCEPT ![<<t, 1>>] = p]
      BY <2>0, <2>3, FirstAttempt
    <3>4. price'[h] \in Nat
      BY <3>2, <3>3, LifecycleAssumption DEF OtherTypes
    <3> QED BY <2>t, <3>1, <3>2, <3>4
  <2>4. CASE \E k \in Hashes : IdOf(k) = t /\ RetryBroadcast(k)
    <3>1. PICK k \in Hashes : IdOf(k) = t /\ RetryBroadcast(k)
      BY <2>4
    <3>m. PICK m : m = <<t, attempts[t] + 1>>
      OBVIOUS
    <3>2. /\ k = <<t, attempts[t]>> /\ attempts'[t] = attempts[t] + 1
          /\ attempts[t] \in 1 .. MaxAttempts /\ attempts[t] < MaxAttempts
          /\ price' = [price EXCEPT ![m] = price[k] + 1]
      BY <3>1, <3>m, NextAttempt
    <3>3. m \in Hashes /\ price'[m] = price[k] + 1 /\ price[k] \in Nat
      <4>1. attempts[t] + 1 \in 1 .. MaxAttempts
        BY <3>2, LifecycleAssumption
      <4>2. m \in Hashes
        BY <2>0, <3>m, <4>1 DEF Hashes
      <4>3. price \in [Hashes -> Nat]
        BY DEF OtherTypes
      <4> QED BY <3>1, <3>2, <4>2, <4>3
    <3>4. CASE h[2] <= attempts[t]
      <4>1. price'[h] = price[h] /\ price[h] \in Nat /\ price[h] <= price[k]
        BY <2>1, <3>2, <3>4
      <4>2. price'[h] <= price'[m]
        BY <3>3, <4>1
      <4> QED BY <2>t, <3>m, <3>2, <4>2
    <3>5. CASE h[2] > attempts[t]
      <4>1. h = m
        BY <2>0, <3>m, <3>2, <3>5
      <4> QED BY <2>t, <3>m, <3>2, <3>3, <4>1
    <3> QED BY <2>0, <3>4, <3>5
  <2> QED BY <2>0, <2>2, <2>3, <2>4, OnlyBroadcasts
<1> QED BY <1>1, <1>2 DEF OfferInv

\* An id is announced by the notify of one of its hashes.
LEMMA AnnouncedBy ==
  ASSUME ViewInv, [Next]_vars, NEW t \in Ids, Announced(t)'
  PROVE  Announced(t) \/ \E h \in accepted : IdOf(h) = t
<1> USE DEF listenerVars
<1>1. ASSUME NEW u \in Ids, NEW e \in EventTypes, Publish(u, e), e # "generated" PROVE Announced(t)
  <2>1. events'[t] = IF u = t THEN Append(events[t], e) ELSE events[t]
    BY <1>1, ViewTypes DEF Publish
  <2> QED BY <1>1, <2>1, ViewTypes DEF Announced
<1>2. ASSUME UNCHANGED events PROVE Announced(t)
  BY <1>2 DEF Announced
<1>3. ASSUME NEW u \in Ids, Send(u) \/ SendAnswerLost(u)
      PROVE  UNCHANGED events \/ Publish(u, "error")
  BY <1>3 DEF Send, TakeRelayer, CreateTransaction, SendAccepted, SendRejected, SendAnswerLost, TellError
<1>4. ASSUME NEW h \in Hashes, Announce(h)
      PROVE  Announced(t) \/ \E k \in accepted : IdOf(k) = t
  <2>1. h \in accepted /\ events' = [events EXCEPT ![IdOf(h)] = Append(@, IF First(h) THEN "generated" ELSE "changed")]
    BY <1>4 DEF Announce, ToAnnounce, Publish
  <2>2. CASE IdOf(h) = t
    BY <2>1, <2>2
  <2>3. CASE IdOf(h) # t
    <3>1. events'[t] = events[t]
      BY <2>1, <2>3, ViewTypes
    <3> QED BY <3>1 DEF Announced
  <2> QED BY <2>2, <2>3
<1>5. ASSUME NEW h \in Hashes, Listen(h) \/ Retry(h) \/ Fault(h)
      PROVE  Announce(h) \/ UNCHANGED events \/ Publish(IdOf(h), "mined")
  BY <1>5 DEF Listen, Track, ReceiptArrives, WaiterFails, StopWaiting, Retry, RetryStarts,
     RetryStops, RetryAccepted, RetryRejected, RetryBroadcast, Fault, PublishFails, RetryAnswerLost
<1>6. ASSUME (\E a \in Accounts : MineNext(a)) \/ Restart \/ UNCHANGED vars PROVE UNCHANGED events
  BY <1>6 DEF MineNext, Restart, vars
<1>7. "error" \in EventTypes /\ "mined" \in EventTypes
  BY DEF EventTypes
<1>8. CASE \E u \in Ids : Send(u) \/ SendAnswerLost(u)
  BY <1>1, <1>2, <1>3, <1>7, <1>8
<1>9. CASE \E h \in Hashes : Listen(h) \/ Retry(h) \/ Fault(h)
  BY <1>1, <1>2, <1>4, <1>5, <1>7, <1>9, HashParts
<1> QED BY <1>2, <1>6, <1>8, <1>9 DEF Next

\* An id is followed until one of the reasons to stop holds.
LEMMA PursuedKept ==
  ASSUME ViewInv, OtherTypes, OfferInv, [Next]_vars, NEW t \in Ids, Pursued(t)
  PROVE  Pursued(t)' \/ Mined(t) \/ t \in disturbed' \/ Rivalled(t)
<1> USE DEF retryVars, listenerVars, Fails
<1>k. PICK k \in Followed : IdOf(k) = t
  BY DEF Pursued
<1>0. k \in Followed' => Pursued(t)'
  BY <1>k DEF Pursued
<1>1. ASSUME NEW u \in Ids, Send(u) \/ SendAnswerLost(u) PROVE k \in Followed'
  BY <1>1 DEF Send, TakeRelayer, CreateTransaction, SendAccepted, SendRejected, SendAnswerLost,
              TellError, Followed
<1>2. ASSUME NEW h \in Hashes, Announce(h) \/ Track(h) \/ ReceiptArrives(h) \/ WaiterFails(h) \/ RetryStarts(h)
      PROVE  k \in Followed'
  BY <1>2 DEF Announce, Track, ReceiptArrives, WaiterFails, StopWaiting, RetryStarts, Consumed, Followed
<1>3. ASSUME NEW h \in Hashes, RetryStops(h) \/ RetryRejected(h) \/ RetryAccepted(h)
                               \/ RetryAnswerLost(h) \/ PublishFails(h)
      PROVE  Pursued(t)' \/ Mined(t) \/ t \in disturbed' \/ Rivalled(t)
  <2>1. CASE k # h
    <3>1. k \in Followed'
      BY <1>3, <2>1 DEF RetryStops, RetryRejected, RetryAccepted, RetryAnswerLost, RetryBroadcast,
                        PublishFails, Consumed, Followed
    <3> QED BY <1>0, <3>1
  <2>2. CASE k = h
    <3>1. IdOf(h) = t
      BY <1>k, <2>2
    <3>2. CASE RetryStops(h)
      <4>1. InLedger(h) \/ t \in disturbed'
        BY <3>1, <3>2 DEF RetryStops, Resubmits
      <4>2. h = <<t, h[2]>> /\ h[2] \in 1 .. MaxAttempts
        BY <3>1, HashParts
      <4>3. InLedger(h) => Mined(t)
        <5>1. InLedger(h) => InLedger(<<t, h[2]>>)
          BY <4>2
        <5> QED BY <4>2, <5>1 DEF Mined
      <4> QED BY <4>1, <4>3
    <3>3. CASE RetryRejected(h)
      BY <3>1, <3>3, RefusedIsOver DEF RetryRejected
    <3>4. CASE RetryAccepted(h)
      <4>1. <<t, attempts'[t]>> \in Followed'
        BY <3>1, <3>4 DEF RetryAccepted, Followed
      <4>2. IdOf(<<t, attempts'[t]>>) = t
        BY DEF IdOf
      <4> QED BY <4>1, <4>2 DEF Pursued
    <3>5. CASE RetryAnswerLost(h) \/ PublishFails(h)
      BY <3>1, <3>5 DEF RetryAnswerLost, PublishFails
    <3> QED BY <1>3, <3>2, <3>3, <3>4, <3>5
  <2> QED BY <2>1, <2>2
<1>4. ASSUME NEW a \in Accounts, MineNext(a) PROVE k \in Followed'
  BY <1>4 DEF MineNext, Followed
<1>5. CASE Restart
  <2>1. k \in retryQueue => k \in Followed'
    BY <1>5 DEF Restart, Followed
  <2>2. k \notin retryQueue => t \in disturbed'
    BY <1>5, <1>k DEF Restart, Followed
  <2> QED BY <1>0, <2>1, <2>2
<1>6. CASE UNCHANGED vars
  <2>1. k \in Followed'
    BY <1>6 DEF vars, Followed
  <2> QED BY <1>0, <2>1
<1>7. CASE \E h \in Hashes : Listen(h) \/ Retry(h) \/ Fault(h)
  BY <1>0, <1>2, <1>3, <1>7 DEF Listen, Retry, Fault
<1> QED BY <1>0, <1>1, <1>4, <1>5, <1>6, <1>7 DEF Next

LEMMA PursuitStep ==
  ASSUME ViewInv, OtherTypes, OfferInv, PursuitInv, [Next]_vars
  PROVE  PursuitInv'
<1>1. ASSUME NEW t \in Ids, attempts[t] > 0 PROVE PursuedOrOver(t)'
  <2>1. CASE Pursued(t)' \/ t \in disturbed'
    BY <2>1 DEF PursuedOrOver
  <2>2. CASE Mined(t)
    <3>1. Mined(t)'
      BY <2>2, MinedStays DEF ViewInv, Mined
    <3> QED BY <3>1 DEF PursuedOrOver
  <2>3. CASE Rivalled(t)
    BY <1>1, <2>3, RivalKept DEF PursuedOrOver
  <2>4. t \in disturbed => t \in disturbed'
    BY HistoryGrows
  <2> QED BY <1>1, <2>1, <2>2, <2>3, <2>4, PursuedKept DEF PursuitInv, PursuedOrOver
<1>2. ASSUME NEW t \in Ids, ~(attempts[t] > 0), attempts'[t] > 0 PROVE PursuedOrOver(t)'
  <2>1. \A h \in Hashes : IdOf(h) = t => ~RetryBroadcast(h)
    BY <1>2, RetriedBefore
  <2>2. SendAccepted(t) \/ SendAnswerLost(t)
    BY <1>2, <2>1, OnlyBroadcasts
  <2>3. CASE SendAccepted(t)
    <3>1. <<t, 1>> \in Followed'
      BY <2>3 DEF SendAccepted, Followed
    <3> QED BY <3>1, FirstHash DEF PursuedOrOver, Pursued
  <2>4. CASE SendAnswerLost(t)
    BY <2>4 DEF SendAnswerLost, Fails, PursuedOrOver
  <2> QED BY <2>2, <2>3, <2>4
<1>3. ASSUME NEW t \in Ids, Announced(t)' PROVE attempts'[t] > 0
  <2>1. attempts[t] > 0
    <3>1. CASE Announced(t)
      BY <3>1 DEF PursuitInv
    <3>2. CASE \E h \in accepted : IdOf(h) = t
      <4>1. PICK h \in accepted : IdOf(h) = t
        BY <3>2
      <4>2. attempts[IdOf(h)] \in 1 .. MaxAttempts
        BY <4>1, FollowedHash DEF Followed
      <4> QED BY <4>1, <4>2
    <3> QED BY <1>3, <3>1, <3>2, AnnouncedBy
  <2>2. attempts'[t] \in Nat /\ attempts'[t] >= attempts[t]
    BY <2>1, AttemptKept
  <2>3. attempts[t] \in 0 .. MaxAttempts
    BY ViewTypes
  <2> QED BY <2>1, <2>2, <2>3
<1> QED BY <1>1, <1>2, <1>3 DEF PursuitInv

\* README.md:4, "resubmissions": an announced transaction is resubmitted until it is mined,
\* a call fails for it or the process exits, or another transaction of its account with its
\* nonce took its place: no node refuses a resubmission for any other reason.
THEOREM PursuedUntilMined == Spec => []ResubmittedUntilMined
<1>1. Init => OfferInv /\ PursuitInv
  <2> SUFFICES ASSUME Init PROVE OfferInv /\ PursuitInv
    OBVIOUS
  <2>1. \A t \in Ids : attempts[t] = 0 /\ events[t] = <<>>
    BY DEF Init
  <2>2. \A h \in Hashes : ~Exists(h)
    <3> SUFFICES ASSUME NEW h \in Hashes PROVE ~(h[2] <= attempts[IdOf(h)])
      BY DEF Exists
    <3>1. h[2] \in 1 .. MaxAttempts /\ attempts[IdOf(h)] = 0
      BY <2>1, HashParts
    <3> QED BY <3>1
  <2> QED BY <2>1, <2>2 DEF OfferInv, PursuitInv, Announced
<1>2. ViewInv /\ OtherTypes /\ OfferInv /\ PursuitInv /\ [Next]_vars => OfferInv' /\ PursuitInv'
  BY OfferStep, PursuitStep
<1>3. ViewInv /\ PursuitInv => ResubmittedUntilMined
  <2> SUFFICES ASSUME PursuitInv, NEW t \in Ids, Announced(t)
               PROVE  Mined(t) \/ Resubmittable(t) \/ t \in disturbed \/ NonceHolders(t) # {t}
    BY DEF ResubmittedUntilMined
  <2>1. Rivalled(t) => NonceHolders(t) # {t}
    BY DEF Rivalled, NonceHolders
  <2> QED BY <2>1, FollowedResubmittable DEF PursuitInv, PursuedOrOver
<1> QED BY <1>1, <1>2, <1>3, TypeInvariance, PTL DEF Spec
=============================================================================
