-------------------------- MODULE SourceFetchProofs --------------------------
(***************************************************************************)
(* The guarded fetch, for every allowlist, every DNS answer, every chain   *)
(* of redirects and every limit.                                           *)
(***************************************************************************)
EXTENDS SourceFetch, TLAPS

\* One request per iteration of the loop, the running one's still to come.
RequestsCounted ==
    /\ Len(requested) <= attempts
    /\ pc \in {"guard", "resolve", "connect"} => Len(requested) < attempts

IInv == TypeOK /\ HopChecked /\ EveryHopValidated /\ RequestsCounted

\* An address the guard lets pass is one the URL may reach, in each family:
\* the rules by family and the meaning of the ranges agree.
LEMMA GuardIsRight ==
    ASSUME NEW a \in Addresses, NEW private \in BOOLEAN, NEW url,
           private => IsAllowedSource(url), ~IsBlockedIp(a, private)
    PROVE  MayReach(url, a)
<1>1. CASE a \in [family : {"v4", "mapped"}, range : Ipv4Ranges]
  <2>1. ~IsBlockedIpv4(a.range, private)
    BY <1>1 DEF IsBlockedIp
  <2> QED
    BY <1>1, <2>1 DEF IsBlockedIpv4, MayReach, Ipv4Ranges
<1>2. CASE a \in [family : {"v6"}, range : Ipv6Ranges]
  <2>1. ~IsBlockedIpv6(a.range, private)
    BY <1>2 DEF IsBlockedIp
  <2> QED
    BY <1>2, <2>1 DEF IsBlockedIpv6, MayReach, Ipv6Ranges
<1> QED
  BY <1>1, <1>2 DEF Addresses

\* No requests yet is a list of requests.
LEMMA EmptyIsSeq ==
    ASSUME NEW S
    PROVE  <<>> \in Seq(S)
  OBVIOUS

\* The fetch begins with nothing sent and nothing known.
LEMMA InitIInv == Init => IInv
<1> SUFFICES ASSUME Init PROVE IInv
  OBVIOUS
<1>1. TypeOK
  <2>1. requested \in Seq([url : Urls, to : Addresses])
    BY EmptyIsSeq DEF Init
  <2>2. bypass \in BOOLEAN /\ pinned \in Addresses \cup {NoAddress}
    BY DEF Init
  <2> QED
    BY FetchAssumption, <2>1, <2>2 DEF Init, TypeOK, States, Results
<1>2. EveryHopValidated /\ RequestsCounted
  BY DEF Init, EveryHopValidated, RequestsCounted
<1>3. HopChecked
  BY DEF Init, HopChecked
<1> QED
  BY <1>1, <1>2, <1>3 DEF IInv

\* The types, and the count of requests, through every step.
LEMMA TypeStep == IInv /\ [Next]_vars => TypeOK' /\ RequestsCounted'
<1> SUFFICES ASSUME IInv, [Next]_vars
             PROVE  TypeOK' /\ RequestsCounted'
  OBVIOUS
<1> USE FetchAssumption DEF IInv, TypeOK, RequestsCounted, States, Results, Return
<1>1. CASE NextHop
  BY <1>1 DEF NextHop
<1>2. CASE Guard
  BY <1>2 DEF Guard
<1>3. CASE ResolveLiteral
  BY <1>3 DEF ResolveLiteral, Pin
<1>4. CASE ResolveName
  BY <1>4, AnswersAssumption DEF ResolveName, Pin
<1>5. CASE ResolveFails
  BY <1>5 DEF ResolveFails
<1>6. ASSUME pc = "connect", Send
      PROVE  /\ requested' \in Seq([url : Urls, to : Addresses])
             /\ Len(requested') <= attempts
  BY <1>6 DEF Send, HopChecked
<1>7. CASE SendRedirected
  BY <1>6, <1>7 DEF SendRedirected
<1>8. CASE SendFails
  BY <1>6, <1>8 DEF SendFails
<1>9. CASE SendAnswered
  BY <1>6, <1>9 DEF SendAnswered
<1>10. CASE ReadChunk
  BY <1>10 DEF ReadChunk
<1>11. CASE EndBody
  BY <1>11 DEF EndBody
<1>12. CASE UNCHANGED vars
  BY <1>12 DEF vars
<1> QED
  BY <1>1, <1>2, <1>3, <1>4, <1>5, <1>7, <1>8, <1>9, <1>10, <1>11, <1>12 DEF Next

\* What is known of a hop is established for that hop and used only in it.
LEMMA HopStep == IInv /\ [Next]_vars => HopChecked'
<1> SUFFICES ASSUME IInv, [Next]_vars
             PROVE  HopChecked'
  OBVIOUS
<1> USE DEF HopChecked, Return
<1>1. CASE NextHop
  BY <1>1 DEF NextHop
<1>2. CASE Guard
  BY <1>2 DEF Guard, IsAllowedSource, MatchesAllowedPrefix, IInv
<1>3. CASE ResolveLiteral
  <2>1. allowed' = allowed /\ current' = current /\ bypass' = bypass /\ bypass \in BOOLEAN /\ pc = "resolve"
    BY <1>3 DEF ResolveLiteral, IInv, TypeOK
  <2>2. CASE IsBlockedIp(current.host, bypass)
    BY <1>3, <2>2 DEF ResolveLiteral
  <2>3. CASE ~IsBlockedIp(current.host, bypass)
    <3>1. pinned' = current.host /\ current.host \in Addresses /\ pc' = "connect"
      BY <1>3, <2>3 DEF ResolveLiteral, Pin
    <3>2. bypass => IsAllowedSource(current)
      BY <2>1 DEF IInv
    <3>3. MayReach(current, current.host)
      BY <2>1, <2>3, <3>1, <3>2, GuardIsRight
    <3>4. MayReach(current, pinned)'
      BY <2>1, <3>1, <3>3 DEF MayReach, IsAllowedSource, MatchesAllowedPrefix
    <3> QED
      BY <2>1, <3>1, <3>4 DEF IInv, IsAllowedSource, MatchesAllowedPrefix
  <2> QED
    BY <2>2, <2>3
<1>4. CASE ResolveName
  <2>1. allowed' = allowed /\ current' = current /\ bypass' = bypass /\ bypass \in BOOLEAN /\ pc = "resolve"
    BY <1>4 DEF ResolveName, IInv, TypeOK
  <2>2. CASE pc' = "connect"
    <3>1. PICK addrs \in Answers :
            /\ addrs # <<>> /\ \A i \in DOMAIN addrs : ~IsBlockedIp(addrs[i], bypass)
            /\ pinned' = addrs[1]
      BY <1>4, <2>2 DEF ResolveName, Pin
    <3>2. 1 \in DOMAIN addrs /\ addrs[1] \in Addresses
      BY <3>1, AnswersAssumption
    <3>3. bypass => IsAllowedSource(current)
      BY <2>1 DEF IInv
    <3>4. MayReach(current, addrs[1])
      BY <2>1, <3>1, <3>2, <3>3, GuardIsRight
    <3>5. MayReach(current, pinned)'
      BY <2>1, <3>1, <3>4 DEF MayReach, IsAllowedSource, MatchesAllowedPrefix
    <3> QED
      BY <2>1, <2>2, <3>1, <3>2, <3>5 DEF IInv, IsAllowedSource, MatchesAllowedPrefix
  <2>3. CASE pc' # "connect"
    BY <1>4, <2>3 DEF ResolveName, Pin
  <2> QED
    BY <2>2, <2>3
<1>5. CASE ResolveFails
  BY <1>5 DEF ResolveFails
<1>6. CASE SendRedirected \/ SendFails \/ SendAnswered
  BY <1>6 DEF SendRedirected, SendFails, SendAnswered
<1>7. CASE ReadChunk \/ EndBody
  BY <1>7 DEF ReadChunk, EndBody
<1>8. CASE UNCHANGED vars
  BY <1>8 DEF vars, IInv, MayReach, IsAllowedSource, MatchesAllowedPrefix
<1> QED
  BY <1>1, <1>2, <1>3, <1>4, <1>5, <1>6, <1>7, <1>8 DEF Next

\* A request goes to the pinned address of the hop that was just checked.
LEMMA RequestStep == IInv /\ [Next]_vars => EveryHopValidated'
<1> SUFFICES ASSUME IInv, [Next]_vars
             PROVE  EveryHopValidated'
  OBVIOUS
<1>0. allowed' = allowed
  BY DEF Next, NextHop, Guard, ResolveLiteral, ResolveName, ResolveFails,
         SendRedirected, SendFails, SendAnswered, ReadChunk, EndBody, vars
<1>1. CASE requested' = requested
  BY <1>1, <1>0 DEF IInv, EveryHopValidated, ValidRequest, MayReach, IsAllowedSource
<1>2. CASE pc = "connect" /\ Send
  <2>1. ValidRequest([url |-> current, to |-> pinned])
    BY <1>2 DEF IInv, HopChecked, ValidRequest
  <2>2. requested' = Append(requested, [url |-> current, to |-> pinned])
    BY <1>2 DEF Send
  <2>3. requested \in Seq([url : Urls, to : Addresses])
    BY DEF IInv, TypeOK
  <2>4. ASSUME NEW i \in DOMAIN requested'
        PROVE  ValidRequest(requested'[i])
    <3>1. CASE i \in DOMAIN requested
      <4>1. requested'[i] = requested[i]
        BY <2>2, <2>3, <3>1
      <4> QED
        BY <3>1, <4>1 DEF IInv, EveryHopValidated
    <3>2. CASE i \notin DOMAIN requested
      <4>1. requested'[i] = [url |-> current, to |-> pinned]
        BY <2>2, <2>3, <2>4, <3>2
      <4> QED
        BY <4>1, <2>1
    <3> QED
      BY <3>1, <3>2
  <2>5. allowed' = allowed
    BY <1>0
  <2> QED
    BY <2>4, <2>5 DEF EveryHopValidated, ValidRequest, MayReach, IsAllowedSource
<1>3. requested' = requested \/ (pc = "connect" /\ Send)
  BY DEF Next, NextHop, Guard, ResolveLiteral, ResolveName, ResolveFails,
         SendRedirected, SendFails, SendAnswered, ReadChunk, EndBody, vars
<1> QED
  BY <1>1, <1>2, <1>3

\* The inductive invariant of the fetch.
THEOREM Invariance == Spec => []IInv
<1>1. IInv /\ [Next]_vars => IInv'
  BY TypeStep, HopStep, RequestStep DEF IInv
<1> QED
  BY InitIInv, <1>1, PTL DEF Spec

\* Every request of every hop goes to an address checked for its own URL.
THEOREM HopsValidated == Spec => []EveryHopValidated
<1>1. IInv => EveryHopValidated
  BY DEF IInv
<1> QED
  BY Invariance, <1>1, PTL

\* No chain of redirects makes more than max_redirects + 1 requests.
THEOREM RequestsBounded == Spec => []RedirectsBounded
<1>1. IInv => RedirectsBounded
  BY FetchAssumption DEF IInv, TypeOK, RequestsCounted, RedirectsBounded
<1> QED
  BY Invariance, <1>1, PTL

\* The buffer stays within max_image_size whatever the origin announced.
THEOREM BufferCapped == Spec => []BufferBounded
<1>1. Init => BufferBounded
  BY FetchAssumption DEF Init, BufferBounded
<1>2. IInv /\ BufferBounded /\ [Next]_vars => BufferBounded'
  BY FetchAssumption
     DEF IInv, TypeOK, BufferBounded, Next, NextHop, Guard, ResolveLiteral, ResolveName,
         ResolveFails, SendRedirected, SendFails, SendAnswered, ReadChunk, EndBody, vars
<1> QED
  BY Invariance, <1>1, <1>2, PTL DEF Spec

\* The limits of download_image hold whatever the origins answer: types, the
\* number of requests, the size of the buffer.
THEOREM LimitsHold == Spec => []FetchInv
<1>1. IInv => TypeOK
  BY DEF IInv
<1> QED
  BY Invariance, RequestsBounded, BufferCapped, <1>1, PTL DEF FetchInv

=============================================================================
