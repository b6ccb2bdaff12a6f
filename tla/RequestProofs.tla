--------------------------- MODULE RequestProofs ---------------------------
(***************************************************************************)
(* Proofs about Request: which paths are rendered, what is left of a       *)
(* request after its presets are expanded, and that a key stands for one   *)
(* rendering, whatever the environments, the requests and their number.    *)
(***************************************************************************)
EXTENDS Request, WellFoundedInduction, TLAPS

-----------------------------------------------------------------------------
(* Induction.  The library's induction theorems are stated for an operator;  *)
(* with a set in its place the provers can use them.                         *)

\* A set that has 0, and with a number the next one, has every number.
LEMMA SetInduction ==
    ASSUME NEW S, 0 \in S, \A n \in Nat : n \in S => n + 1 \in S
    PROVE  Nat \subseteq S
<1> SUFFICES ASSUME Nat \ S # {} PROVE FALSE
  OBVIOUS
<1>1. PICK x \in Nat \ S : \A y \in Nat \ S : ~(y < x)
  <2>1. IsWellFoundedOn(OpToRel(<, Nat), Nat)
    BY NatLessThanWellFounded
  <2>2. PICK x \in Nat \ S : \A y \in Nat \ S : ~(<<y, x>> \in OpToRel(<, Nat))
    <3>1. Nat \ S \subseteq Nat
      OBVIOUS
    <3> QED
      BY <2>1, <3>1, WFMin, Zenon
  <2>3. ASSUME NEW y \in Nat \ S PROVE ~(y < x)
    BY <2>2, Zenon DEF OpToRel
  <2> QED
    BY <2>3
<1>2. x # 0 /\ x \in Nat
  BY <1>1
<1>3. x - 1 \in Nat /\ x - 1 < x /\ (x - 1) + 1 = x
  BY <1>2
<1>4. x - 1 \in S
  BY <1>1, <1>3
<1> QED
  BY <1>1, <1>3, <1>4

\* Concat's recursion is well founded: join is the function its equations say.
LEMMA ConcatDef ==
    ASSUME NEW T, NEW seqs \in Seq(Seq(T))
    PROVE  \E join \in [0..Len(seqs) -> Seq(T)] :
              /\ join[0] = <<>>
              /\ \A i \in 1..Len(seqs) : join[i] = join[i - 1] \o seqs[i]
              /\ Concat(seqs) = join[Len(seqs)]
<1> DEFINE N == Len(seqs)
           Body(g, i) == IF i = 0 THEN <<>> ELSE g[i - 1] \o seqs[i]
           Has(n) == n <= N => \E g : g = [i \in 0..n |-> Body(g, i)]
           S == {n \in Nat : Has(n)}
<1>n. N \in Nat
  OBVIOUS
<1> HIDE DEF N
<1>1. Has(0)
  <2> DEFINE g == [i \in 0..0 |-> <<>>]
  <2>1. g = [i \in 0..0 |-> Body(g, i)]
    OBVIOUS
  <2> QED
    BY <2>1, Zenon
<1>2. ASSUME NEW n \in Nat, Has(n) PROVE Has(n + 1)
  <2>0. SUFFICES ASSUME n + 1 <= N PROVE \E g : g = [i \in 0..(n + 1) |-> Body(g, i)]
    BY Zenon
  <2>1. n <= N
    BY <2>0, <1>n
  <2>2. PICK g : g = [i \in 0..n |-> Body(g, i)]
    BY <1>2, <2>1, Zenon
  <2> DEFINE h == [i \in 0..(n + 1) |-> IF i = n + 1 THEN g[n] \o seqs[i] ELSE g[i]]
  <2>3. ASSUME NEW i \in 0..(n + 1) PROVE h[i] = Body(h, i)
    <3>1. CASE i = n + 1
      <4>1. h[i] = g[n] \o seqs[i] /\ h[i - 1] = g[n] /\ i # 0
        BY <3>1
      <4> QED
        BY <4>1, Zenon
    <3>2. CASE i \in 0..n
      <4>1. h[i] = g[i] /\ (i # 0 => h[i - 1] = g[i - 1])
        BY <3>2
      <4>2. g[i] = Body(g, i)
        BY <3>2, <2>2, Zenon
      <4> QED
        BY <4>1, <4>2
    <3> QED
      BY <3>1, <3>2
  <2>4. h = [i \in 0..(n + 1) |-> Body(h, i)]
    <3>1. h = [i \in 0..(n + 1) |-> h[i]]
      OBVIOUS
    <3> HIDE DEF h, Body
    <3> QED
      BY <2>3, <3>1
  <2> QED
    BY <2>4, Zenon
<1>3. Has(N)
  <2> HIDE DEF Has
  <2>1. 0 \in S /\ \A n \in Nat : n \in S => n + 1 \in S
    BY <1>1, <1>2
  <2>2. Nat \subseteq S
    <3> HIDE DEF S
    <3> QED
      BY <2>1, SetInduction
  <2> QED
    BY <2>2, <1>n
<1>4. \E g : g = [i \in 0..N |-> Body(g, i)]
  <2>1. N <= N
    BY <1>n
  <2> QED
    BY <1>3, <2>1, Zenon
<1> DEFINE join[i \in 0..Len(seqs)] == IF i = 0 THEN <<>> ELSE join[i - 1] \o seqs[i]
<1>5. join = [i \in 0..N |-> Body(join, i)]
  BY <1>4, Zenon DEF N
<1>6. Concat(seqs) = join[N]
  BY DEF Concat, N
<1> HIDE DEF join
<1>7. /\ join[0] = <<>>
      /\ DOMAIN join = 0..N
      /\ \A i \in 1..N : join[i] = join[i - 1] \o seqs[i]
  <2>1. 0 \in 0..N /\ 0 = 0 /\ \A i \in 1..N : i \in 0..N /\ i # 0
    BY <1>n
  <2>2. DOMAIN join = 0..N /\ \A i \in 0..N : join[i] = Body(join, i)
    BY <1>5, Zenon
  <2> QED
    BY <2>1, <2>2, Zenon
<1>8. ASSUME NEW i \in 1..N PROVE seqs[i] \in Seq(T)
  BY DEF N
<1>9. \A n \in 0..N : join[n] \in Seq(T)
  <2> DEFINE U == {n \in Nat : n \in 0..N => join[n] \in Seq(T)}
  <2>1. 0 \in U
    <3>1. join[0] \in Seq(T)
      BY <1>7
    <3> QED
      BY <3>1
  <2>2. ASSUME NEW n \in Nat, n \in U PROVE n + 1 \in U
    <3>1. SUFFICES ASSUME n + 1 \in 0..N PROVE join[n + 1] \in Seq(T)
      OBVIOUS
    <3>2. n \in 0..N /\ n + 1 \in 1..N /\ (n + 1) - 1 = n
      BY <3>1, <1>n
    <3>3. join[n] \in Seq(T) /\ seqs[n + 1] \in Seq(T)
      BY <2>2, <3>2, <1>8
    <3>4. join[n + 1] = join[n] \o seqs[n + 1]
      BY <1>7, <3>2
    <3> QED
      BY <3>3, <3>4
  <2>3. Nat \subseteq U
    <3> HIDE DEF U
    <3> QED
      BY <2>1, <2>2, SetInduction
  <2> QED
    BY <2>3, <1>n
<1>10. join \in [0..N -> Seq(T)]
  <2>1. join = [i \in 0..N |-> join[i]]
    BY <1>5, <1>7, Zenon
  <2> QED
    BY <1>9, <2>1
<1> QED
  BY <1>6, <1>7, <1>10 DEF N

\* Concatenating sequences over T gives a sequence over T.
LEMMA ConcatType ==
    ASSUME NEW T, NEW seqs \in Seq(Seq(T))
    PROVE  Concat(seqs) \in Seq(T)
<1>1. PICK join \in [0..Len(seqs) -> Seq(T)] : Concat(seqs) = join[Len(seqs)]
  BY ConcatDef
<1>2. Len(seqs) \in 0..Len(seqs)
  OBVIOUS
<1> QED
  BY <1>1, <1>2

\* Concatenating the singletons of a sequence gives the sequence back.
LEMMA ConcatSingletons ==
    ASSUME NEW T, NEW s \in Seq(T)
    PROVE  Concat([i \in 1..Len(s) |-> <<s[i]>>]) = s
<1> DEFINE seqs == [i \in 1..Len(s) |-> <<s[i]>>]
<1>1. seqs \in Seq(Seq(T)) /\ Len(seqs) = Len(s) /\ \A i \in 1..Len(s) : seqs[i] = <<s[i]>>
  OBVIOUS
<1> HIDE DEF seqs
<1>2. PICK join \in [0..Len(seqs) -> Seq(T)] :
         /\ join[0] = <<>>
         /\ \A i \in 1..Len(seqs) : join[i] = join[i - 1] \o seqs[i]
         /\ Concat(seqs) = join[Len(seqs)]
  BY <1>1, ConcatDef
<1> DEFINE U == {n \in Nat : n \in 0..Len(s) =>
                               Len(join[n]) = n /\ \A k \in 1..n : join[n][k] = s[k]}
<1>3. 0 \in U
  BY <1>2
<1>4. ASSUME NEW n \in Nat, n \in U PROVE n + 1 \in U
  <2>1. SUFFICES ASSUME n + 1 \in 0..Len(s)
                 PROVE  /\ Len(join[n + 1]) = n + 1
                        /\ \A k \in 1..(n + 1) : join[n + 1][k] = s[k]
    OBVIOUS
  <2>2. n \in 0..Len(s) /\ n + 1 \in 1..Len(s) /\ (n + 1) - 1 = n
    BY <2>1
  <2>3. join[n] \in Seq(T) /\ Len(join[n]) = n /\ \A k \in 1..n : join[n][k] = s[k]
    BY <1>1, <1>2, <1>4, <2>2
  <2>4. join[n + 1] = join[n] \o <<s[n + 1]>>
    BY <1>1, <1>2, <2>2
  <2>5. s[n + 1] \in T
    BY <2>2
  <2> QED
    BY <2>3, <2>4, <2>5
<1>5. Nat \subseteq U
  <2> HIDE DEF U
  <2> QED
    BY <1>3, <1>4, SetInduction
<1>6. Len(s) \in U
  BY <1>5
<1>7. Concat(seqs) \in Seq(T) /\ Len(Concat(seqs)) = Len(s)
      /\ \A k \in 1..Len(s) : Concat(seqs)[k] = s[k]
  BY <1>1, <1>2, <1>6
<1> QED
  <2>1. ASSUME NEW a \in Seq(T), NEW b \in Seq(T), Len(a) = Len(b),
               \A k \in 1..Len(a) : a[k] = b[k]
        PROVE  a = b
    BY <2>1
  <2> QED
    BY <1>7, <2>1 DEF seqs

\* An element of a sequence over T is in T.
LEMMA ElementOf ==
    ASSUME NEW T, NEW s \in Seq(T), NEW i \in 1..Len(s)
    PROVE  s[i] \in T
  OBVIOUS

\* A sequence and one element more.
LEMMA AppendFacts ==
    ASSUME NEW T, NEW s \in Seq(T), NEW x
    PROVE  /\ Append(s, x) \in Seq(T \cup {x})
           /\ Len(Append(s, x)) = Len(s) + 1
           /\ \A i \in 1..Len(s) : Append(s, x)[i] = s[i]
           /\ Append(s, x)[Len(s) + 1] = x
<1>1. s \in Seq(T \cup {x})
  OBVIOUS
<1> QED
  BY <1>1

\* What the two operators on functions give.
LEMMA OverlayFacts ==
    ASSUME NEW f, NEW g
    PROVE  /\ DOMAIN (f @@ g) = (DOMAIN f) \cup (DOMAIN g)
           /\ \A x \in DOMAIN f : (f @@ g)[x] = f[x]
           /\ \A x \in (DOMAIN g) \ (DOMAIN f) : (f @@ g)[x] = g[x]
  BY DEF @@

\* A function of one argument.
LEMMA SingleFacts ==
    ASSUME NEW d, NEW e
    PROVE  DOMAIN (d :> e) = {d} /\ (d :> e)[d] = e
  BY DEF :>

-----------------------------------------------------------------------------
(* Only authentic paths are rendered. *)

Verified == {"expand", "options", "negotiate", "resize", "resize_negotiated"}

Authentic(e, asked_with) ==
    \/ asked_with = <<"unsigned">> /\ e.allow_unsigned
    \/ /\ SigningEnabled(e)
       /\ asked_with[1] = "hmac"
       /\ asked_with[2] = decode_hex_env(e.signing_key)[1]
       /\ asked_with[3] = decode_hex_env(e.signing_salt)[1]

\* The request in hand has been verified, by the process that works on it.
AuthInv ==
    /\ phase \in Verified => verify_or_reject(environment, request)
    /\ OnlyAuthenticRendered

\* What the check lets through is authentic.
LEMMA VerifiedIsAuthentic ==
    ASSUME NEW e, NEW r, verify_or_reject(e, r)
    PROVE  Authentic(e, SignatureSegment(r))
<1>1. CASE SignatureSegment(r) = <<"unsigned">>
  BY <1>1, Zenon DEF verify_or_reject, Authentic
<1>2. CASE SignatureSegment(r) # <<"unsigned">>
  <2> DEFINE k == decode_hex_env(e.signing_key)[1]
             s == decode_hex_env(e.signing_salt)[1]
  <2>1. SigningEnabled(e) /\ SignatureSegment(r) = compute_signature(k, s, r.path)
    BY <1>2, Zenon DEF verify_or_reject, verify_signature
  <2> HIDE DEF k, s
  <2>2. SignatureSegment(r) = <<"hmac", k, s, r.path>>
    BY <2>1, Zenon DEF compute_signature
  <2>3. /\ SignatureSegment(r)[1] = "hmac"
        /\ SignatureSegment(r)[2] = k
        /\ SignatureSegment(r)[3] = s
    BY <2>2
  <2> QED
    BY <2>1, <2>3, Zenon DEF Authentic, k, s
<1> QED
  BY <1>1, <1>2

\* The steps that answer, whatever they answer, end at "idle".
LEMMA AnswerIdle ==
    ASSUME NEW code, Answer(code) \/ Refuse(code)
    PROVE  phase' = "idle"
  BY DEF Answer, Refuse

\* A redirect ends its request.
LEMMA RedirectIdle ==
    ASSUME NEW key, Redirect(key)
    PROVE  phase' = "idle"
  BY DEF Answer, Redirect

\* No step stores a rendering for a path that was not verified.
LEMMA AuthStep == AuthInv /\ [Next]_vars => AuthInv'
<1> SUFFICES ASSUME AuthInv, [Next]_vars PROVE AuthInv'
  OBVIOUS
<1> DEFINE Idle == phase' \notin Verified /\ store' = store
           Keeps == (phase' \in Verified => phase \in Verified)
                    /\ UNCHANGED <<environment, request, store>>
<1>i. Idle => AuthInv'
  BY DEF AuthInv, OnlyAuthenticRendered
<1>k. Keeps => AuthInv'
  <2>1. SUFFICES ASSUME Keeps PROVE AuthInv'
    OBVIOUS
  <2>2. phase' \in Verified => verify_or_reject(environment, request)
    BY <2>1, Zenon DEF AuthInv
  <2>3. environment' = environment /\ request' = request /\ store' = store
    BY <2>1
  <2>4. phase' \in Verified => verify_or_reject(environment', request')
    BY <2>2, <2>3, Zenon
  <2>5. OnlyAuthenticRendered'
    BY <2>3, Zenon DEF AuthInv, OnlyAuthenticRendered
  <2> QED
    BY <2>4, <2>5, Zenon DEF AuthInv
<1>v. "idle" \notin Verified /\ "split" \notin Verified /\ "verify" \notin Verified
  BY DEF Verified
<1>1. CASE Create
  BY <1>1, <1>k, Zenon DEF Create, work
<1>2. CASE Redeploy
  BY <1>2, <1>v, <1>i, Zenon DEF Redeploy
<1>3. CASE Handle
  <2>e. environment' = environment
    BY <1>3, Zenon DEF Handle
  <2>1. ASSUME NEW r \in Requests, Receive(r) PROVE AuthInv'
    BY <2>1, <1>v, <1>i, Zenon DEF Receive, Advance
  <2>2. CASE Split
    BY <2>2, <1>v, <1>i, Zenon DEF Split, Refuse, Answer, Advance
  <2>3. CASE Verify
    BY <2>3, <2>e, <1>v, <1>i DEF Verify, Refuse, Answer, Advance, AuthInv,
       OnlyAuthenticRendered, work, verify_or_reject, SignatureSegment
  <2>4. CASE Expand
    BY <2>4, <2>e, <1>v, <1>i, <1>k, Zenon DEF Expand, Refuse, Answer, Advance, Verified
  <2>5. CASE ParseSegment
    BY <2>5, <2>e, <1>v, <1>i, <1>k, Zenon DEF ParseSegment, Refuse, Answer, Advance, Verified
  <2>6. CASE ParseSource
    BY <2>6, <2>e, <1>v, <1>i, <1>k, Zenon DEF ParseSource, Refuse, Answer, Advance, Verified
  <2>7. CASE Negotiate
    BY <2>7, <2>e, <1>k, Zenon DEF Negotiate, Advance, Verified
  <2>8. CASE ServeStored
    BY <2>8, <1>v, <1>i, RedirectIdle, Zenon DEF ServeStored
  <2>9. CASE ServeRendered
    <3> DEFINE key == generate_key(query)
               object == [rendering |-> Rendering(query, environment), process |-> starts,
                          made_in |-> environment, asked_with |-> SignatureSegment(request)]
    <3>1. store' = (key :> object) @@ store /\ phase' = "idle" /\ phase \in Verified
      BY <2>9, RedirectIdle, Zenon DEF ServeRendered, Verified
    <3>2. Authentic(environment, SignatureSegment(request))
      BY <3>1, VerifiedIsAuthentic, Zenon DEF AuthInv
    <3>3. object.made_in = environment /\ object.asked_with = SignatureSegment(request)
      BY Zenon
    <3> HIDE DEF object, key
    <3>4. /\ DOMAIN store' = {key} \cup DOMAIN store
          /\ store'[key] = object
          /\ \A x \in DOMAIN store \ {key} : store'[x] = store[x]
      BY <3>1 DEF :>, @@
    <3>5. \A x \in DOMAIN store : Authentic(store[x].made_in, store[x].asked_with)
      BY Zenon DEF AuthInv, OnlyAuthenticRendered, Authentic
    <3>6. \A x \in DOMAIN store' : Authentic(store'[x].made_in, store'[x].asked_with)
      BY <3>2, <3>3, <3>4, <3>5
    <3> QED
      BY <3>1, <3>6, <1>v, Zenon DEF AuthInv, OnlyAuthenticRendered, Authentic
  <2>10. CASE ServeFailed
    BY <2>10, <1>v, <1>i, AnswerIdle, Zenon DEF ServeFailed, Refuse
  <2> QED
    BY <1>3, <2>1, <2>2, <2>3, <2>4, <2>5, <2>6, <2>7, <2>8, <2>9, <2>10, Zenon DEF Handle, Serve
<1>4. CASE UNCHANGED vars
  BY <1>4 DEF vars, AuthInv, OnlyAuthenticRendered, verify_or_reject, SignatureSegment
<1> QED
  BY <1>1, <1>2, <1>3, <1>4, Zenon DEF Next, Done

\* Every stored rendering was asked for with the signature of the key of the
\* process that made it, or unsigned where that process allows it
\* (verify_or_reject runs before the path is read).
THEOREM OnlyAuthenticIsRendered == Spec => []OnlyAuthenticRendered
<1>1. Init => AuthInv
  BY DEF Init, AuthInv, Verified, OnlyAuthenticRendered
<1>2. AuthInv => OnlyAuthenticRendered
  BY DEF AuthInv
<1> QED
  BY <1>1, <1>2, AuthStep, PTL DEF Spec

-----------------------------------------------------------------------------
(* Expansion: the path is cut, its presets are replaced by their segments,   *)
(* and what the option parser is given names none.                           *)

Readable == {s \in Segments : Code(s) # "pr"}

\* Every set of naturals that is not empty has a least member.
LEMMA LeastMember ==
    ASSUME NEW S, S \subseteq Nat, S # {}
    PROVE  \E m \in S : \A k \in S : m <= k
<1>1. PICK m \in S : \A k \in S : ~(k < m)
  <2>1. IsWellFoundedOn(OpToRel(<, Nat), Nat)
    BY NatLessThanWellFounded
  <2>2. PICK m \in S : \A k \in S : ~(<<k, m>> \in OpToRel(<, Nat))
    BY <2>1, WFMin, Zenon
  <2>3. ASSUME NEW k \in S PROVE ~(k < m)
    <3>1. m \in Nat /\ k \in Nat
      BY Zenon
    <3> QED
      BY <2>2, <3>1, Zenon DEF OpToRel
  <2> QED
    BY <2>3
<1>2. \A k \in S : k \in Nat /\ m \in Nat
  OBVIOUS
<1>3. \A k \in S : m <= k
  BY <1>1, <1>2
<1> QED
  BY <1>3

\* The options end where the source starts, at the latest after the path.
LEMMA PathCut ==
    ASSUME NEW path \in Seq(Segments)
    PROVE  /\ SourceIndex(path) \in 1..(Len(path) + 1)
           /\ OptionSegments(path) \in Seq(Segments)
           /\ Len(OptionSegments(path)) = SourceIndex(path) - 1
           /\ \A i \in 1..Len(OptionSegments(path)) : OptionSegments(path)[i] = path[i]
<1> DEFINE ends == {i \in 1..Len(path) : path[i] = <<"plain">> \/ ~looks_like_option(path[i])}
<1>1. SourceIndex(path) \in 1..(Len(path) + 1)
  <2>1. CASE ends = {}
    BY <2>1 DEF SourceIndex
  <2>2. CASE ends # {}
    <3>1. ends \subseteq Nat /\ ends \subseteq 1..Len(path)
      OBVIOUS
    <3>2. \E i \in ends : \A j \in ends : i <= j
      BY <2>2, <3>1, LeastMember
    <3>3. SourceIndex(path) = CHOOSE i \in ends : \A j \in ends : i <= j
      BY <2>2, Zenon DEF SourceIndex
    <3> HIDE DEF ends
    <3>4. SourceIndex(path) \in ends
      BY <3>2, <3>3
    <3>5. SourceIndex(path) \in 1..Len(path)
      BY <3>1, <3>4, Zenon
    <3>6. Len(path) \in Nat
      OBVIOUS
    <3> HIDE DEF SourceIndex
    <3> QED
      BY <3>5, <3>6
  <2> QED
    BY <2>1, <2>2
<1> QED
  BY <1>1 DEF OptionSegments

\* The registry of a process that starts holds segments without presets.
LEMMA RegistryType ==
    ASSUME NEW e \in Environments, PresetsAccepted(e), NEW name \in DOMAIN PresetMap(e)
    PROVE  PresetMap(e)[name] \in Seq(Readable)
<1> DEFINE i == CHOOSE i \in PresetEntries(e) : e.presets[i].name = name
<1>1. PresetMap(e)[name] = e.presets[i].options /\ \E j \in PresetEntries(e) : e.presets[j].name = name
  BY DEF PresetMap
<1>2. i \in PresetEntries(e)
  BY <1>1
<1> HIDE DEF i
<1>3. i \in 1..Len(e.presets)
  BY <1>2 DEF PresetEntries
<1>4. e.presets[i].options \in Seq(Segments)
  <2>1. e.presets \in Seq([text : STRING, name : STRING, options : Seq(Segments)])
    BY RequestAssumption
  <2>2. e.presets[i] \in [text : STRING, name : STRING, options : Seq(Segments)]
    BY <1>3, <2>1, ElementOf, Zenon
  <2> QED
    BY <2>2
<1>5. \A k \in 1..Len(e.presets[i].options) : Code(e.presets[i].options[k]) # "pr"
  BY <1>2, Zenon DEF PresetsAccepted
<1> DEFINE options == e.presets[i].options
<1>6. \A k \in 1..Len(options) : options[k] \in Segments /\ Code(options[k]) # "pr"
  BY <1>4, <1>5, ElementOf, Zenon
<1>7. options \in Seq(Segments)
  BY <1>4
<1> HIDE DEF options
<1>8. \A k \in 1..Len(options) : options[k] \in Readable
  BY <1>6, Zenon DEF Readable
<1>9. options \in Seq(Readable)
  BY <1>7, <1>8
<1> QED
  BY <1>1, <1>9, Zenon DEF options

\* With every preset known, the expansion is a sequence of segments that are
\* not presets.
LEMMA ExpandedType ==
    ASSUME NEW segments \in Seq(Segments), PresetsKnown(segments),
           \A name \in DOMAIN registry : registry[name] \in Seq(Readable)
    PROVE  Expanded(segments) \in Seq(Readable)
<1>1. ASSUME NEW i \in 1..Len(segments) PROVE Concat(Expansion(segments[i])) \in Seq(Readable)
  <2>1. segments[i] \in Segments
    OBVIOUS
  <2>2. CASE Code(segments[i]) = "pr"
    <3> DEFINE args == Args(segments[i])
    <3>1. Len(args) \in Nat
      BY <2>1 DEF Args, Segments
    <3>2. \A k \in 1..Len(args) : args[k] \in DOMAIN registry
      BY <2>2, Zenon DEF PresetsKnown
    <3>3. Expansion(segments[i]) = [k \in 1..Len(args) |-> registry[args[k]]]
      BY <2>2, Zenon DEF Expansion
    <3> HIDE DEF args
    <3>4. Expansion(segments[i]) \in Seq(Seq(Readable))
      BY <3>1, <3>2, <3>3
    <3> QED
      BY <3>4, ConcatType
  <2>3. CASE Code(segments[i]) # "pr"
    <3>1. segments[i] \in Readable
      BY <2>1, <2>3 DEF Readable
    <3>2. Expansion(segments[i]) = <<<<segments[i]>>>>
      BY <2>3, Zenon DEF Expansion
    <3>3. Expansion(segments[i]) \in Seq(Seq(Readable))
      BY <3>1, <3>2
    <3> QED
      BY <3>3, ConcatType
  <2> QED
    BY <2>2, <2>3
<1> DEFINE seqs == [i \in 1..Len(segments) |-> Concat(Expansion(segments[i]))]
<1>2. seqs \in Seq(Seq(Readable))
  <2>1. Len(segments) \in Nat
    OBVIOUS
  <2> QED
    BY <1>1, <2>1
<1>3. Concat(seqs) \in Seq(Readable)
  <2> HIDE DEF seqs
  <2> QED
    BY <1>2, ConcatType
<1>4. DefaultSegments \in Seq(Readable)
  BY DEF DefaultSegments
<1> QED
  BY <1>3, <1>4, Zenon, SMT DEF Expanded

-----------------------------------------------------------------------------
(* The query. *)

\* What a query says of an option it takes over.
QueryValue(o, f) ==
    CASE f \in {"enlarge", "extend"} -> UnwrapOr(o[f], FALSE)
      [] f \in {"autorotate", "strip_metadata"} -> UnwrapOr(o[f], TRUE)
      [] OTHER -> o[f]

\* The fields of a query, and where they come from.
LEMMA QueryShape ==
    ASSUME NEW o, NEW source
    PROVE  LET q == into_resize_query(o, source) IN
           /\ DOMAIN q = {"url", "format", "watermark"} \cup QueryFields
           /\ q.url = source.url /\ q.format = source.format /\ q.watermark = Watermark(o)
           /\ \A f \in QueryFields \ {"url", "format", "watermark"} : q[f] = QueryValue(o, f)
<1> DEFINE own == [url |-> source.url, format |-> source.format, watermark |-> Watermark(o)]
           value(f) == QueryValue(o, f)
           rest == [f \in QueryFields |-> value(f)]
<1>1. into_resize_query(o, source) = own @@ rest
  BY Zenon DEF into_resize_query, QueryValue
<1>2. /\ DOMAIN own = {"url", "format", "watermark"}
      /\ own.url = source.url /\ own.format = source.format /\ own.watermark = Watermark(o)
  OBVIOUS
<1>3. DOMAIN rest = QueryFields /\ \A f \in QueryFields : rest[f] = value(f)
  BY Zenon
<1> HIDE DEF own, rest, value
<1>4. /\ DOMAIN (own @@ rest) = (DOMAIN own) \cup (DOMAIN rest)
      /\ \A x \in DOMAIN own : (own @@ rest)[x] = own[x]
      /\ \A x \in (DOMAIN rest) \ (DOMAIN own) : (own @@ rest)[x] = rest[x]
  BY OverlayFacts, Zenon
<1> DEFINE q == own @@ rest
<1>5. DOMAIN q = {"url", "format", "watermark"} \cup QueryFields
  BY <1>2, <1>3, <1>4, Zenon
<1>6. q["url"] = source.url /\ q["format"] = source.format /\ q["watermark"] = Watermark(o)
  BY <1>2, <1>4, Zenon
<1>7. \A f \in QueryFields \ {"url", "format", "watermark"} : q[f] = value(f)
  BY <1>2, <1>3, <1>4, Zenon
<1> HIDE DEF q
<1>8. into_resize_query(o, source) = q
  BY <1>1, Zenon DEF q
<1> QED
  BY <1>5, <1>6, <1>7, <1>8, Zenon DEF value

\* Where no option has been read yet.
Unread == {"idle", "split", "verify", "expand"}

\* TypeOK, and what holds of the process while it works on a request.
CoreInv ==
    /\ TypeOK
    /\ phase # "idle" => service = "ready" /\ handled < MaxRequests /\ request \in Requests
    /\ service = "ready" => PresetsAccepted(environment) /\ registry = PresetMap(environment)
    /\ expanded \in Seq(Readable)
    /\ phase \in Unread => cursor = 0 /\ opts = DefaultOptions

Formats == {"jpg", "png", "webp", "avif", "gif", "auto"}

\* The options and the query a request starts from.
LEMMA DefaultShapes ==
    /\ DOMAIN DefaultOptions = OptionFields
    /\ NoQuery.format = "jpg"
<1>1. NoQuery.format = [url |-> "", format |-> "jpg"].format
  BY QueryShape, Zenon DEF NoQuery
<1>2. [url |-> "", format |-> "jpg"].format = "jpg"
  OBVIOUS
<1> QED
  BY <1>1, <1>2, Zenon DEF OptionFields

\* Any two queries have the same fields.
LEMMA QueryDomain ==
    ASSUME NEW o, NEW source
    PROVE  DOMAIN into_resize_query(o, source) = DOMAIN NoQuery
  BY QueryShape, Zenon DEF NoQuery

\* A source that is read has one of the formats.
LEMMA SourceFormat ==
    ASSUME NEW segments, parse_source(segments) # None
    PROVE  parse_source(segments)[1].format \in Formats
<1> DEFINE plain == segments # <<>> /\ segments[1] = <<"plain">>
           rest == IF plain THEN Tail(segments) ELSE segments
           decoding == IF plain THEN PercentText ELSE Base64Text
           ext == SourceText[rest][2]
           url == decoding[SourceText[rest][1]]
<1>1. /\ ext \in KnownExtensions
      /\ parse_source(segments) = Some([url |-> url, format |-> ParseImageFormat(ext)])
  BY Zenon DEF parse_source
<1> HIDE DEF plain, rest, decoding, ext, url
<1>2. ParseImageFormat(ext) \in Formats
  BY <1>1 DEF ParseImageFormat, KnownExtensions, Formats
<1>3. parse_source(segments)[1].format = ParseImageFormat(ext)
  BY <1>1 DEF Some
<1> QED
  BY <1>2, <1>3

\* Negotiation always settles on a format.
LEMMA NegotiatedFormat ==
    ASSUME NEW accept
    PROVE  ResolveAuto(accept) \in Formats /\ ResolveAuto(accept) # "auto"
<1>1. ResolveAuto(accept) \in {"avif", "webp", "jpg"}
  BY Zenon DEF ResolveAuto
<1> QED
  BY <1>1 DEF Formats

\* A segment that is read leaves a record of all options.
LEMMA SegmentShape ==
    ASSUME NEW o, NEW segment, ApplySegment(o, segment) # None
    PROVE  DOMAIN ApplySegment(o, segment)[1] = OptionFields
<1> DEFINE set == AllParsed(Assignment(Code(segment), Args(segment)))
           read == [f \in OptionFields |-> IF f \in DOMAIN set[1] THEN set[1][f] ELSE o[f]]
<1>1. ApplySegment(o, segment) = Some(read)
  BY Zenon DEF ApplySegment
<1>2. DOMAIN read = OptionFields
  BY Zenon
<1> HIDE DEF read
<1>3. ApplySegment(o, segment)[1] = read
  BY <1>1 DEF Some
<1> QED
  BY <1>2, <1>3

\* So does resolving the crop.
LEMMA CropShape ==
    ASSUME NEW o, DOMAIN o = OptionFields
    PROVE  DOMAIN ResolveCrop(o) = OptionFields
  BY Zenon DEF ResolveCrop

\* An answer leaves the process as it was before the request.
LEMMA CoreAnswered ==
    ASSUME CoreInv, phase # "idle", NEW code, Answer(code),
           UNCHANGED <<environment, starts, service, registry>>
    PROVE  CoreInv'
<1>1. handled' \in 0..MaxRequests
  BY RequestAssumption DEF CoreInv, TypeOK, Answer
<1>2. <<>> \in Seq(Readable) /\ 0 \in 0..Len(<<>>)
  OBVIOUS
<1>3. TypeOK'
  BY <1>1, <1>2, DefaultShapes DEF CoreInv, TypeOK, Answer
<1>4. /\ phase' = "idle" /\ expanded' = <<>> /\ service' = service /\ environment' = environment
      /\ registry' = registry
  BY DEF Answer
<1> QED
  BY <1>2, <1>3, <1>4, Zenon DEF CoreInv, Answer

\* A step of the handler that goes on to another phase.
LEMMA CoreAdvanced ==
    ASSUME CoreInv, phase # "idle", NEW next, Advance(next),
           next \in {"split", "verify", "expand", "options", "negotiate", "resize",
                     "resize_negotiated"},
           UNCHANGED <<environment, starts, service, registry, request>>,
           expanded' \in Seq(Readable), cursor' \in 0..Len(expanded'),
           DOMAIN opts' = OptionFields,
           DOMAIN query' = DOMAIN NoQuery, query'.format \in Formats,
           next \in Unread => phase \in Unread /\ UNCHANGED <<cursor, opts>>
    PROVE  CoreInv'
<1>1. TypeOK'
  BY DEF CoreInv, TypeOK, Advance, given, Formats
<1> QED
  BY <1>1 DEF CoreInv, Advance, given

\* Every step keeps types and complete expansion.
LEMMA CoreStep == CoreInv /\ [Next]_vars => CoreInv'
<1> SUFFICES ASSUME CoreInv, [Next]_vars PROVE CoreInv'
  OBVIOUS
<1>t. /\ expanded \in Seq(Readable) /\ cursor \in 0..Len(expanded)
      /\ DOMAIN opts = OptionFields /\ DOMAIN query = DOMAIN NoQuery /\ query.format \in Formats
  BY DEF CoreInv, TypeOK, Formats
<1>1. CASE Create
  <2>1. TypeOK'
    BY <1>1 DEF Create, CoreInv, TypeOK, work, given
  <2>2. UNCHANGED <<environment, phase, expanded>> /\ phase = "idle"
    BY <1>1 DEF Create, CoreInv, work
  <2>3. service' = "ready" => PresetsAccepted(environment) /\ registry' = PresetMap(environment)
    BY <1>1, Zenon DEF Create
  <2>4. service' = "ready" => PresetsAccepted(environment') /\ registry' = PresetMap(environment')
    BY <2>2, <2>3, Zenon
  <2> QED
    BY <1>1, <2>1, <2>2, <2>4, <1>t DEF CoreInv, Create, work
<1>2. CASE Redeploy
  <2>1. starts' \in 1..MaxStarts
    BY <1>2, RequestAssumption DEF Redeploy, CoreInv, TypeOK
  <2>2. TypeOK'
    BY <1>2, <2>1 DEF Redeploy, CoreInv, TypeOK, work, given
  <2> QED
    BY <1>2, <2>2, <1>t DEF Redeploy, CoreInv, work
<1>3. CASE Handle
  <2>e. UNCHANGED <<environment, starts, service, registry>>
    BY <1>3, Zenon DEF Handle
  <2>r. ASSUME NEW code, phase # "idle", Refuse(code) PROVE CoreInv'
    BY <2>r, <2>e, CoreAnswered DEF Refuse
  <2>1. ASSUME NEW r \in Requests, Receive(r) PROVE CoreInv'
    <3>1. /\ service = "ready" /\ handled < MaxRequests /\ request' = r /\ phase' = "split"
          /\ UNCHANGED <<expanded, cursor, opts, query, store, handled, status, answers>>
      BY <2>1, Zenon DEF Receive, Advance, given
    <3>2. TypeOK'
      BY <3>1, <2>e DEF CoreInv, TypeOK
    <3>3. PresetsAccepted(environment) /\ registry = PresetMap(environment)
      BY <3>1, Zenon DEF CoreInv
    <3>4. PresetsAccepted(environment') /\ registry' = PresetMap(environment')
      BY <3>3, <2>e, Zenon
    <3> QED
      BY <2>1, <3>1, <3>2, <3>4, <2>e, <1>t DEF CoreInv, Receive, Unread
  <2>2. CASE Split
    <3>1. phase # "idle" /\ phase \in Unread
      BY <2>2 DEF Split, Unread
    <3>2. CASE Refuse("malformed")
      BY <3>1, <3>2, <2>r
    <3>3. CASE Advance("verify") /\ UNCHANGED work
      BY <3>1, <3>3, <2>e, <1>t, CoreAdvanced DEF work, Unread
    <3> QED
      BY <2>2, <3>2, <3>3, Zenon DEF Split
  <2>3. CASE Verify
    <3>1. phase # "idle" /\ phase \in Unread
      BY <2>3 DEF Verify, Unread
    <3>2. CASE Refuse("forbidden")
      BY <3>1, <3>2, <2>r
    <3>3. CASE Advance("expand") /\ UNCHANGED work
      BY <3>1, <3>3, <2>e, <1>t, CoreAdvanced DEF work, Unread
    <3> QED
      BY <2>3, <3>2, <3>3, Zenon DEF Verify
  <2>4. CASE Expand
    <3> DEFINE segments == OptionSegments(request.path)
    <3>1. phase # "idle" /\ cursor = 0
      BY <2>4 DEF Expand, CoreInv, Unread
    <3>2. CASE Refuse("bad_request")
      BY <3>1, <3>2, <2>r
    <3>3. CASE /\ PresetsKnown(segments) /\ expanded' = Expanded(segments)
               /\ Advance("options") /\ UNCHANGED <<request, cursor, opts, query>>
      <4>1. request \in Requests /\ service = "ready"
        BY <3>1 DEF CoreInv
      <4>2. segments \in Seq(Segments)
        BY <4>1, PathCut, RequestAssumption
      <4>3. \A name \in DOMAIN registry : registry[name] \in Seq(Readable)
        <5>1. environment \in Environments
          BY DEF CoreInv, TypeOK
        <5>2. PresetsAccepted(environment) /\ registry = PresetMap(environment)
          BY <4>1, Zenon DEF CoreInv
        <5> QED
          BY <5>1, <5>2, RegistryType, Zenon
      <4>4. expanded' \in Seq(Readable)
        BY <3>3, <4>2, <4>3, ExpandedType, Zenon
      <4>5. cursor' \in 0..Len(expanded')
        BY <3>1, <3>3, <4>4
      <4> QED
        BY <3>1, <3>3, <4>4, <4>5, <2>e, <1>t, CoreAdvanced DEF Unread
    <3> QED
      BY <2>4, <3>2, <3>3, Zenon DEF Expand
  <2>5. CASE ParseSegment
    <3> DEFINE read == ApplySegment(opts, expanded[cursor + 1])
    <3>1. phase # "idle" /\ cursor < Len(expanded)
      BY <2>5 DEF ParseSegment
    <3>2. CASE Refuse("bad_request")
      BY <3>1, <3>2, <2>r
    <3>3. CASE /\ read # None /\ opts' = read[1] /\ cursor' = cursor + 1
               /\ Advance("options") /\ UNCHANGED <<request, expanded, query>>
      <4>1. DOMAIN opts' = OptionFields
        BY <3>3, SegmentShape, Zenon
      <4>2. cursor' \in 0..Len(expanded')
        BY <3>1, <3>3, <1>t
      <4> QED
        BY <3>1, <3>3, <4>1, <4>2, <2>e, <1>t, CoreAdvanced DEF Unread
    <3> QED
      BY <2>5, <3>2, <3>3, Zenon DEF ParseSegment
  <2>6. CASE ParseSource
    <3> DEFINE source == parse_source(SourceSegments(request.path))
    <3>1. phase # "idle"
      BY <2>6 DEF ParseSource
    <3>2. CASE Refuse("bad_request")
      BY <3>1, <3>2, <2>r
    <3>3. CASE /\ source # None /\ query' = into_resize_query(ResolveCrop(opts), source[1])
               /\ opts' = ResolveCrop(opts) /\ Advance("negotiate")
               /\ UNCHANGED <<request, expanded, cursor>>
      <4>1. DOMAIN opts' = OptionFields
        BY <3>3, <1>t, CropShape, Zenon
      <4>2. DOMAIN query' = DOMAIN NoQuery
        BY <3>3, QueryDomain, Zenon
      <4>3. source[1].format \in Formats
        BY <3>3, SourceFormat, Zenon
      <4>4. query'.format = source[1].format
        <5>1. \A o, s : into_resize_query(o, s).format = s.format
          BY QueryShape, Zenon
        <5> HIDE DEF source
        <5> QED
          BY <3>3, <5>1
      <4>5. query'.format \in Formats
        BY <4>3, <4>4, Zenon
      <4> HIDE DEF source
      <4> QED
        BY <3>1, <3>3, <4>1, <4>2, <4>5, <2>e, <1>t, CoreAdvanced DEF Unread
    <3> QED
      BY <2>6, <3>2, <3>3, Zenon DEF ParseSource
  <2>7. CASE Negotiate
    <3>1. phase # "idle"
      BY <2>7 DEF Negotiate
    <3>2. DOMAIN query' = DOMAIN NoQuery /\ query'.format \in Formats
      <4>1. CASE query' = query
        BY <4>1, <1>t
      <4>2. CASE query' = [query EXCEPT !.format = ResolveAuto(request.accept)]
        <5>1. DOMAIN query' = DOMAIN query
          BY <4>2, Zenon
        <5>2. "format" \in DOMAIN NoQuery
          BY QueryShape, Zenon DEF NoQuery
        <5>3. query'.format = ResolveAuto(request.accept)
          BY <4>2, <5>2, <1>t, Zenon
        <5> QED
          BY <5>1, <5>3, <1>t, NegotiatedFormat
      <4> QED
        BY <2>7, <4>1, <4>2, Zenon DEF Negotiate
    <3>3. UNCHANGED <<request, expanded, cursor, opts>>
      BY <2>7 DEF Negotiate
    <3>4. Advance("resize") \/ Advance("resize_negotiated")
      BY <2>7, Zenon DEF Negotiate
    <3> QED
      BY <3>1, <3>2, <3>3, <3>4, <2>e, <1>t, CoreAdvanced DEF Unread
  <2>8. CASE Serve
    <3>1. phase # "idle"
      BY <2>8 DEF Serve, ServeStored, ServeRendered, ServeFailed
    <3>2. \E code : Answer(code)
      BY <2>8, Zenon DEF Serve, ServeStored, ServeRendered, ServeFailed, Redirect, Refuse
    <3> QED
      BY <3>1, <3>2, <2>e, CoreAnswered
  <2> QED
    BY <1>3, <2>1, <2>2, <2>3, <2>4, <2>5, <2>6, <2>7, <2>8, Zenon DEF Handle
<1>4. CASE UNCHANGED vars
  BY <1>4 DEF vars, CoreInv, TypeOK
<1> QED
  BY <1>1, <1>2, <1>3, <1>4, Zenon DEF Next, Done

\* No pr: segment ever reaches the option parser, which does not know it: the
\* registry of a process that starts names no preset in a preset
\* (PresetRegistry::parse), and the request's own are all expanded.
THEOREM ExpansionIsComplete == Spec => []ExpansionComplete
<1>1. Init => CoreInv
  <2> SUFFICES ASSUME Init PROVE CoreInv
    OBVIOUS
  <2>1. TypeOK
    BY DefaultShapes, RequestAssumption DEF Init, TypeOK
  <2> QED
    BY <2>1 DEF Init, CoreInv
<1>2. CoreInv => ExpansionComplete
  <2> SUFFICES ASSUME CoreInv, NEW i \in 1..Len(expanded) PROVE Code(expanded[i]) # "pr"
    BY DEF CoreInv, ExpansionComplete
  <2>1. expanded[i] \in Readable
    BY ElementOf DEF CoreInv
  <2> QED
    BY <2>1 DEF Readable
<1> QED
  BY <1>1, <1>2, CoreStep, PTL DEF Spec

-----------------------------------------------------------------------------
(* The options.  Every field has one option that sets it, and is read back   *)
(* as what it is: an option, a flag or a record.                             *)

\* None, or Some of something.
IsOption(v) == v = None \/ v = Some(v[1])

IsFlag(v) == v \in {None, Some(TRUE), Some(FALSE)}

RecordOver(r, fields) == r = [f \in fields |-> r[f]]

IsCrop(v) == v = None \/ (v = Some(v[1]) /\ RecordOver(v[1], {"width", "height", "gravity"}))

IsTrim(v) ==
    v = None \/ /\ v = Some(v[1])
                /\ RecordOver(v[1], {"threshold", "color", "equal_hor", "equal_ver"})
                /\ IsOption(v[1].color)
                /\ v[1].equal_hor \in BOOLEAN /\ v[1].equal_ver \in BOOLEAN

IsPadding(v) ==
    v = None \/ (v = Some(v[1]) /\ RecordOver(v[1], {"top", "right", "bottom", "left"}))

Optional == {"width", "height", "blur_sigma", "quality", "jpeg_quality", "webp_quality",
             "max_bytes", "background", "min_width", "min_height", "watermark_opacity",
             "watermark_url", "watermark_size", "watermark_shadow"}

OptionalFlags == {"grayscale", "enlarge", "webp_lossless", "jpeg_progressive",
                  "jpeg_no_subsampling", "autorotate", "strip_metadata", "extend"}

FieldOK(f, v) ==
    /\ f \in Optional => IsOption(v)
    /\ f \in OptionalFlags => IsFlag(v)
    /\ f \in {"flip_horizontal", "flip_vertical"} => v \in BOOLEAN
    /\ f = "crop_raw" => IsCrop(v)
    /\ f = "trim" => IsTrim(v)
    /\ f = "padding" => IsPadding(v)

\* The option that sets a field.
Owner ==
    [width |-> "rs", height |-> "rs", resize_type |-> "rs", blur_sigma |-> "bl",
     grayscale |-> "g", enlarge |-> "el", quality |-> "q", jpeg_quality |-> "fq",
     webp_quality |-> "fq", webp_lossless |-> "webpo", jpeg_progressive |-> "jpgo",
     jpeg_no_subsampling |-> "jpgo", max_bytes |-> "mb", background |-> "bg",
     autorotate |-> "ar", strip_metadata |-> "sm", crop_raw |-> "c", crop |-> "no option",
     gravity |-> "gr", rotate |-> "rot", flip_horizontal |-> "fl", flip_vertical |-> "fl",
     trim |-> "t", extend |-> "ex", padding |-> "pd", zoom_x |-> "z", zoom_y |-> "z",
     dpr |-> "dpr", min_width |-> "mw", min_height |-> "mh", watermark_opacity |-> "wm",
     watermark_position |-> "wm", watermark_x_offset |-> "wm", watermark_y_offset |-> "wm",
     watermark_scale |-> "wm", watermark_url |-> "wmu", watermark_size |-> "wms",
     watermark_rotate |-> "wmr", watermark_shadow |-> "wmsh"]

\* What an option sets, where it is not refused, is its own and of the right kind.
AssignOK(assignment, code) ==
    \A f \in DOMAIN assignment :
        \/ assignment[f] = None
        \/ /\ f \in OptionFields /\ Owner[f] = code
           /\ FieldOK(f, assignment[f][1])

\* An assignment to one field belongs to the option that owns the field.
LEMMA SetsOK ==
    ASSUME NEW f \in OptionFields, NEW parsed, parsed = None \/ FieldOK(f, parsed[1])
    PROVE  AssignOK(Sets(f, parsed), Owner[f])
<1> DEFINE A == Sets(f, parsed)
<1>1. DOMAIN A = {f} /\ A[f] = parsed
  BY DEF Sets, :>
<1> HIDE DEF A
<1> QED
  BY <1>1, Zenon DEF AssignOK, A

\* The same where the field is optional.
LEMMA SetsSomeOK ==
    ASSUME NEW f \in OptionFields, NEW parsed, parsed = None \/ FieldOK(f, parsed)
    PROVE  AssignOK(SetsSome(f, parsed), Owner[f])
<1> DEFINE A == SetsSome(f, parsed)
<1>1. DOMAIN A = {f} /\ A[f] = IF parsed = None THEN None ELSE Some(parsed)
  BY Zenon DEF SetsSome, :>
<1>2. Some(parsed)[1] = parsed
  BY DEF Some
<1> HIDE DEF A
<1> QED
  BY <1>1, <1>2, Zenon DEF AssignOK, A

\* Two assignments of one option make one of it.
LEMMA OverlayOK ==
    ASSUME NEW A, NEW B, NEW code, AssignOK(A, code), AssignOK(B, code)
    PROVE  AssignOK(A @@ B, code)
<1> DEFINE C == A @@ B
<1>1. /\ DOMAIN C = (DOMAIN A) \cup (DOMAIN B)
      /\ \A x \in DOMAIN A : C[x] = A[x]
      /\ \A x \in (DOMAIN B) \ (DOMAIN A) : C[x] = B[x]
  BY OverlayFacts, Zenon
<1> HIDE DEF C
<1>2. AssignOK(C, code)
  BY <1>1, Zenon DEF AssignOK
<1> QED
  BY <1>2, Zenon DEF C

\* Setting nothing, and refusing, belong to every option.
LEMMA NothingOK ==
    ASSUME NEW code
    PROVE  AssignOK(<<>>, code) /\ AssignOK(Refused, code)
<1>1. AssignOK(<<>>, code)
  BY DEF AssignOK
<1>2. DOMAIN Refused = {"refused"} /\ Refused["refused"] = None
  BY DEF Refused, :>
<1>3. AssignOK(Refused, code)
  <2> HIDE DEF Refused
  <2> QED
    BY <1>2, Zenon DEF AssignOK
<1> QED
  BY <1>1, <1>3

\* An assignment that a blank argument leaves out still belongs to its option.
LEMMA IfGivenOK ==
    ASSUME NEW args, NEW i, NEW A, NEW code, AssignOK(A, code)
    PROVE  AssignOK(SetsIfGiven(args, i, A), code)
  BY NothingOK, Zenon DEF SetsIfGiven

\* Every option field has an owner.
LEMMA OptionFieldsAre == OptionFields = DOMAIN Owner
  BY DEF OptionFields, DefaultOptions, Owner

\* None and Some are told apart and read back.
LEMMA SomeIsOption ==
    /\ IsOption(None)
    /\ \A x : IsOption(Some(x)) /\ Some(x)[1] = x /\ Some(x) # None
<1>1. \A x : Some(x)[1] = x /\ Some(x) # None
  BY DEF Some, None
<1> QED
  BY <1>1, Zenon DEF IsOption

\* What the integer parsers return.
LEMMA IntegerOption ==
    ASSUME NEW raw, NEW low, NEW high
    PROVE  IsOption(parse_integer(raw, low, high))
  BY SomeIsOption, Zenon DEF parse_integer

\* A dimension is read as one that may not be set.
LEMMA DimensionOption ==
    ASSUME NEW raw
    PROVE  parse_dimension(raw) = None \/ IsOption(parse_dimension(raw)[1])
<1> DEFINE v == parse_unsigned(raw)
<1>1. IsOption(v)
  BY IntegerOption, Zenon DEF parse_unsigned
<1> HIDE DEF v
<1>2. parse_dimension(raw) = IF v = None THEN None ELSE Some(IF v[1] = 0 THEN None ELSE v)
  BY Zenon DEF parse_dimension, v
<1>3. CASE v # None /\ v[1] = 0
  BY <1>2, <1>3, SomeIsOption, Zenon
<1>4. CASE v # None /\ v[1] # 0
  BY <1>1, <1>2, <1>4, SomeIsOption, Zenon
<1> QED
  BY <1>2, <1>3, <1>4, Zenon

\* What the float parsers return.
LEMMA FloatOption ==
    ASSUME NEW raw
    PROVE  IsOption(parse_float(raw)) /\ IsOption(parse_positive_nonzero_float(raw))
<1>1. IsOption(parse_float(raw))
  BY SomeIsOption, Zenon DEF parse_float
<1> QED
  BY <1>1, SomeIsOption, Zenon DEF parse_positive_nonzero_float

\* What parse_bool returns.
LEMMA BoolFlag ==
    ASSUME NEW raw
    PROVE  IsFlag(parse_bool(raw)) /\ (parse_bool(raw) = None \/ parse_bool(raw)[1] \in BOOLEAN)
<1>1. parse_bool(raw) \in {None, Some(TRUE), Some(FALSE)}
  BY Zenon DEF parse_bool
<1>2. Some(TRUE)[1] \in BOOLEAN /\ Some(FALSE)[1] \in BOOLEAN
  BY DEF Some
<1> QED
  BY <1>1, <1>2, Zenon DEF IsFlag

\* What parse_hex_color returns.
LEMMA ColorOption ==
    ASSUME NEW raw
    PROVE  IsOption(parse_hex_color(raw))
  BY SomeIsOption, Zenon DEF parse_hex_color

\* Several arguments are read as a record with their names, or not at all.
LEMMA AllParsedFacts ==
    ASSUME NEW results
    PROVE  \/ AllParsed(results) = None
           \/ /\ AllParsed(results) = Some(AllParsed(results)[1])
              /\ RecordOver(AllParsed(results)[1], DOMAIN results)
              /\ DOMAIN AllParsed(results)[1] = DOMAIN results
              /\ \A n \in DOMAIN results :
                    results[n] # None /\ AllParsed(results)[1][n] = results[n][1]
<1> DEFINE r == [n \in DOMAIN results |-> results[n][1]]
<1>1. CASE \E n \in DOMAIN results : results[n] = None
  BY <1>1, Zenon DEF AllParsed
<1>2. CASE ~ \E n \in DOMAIN results : results[n] = None
  <2>1. AllParsed(results) = Some(r)
    BY <1>2, Zenon DEF AllParsed
  <2>2. DOMAIN r = DOMAIN results /\ \A n \in DOMAIN results : r[n] = results[n][1]
    BY Zenon
  <2>3. RecordOver(r, DOMAIN results)
    BY DEF RecordOver
  <2> HIDE DEF r
  <2>4. AllParsed(results)[1] = r
    BY <2>1, SomeIsOption, Zenon
  <2> QED
    BY <1>2, <2>1, <2>2, <2>3, <2>4, Zenon
<1> QED
  BY <1>1, <1>2, Zenon

\* What AllParsed returns.
LEMMA AllParsedOption ==
    ASSUME NEW results
    PROVE  IsOption(AllParsed(results))
  BY AllParsedFacts, Zenon DEF IsOption

\* What parse_background returns.
LEMMA BackgroundOption ==
    ASSUME NEW args
    PROVE  IsOption(parse_background(args))
<1>1. \/ parse_background(args) = AllParsed([i \in 1..3 |-> parse_bounded(args[i], 0, 255)])
      \/ parse_background(args) = parse_hex_color(args[1])
      \/ parse_background(args) = None
  BY DEF parse_background
<1> QED
  BY <1>1, AllParsedOption, ColorOption, SomeIsOption, Zenon

\* What parse_padding returns.
LEMMA PaddingRead ==
    ASSUME NEW args
    PROVE  IsPadding(parse_padding(args))
<1> DEFINE top == parse_unsigned(args[1])
           side(i, fallback) == IF Given(args, i) THEN parse_unsigned(args[i]) ELSE fallback
           right == side(2, top)
           results == [top |-> top, right |-> right, bottom |-> side(3, top),
                       left |-> side(4, right)]
<1>1. parse_padding(args) = None \/ parse_padding(args) = AllParsed(results)
  BY Zenon DEF parse_padding
<1>2. DOMAIN results = {"top", "right", "bottom", "left"}
  OBVIOUS
<1> HIDE DEF results
<1> QED
  BY <1>1, <1>2, AllParsedFacts, Zenon DEF IsPadding

\* What parse_trim returns.
LEMMA TrimRead ==
    ASSUME NEW args
    PROVE  IsTrim(parse_trim(args))
<1> DEFINE threshold == parse_float(args[1])
           color == IF ~Given(args, 2) THEN Some(None)
                    ELSE IF parse_hex_color(args[2]) = None THEN None
                    ELSE Some(parse_hex_color(args[2]))
           hor == ArgOr(args, 3, parse_bool(args[3]), FALSE)
           ver == ArgOr(args, 4, parse_bool(args[4]), FALSE)
           results == [threshold |-> threshold, color |-> color, equal_hor |-> hor,
                       equal_ver |-> ver]
<1>1. parse_trim(args) = None \/ parse_trim(args) = AllParsed(results)
  BY Zenon DEF parse_trim
<1>2. color = None \/ IsOption(color[1])
  BY SomeIsOption, ColorOption, Zenon
<1>3. ASSUME NEW i PROVE LET b == ArgOr(args, i, parse_bool(args[i]), FALSE)
                         IN  b = None \/ b[1] \in BOOLEAN
  <2>1. Some(FALSE)[1] \in BOOLEAN
    BY DEF Some
  <2> QED
    BY <2>1, BoolFlag, Zenon DEF ArgOr
<1>4. (hor = None \/ hor[1] \in BOOLEAN) /\ (ver = None \/ ver[1] \in BOOLEAN)
  BY <1>3, Zenon
<1> HIDE DEF threshold, color, hor, ver
<1>5. /\ DOMAIN results = {"threshold", "color", "equal_hor", "equal_ver"}
      /\ results["color"] = color /\ results["equal_hor"] = hor /\ results["equal_ver"] = ver
  OBVIOUS
<1> HIDE DEF results
<1>6. CASE parse_trim(args) # None
  <2> DEFINE t == AllParsed(results)
  <2>1. /\ t = Some(t[1]) /\ RecordOver(t[1], DOMAIN results)
        /\ \A n \in DOMAIN results : results[n] # None /\ t[1][n] = results[n][1]
    BY <1>1, <1>6, AllParsedFacts, Zenon
  <2> HIDE DEF t
  <2>2. /\ color # None /\ hor # None /\ ver # None
        /\ t[1].color = color[1] /\ t[1].equal_hor = hor[1] /\ t[1].equal_ver = ver[1]
    BY <2>1, <1>5, Zenon
  <2>3. IsTrim(t)
    BY <2>1, <2>2, <1>2, <1>4, <1>5, Zenon DEF IsTrim
  <2> QED
    BY <1>1, <1>6, <2>3, Zenon DEF t
<1> QED
  BY <1>6, Zenon DEF IsTrim

\* The kind a field has, for the kinds that a single option reads.
LEMMA KindOf ==
    ASSUME NEW f, NEW v
    PROVE  /\ f \in Optional /\ IsOption(v) => FieldOK(f, v)
           /\ f \in OptionalFlags /\ IsFlag(v) => FieldOK(f, v)
           /\ f \in {"flip_horizontal", "flip_vertical"} /\ v \in BOOLEAN => FieldOK(f, v)
           /\ f = "crop_raw" /\ IsCrop(v) => FieldOK(f, v)
           /\ f = "trim" /\ IsTrim(v) => FieldOK(f, v)
           /\ f = "padding" /\ IsPadding(v) => FieldOK(f, v)
           /\ f \in {"resize_type", "gravity", "rotate", "zoom_x", "zoom_y", "dpr",
                     "watermark_position", "watermark_x_offset", "watermark_y_offset",
                     "watermark_scale", "watermark_rotate"} => FieldOK(f, v)
  BY DEF FieldOK, Optional, OptionalFlags

\* An optional value, a flag that may be left open, a plain value.
LEMMA OptionalOK ==
    ASSUME NEW f \in Optional, NEW parsed, IsOption(parsed), NEW code, Owner[f] = code
    PROVE  AssignOK(SetsSome(f, parsed), code)
<1>1. f \in OptionFields
  BY OptionFieldsAre DEF Optional, Owner
<1> QED
  BY <1>1, KindOf, SetsSomeOK, Zenon

\* An option that sets a flag sets it to one.
LEMMA FlagOK ==
    ASSUME NEW f \in OptionalFlags, NEW parsed, IsFlag(parsed), NEW code, Owner[f] = code
    PROVE  AssignOK(SetsSome(f, parsed), code)
<1>1. f \in OptionFields
  BY OptionFieldsAre DEF OptionalFlags, Owner
<1> QED
  BY <1>1, KindOf, SetsSomeOK, Zenon

\* An option that sets a field which is always there.
LEMMA ValueOK ==
    ASSUME NEW f \in {"resize_type", "gravity", "rotate", "zoom_x", "zoom_y", "dpr",
                      "watermark_position", "watermark_x_offset", "watermark_y_offset",
                      "watermark_scale", "watermark_rotate"},
           NEW parsed, NEW code, Owner[f] = code
    PROVE  AssignOK(Sets(f, parsed), code)
<1>1. f \in OptionFields
  BY OptionFieldsAre DEF Owner
<1> QED
  BY <1>1, KindOf, SetsOK, Zenon

\* An option that sets a dimension.
LEMMA DimensionOK ==
    ASSUME NEW f \in Optional, NEW raw, NEW code, Owner[f] = code
    PROVE  AssignOK(Sets(f, parse_dimension(raw)), code)
<1>1. f \in OptionFields
  BY OptionFieldsAre DEF Optional, Owner
<1> QED
  BY <1>1, KindOf, DimensionOption, SetsOK, Zenon

\* Every option sets its own fields, each to a value of the field's kind
\* (one arm of ProcessingOptions::parse's match after the other).
LEMMA AssignmentOK ==
    ASSUME NEW code \in KnownOptions, NEW args
    PROVE  AssignOK(Assignment(code, args), code)
<1> DEFINE A == Assignment(code, args)
<1>o. /\ Optional \subseteq OptionFields /\ OptionalFlags \subseteq OptionFields
      /\ {"flip_horizontal", "flip_vertical", "crop_raw", "trim", "padding"} \subseteq OptionFields
  BY OptionFieldsAre DEF Optional, OptionalFlags, Owner
<1>r. AssignOK(Refused, code)
  BY NothingOK
<1>1. CASE code = "rs"
  <2>1. A \in {Refused, rs(args)}
    BY <1>1, Zenon DEF Assignment, Arity
  <2>2. Owner["resize_type"] = code /\ Owner["width"] = code /\ Owner["height"] = code
    BY <1>1 DEF Owner
  <2>3. "width" \in Optional /\ "height" \in Optional
    BY DEF Optional
  <2>4. AssignOK(Sets("resize_type", parse_resize_type(args[1])), code)
    BY <2>2, ValueOK, Zenon
  <2>5. /\ AssignOK(Sets("width", parse_dimension(args[2])), code)
        /\ AssignOK(Sets("height", parse_dimension(args[3])), code)
    BY <2>2, <2>3, DimensionOK, Zenon
  <2>6. AssignOK(rs(args), code)
    BY <2>4, <2>5, OverlayOK, Zenon DEF rs
  <2> QED
    BY <2>1, <2>6, <1>r, Zenon
<1>2. CASE code = "q"
  <2>1. A \in {Refused, SetsSome("quality", parse_bounded(args[1], 0, 100))}
    BY <1>2, Zenon DEF Assignment, Arity
  <2>2. Owner["quality"] = code /\ "quality" \in Optional
    BY <1>2 DEF Owner, Optional
  <2>3. AssignOK(SetsSome("quality", parse_bounded(args[1], 0, 100)), code)
    BY <2>2, OptionalOK, IntegerOption, Zenon DEF parse_bounded
  <2> QED
    BY <2>1, <2>3, <1>r, Zenon
<1>3. CASE code = "fq"
  <2>1. A \in {Refused, fq(args)}
    BY <1>3, Zenon DEF Assignment, Arity
  <2> DEFINE pairs == 1..(Len(args) \div 2)
             format(i) == args[2 * i - 1]
             quality(i) == parse_bounded(args[2 * i], 0, 100)
             of(names) == {i \in pairs : format(i) \in names}
             last(names) == CHOOSE i \in of(names) : \A j \in of(names) : j <= i
             set(field, names) ==
                 IF of(names) = {} THEN <<>> ELSE SetsSome(field, quality(last(names)))
  <2>2. /\ Owner["jpeg_quality"] = code /\ Owner["webp_quality"] = code
        /\ "jpeg_quality" \in Optional /\ "webp_quality" \in Optional
    BY <1>3 DEF Owner, Optional
  <2>3. \/ fq(args) = Refused
        \/ fq(args) = set("jpeg_quality", {"jpg", "jpeg"}) @@ set("webp_quality", {"webp"})
    BY Zenon DEF fq
  <2>4. ASSUME NEW i PROVE IsOption(quality(i))
    BY IntegerOption, Zenon DEF parse_bounded
  <2> HIDE DEF quality
  <2>5. AssignOK(SetsSome("jpeg_quality", quality(last({"jpg", "jpeg"}))), code)
    BY <2>2, <2>4, OptionalOK, Zenon
  <2>6. AssignOK(SetsSome("webp_quality", quality(last({"webp"}))), code)
    BY <2>2, <2>4, OptionalOK, Zenon
  <2> HIDE DEF last
  <2>7. AssignOK(set("jpeg_quality", {"jpg", "jpeg"}), code)
    BY <2>5, NothingOK, Zenon
  <2>8. AssignOK(set("webp_quality", {"webp"}), code)
    BY <2>6, NothingOK, Zenon
  <2> HIDE DEF set
  <2>9. AssignOK(fq(args), code)
    BY <2>3, <2>7, <2>8, <1>r, OverlayOK, Zenon
  <2> QED
    BY <2>1, <2>9, <1>r, Zenon
<1>4. CASE code = "webpo"
  <2>1. A \in {Refused, webpo(args)}
    BY <1>4, Zenon DEF Assignment, Arity
  <2> DEFINE p == CASE args[1] = "lossy" -> Some(Some(FALSE))
                    [] args[1] = "lossless" -> Some(Some(TRUE))
                    [] OTHER -> None
  <2>2. Owner["webp_lossless"] = code /\ "webp_lossless" \in OptionalFlags
    BY <1>4 DEF Owner, OptionalFlags
  <2>3. webpo(args) = Sets("webp_lossless", p)
    BY Zenon DEF webpo
  <2>4. p = None \/ IsFlag(p[1])
    BY SomeIsOption, Zenon DEF IsFlag
  <2> HIDE DEF p
  <2>5. AssignOK(webpo(args), code)
    BY <2>2, <2>3, <2>4, <1>o, KindOf, SetsOK, Zenon
  <2> QED
    BY <2>1, <2>5, <1>r, Zenon
<1>5. CASE code = "jpgo"
  <2>1. A \in {Refused, jpgo(args)}
    BY <1>5, Zenon DEF Assignment, Arity
  <2>2. /\ Owner["jpeg_progressive"] = code /\ Owner["jpeg_no_subsampling"] = code
        /\ "jpeg_progressive" \in OptionalFlags /\ "jpeg_no_subsampling" \in OptionalFlags
    BY <1>5 DEF Owner, OptionalFlags
  <2>3. /\ AssignOK(SetsSome("jpeg_progressive", parse_bool(args[1])), code)
        /\ AssignOK(SetsSome("jpeg_no_subsampling", parse_bool(args[2])), code)
    BY <2>2, BoolFlag, FlagOK, Zenon
  <2>4. AssignOK(jpgo(args), code)
    BY <2>3, <1>r, IfGivenOK, OverlayOK, Zenon DEF jpgo
  <2> QED
    BY <2>1, <2>4, <1>r, Zenon
<1>6. CASE code = "mb"
  <2>1. A \in {Refused, Sets("max_bytes", parse_dimension(args[1]))}
    BY <1>6, Zenon DEF Assignment, Arity
  <2>2. Owner["max_bytes"] = code /\ "max_bytes" \in Optional
    BY <1>6 DEF Owner, Optional
  <2>3. AssignOK(Sets("max_bytes", parse_dimension(args[1])), code)
    BY <2>2, DimensionOK, Zenon
  <2> QED
    BY <2>1, <2>3, <1>r, Zenon
<1>7. CASE code = "bl"
  <2>1. A \in {Refused, SetsSome("blur_sigma", parse_float(args[1]))}
    BY <1>7, Zenon DEF Assignment, Arity
  <2>2. Owner["blur_sigma"] = code /\ "blur_sigma" \in Optional
    BY <1>7 DEF Owner, Optional
  <2>3. AssignOK(SetsSome("blur_sigma", parse_float(args[1])), code)
    BY <2>2, OptionalOK, FloatOption, Zenon
  <2> QED
    BY <2>1, <2>3, <1>r, Zenon
<1>8. CASE code = "g"
  <2>1. A \in {Refused, SetsSome("grayscale", parse_bool(args[1]))}
    BY <1>8, Zenon DEF Assignment, Arity
  <2>2. Owner["grayscale"] = code /\ "grayscale" \in OptionalFlags
    BY <1>8 DEF Owner, OptionalFlags
  <2>3. AssignOK(SetsSome("grayscale", parse_bool(args[1])), code)
    BY <2>2, FlagOK, BoolFlag, Zenon
  <2> QED
    BY <2>1, <2>3, <1>r, Zenon
<1>9. CASE code = "el"
  <2>1. A \in {Refused, SetsSome("enlarge", parse_bool(args[1]))}
    BY <1>9, Zenon DEF Assignment, Arity
  <2>2. Owner["enlarge"] = code /\ "enlarge" \in OptionalFlags
    BY <1>9 DEF Owner, OptionalFlags
  <2>3. AssignOK(SetsSome("enlarge", parse_bool(args[1])), code)
    BY <2>2, FlagOK, BoolFlag, Zenon
  <2> QED
    BY <2>1, <2>3, <1>r, Zenon
<1>10. CASE code = "bg"
  <2>1. A \in {Refused, SetsSome("background", parse_background(args))}
    BY <1>10, Zenon DEF Assignment, Arity
  <2>2. Owner["background"] = code /\ "background" \in Optional
    BY <1>10 DEF Owner, Optional
  <2>3. AssignOK(SetsSome("background", parse_background(args)), code)
    BY <2>2, OptionalOK, BackgroundOption, Zenon
  <2> QED
    BY <2>1, <2>3, <1>r, Zenon
<1>11. CASE code = "ar"
  <2>1. A \in {Refused, SetsSome("autorotate", parse_bool(args[1]))}
    BY <1>11, Zenon DEF Assignment, Arity
  <2>2. Owner["autorotate"] = code /\ "autorotate" \in OptionalFlags
    BY <1>11 DEF Owner, OptionalFlags
  <2>3. AssignOK(SetsSome("autorotate", parse_bool(args[1])), code)
    BY <2>2, FlagOK, BoolFlag, Zenon
  <2> QED
    BY <2>1, <2>3, <1>r, Zenon
<1>12. CASE code = "sm"
  <2>1. A \in {Refused, SetsSome("strip_metadata", parse_bool(args[1]))}
    BY <1>12, Zenon DEF Assignment, Arity
  <2>2. Owner["strip_metadata"] = code /\ "strip_metadata" \in OptionalFlags
    BY <1>12 DEF Owner, OptionalFlags
  <2>3. AssignOK(SetsSome("strip_metadata", parse_bool(args[1])), code)
    BY <2>2, FlagOK, BoolFlag, Zenon
  <2> QED
    BY <2>1, <2>3, <1>r, Zenon
<1>13. CASE code = "c"
  <2>1. A \in {Refused, parse_crop(args)}
    BY <1>13, Zenon DEF Assignment, Arity
  <2> DEFINE gravity == parse_gravity(SubSeq(args, 3, Len(args)))
             results == [width |-> parse_crop_dimension(args[1]),
                         height |-> parse_crop_dimension(args[2]),
                         gravity |-> IF Len(args) = 2 THEN Some(None)
                                     ELSE IF gravity = None THEN None ELSE Some(gravity)]
  <2>2. Owner["crop_raw"] = code
    BY <1>13 DEF Owner
  <2>3. parse_crop(args) \in {Refused, SetsSome("crop_raw", AllParsed(results))}
    BY Zenon DEF parse_crop
  <2>4. DOMAIN results = {"width", "height", "gravity"}
    OBVIOUS
  <2> HIDE DEF results
  <2>5. IsCrop(AllParsed(results))
    BY <2>4, AllParsedFacts, Zenon DEF IsCrop
  <2>6. AssignOK(SetsSome("crop_raw", AllParsed(results)), code)
    BY <2>2, <2>5, <1>o, KindOf, SetsSomeOK, Zenon
  <2> QED
    BY <2>1, <2>3, <2>6, <1>r, Zenon
<1>14. CASE code = "gr"
  <2>1. A \in {Refused, Sets("gravity", IF args = <<>> THEN None ELSE parse_gravity(args))}
    BY <1>14, Zenon DEF Assignment, Arity
  <2>2. Owner["gravity"] = code
    BY <1>14 DEF Owner
  <2>3. AssignOK(Sets("gravity", IF args = <<>> THEN None ELSE parse_gravity(args)), code)
    BY <2>2, ValueOK, Zenon
  <2> QED
    BY <2>1, <2>3, <1>r, Zenon
<1>15. CASE code = "rot"
  <2>1. A \in {Refused, Sets("rotate", parse_rotate_angle(args[1]))}
    BY <1>15, Zenon DEF Assignment, Arity
  <2>2. Owner["rotate"] = code
    BY <1>15 DEF Owner
  <2>3. AssignOK(Sets("rotate", parse_rotate_angle(args[1])), code)
    BY <2>2, ValueOK, Zenon
  <2> QED
    BY <2>1, <2>3, <1>r, Zenon
<1>16. CASE code = "fl"
  <2>1. A \in {Refused, fl(args)}
    BY <1>16, Zenon DEF Assignment, Arity
  <2>2. Owner["flip_horizontal"] = code /\ Owner["flip_vertical"] = code
    BY <1>16 DEF Owner
  <2>3. /\ AssignOK(Sets("flip_horizontal", parse_bool(args[1])), code)
        /\ AssignOK(Sets("flip_vertical", parse_bool(args[2])), code)
    BY <2>2, <1>o, BoolFlag, KindOf, SetsOK, Zenon
  <2>4. AssignOK(fl(args), code)
    BY <2>3, <1>r, IfGivenOK, OverlayOK, Zenon DEF fl
  <2> QED
    BY <2>1, <2>4, <1>r, Zenon
<1>17. CASE code = "t"
  <2>1. A \in {Refused, SetsSome("trim", parse_trim(args))}
    BY <1>17, Zenon DEF Assignment, Arity
  <2>2. Owner["trim"] = code
    BY <1>17 DEF Owner
  <2>3. AssignOK(SetsSome("trim", parse_trim(args)), code)
    BY <2>2, <1>o, TrimRead, KindOf, SetsSomeOK, Zenon
  <2> QED
    BY <2>1, <2>3, <1>r, Zenon
<1>18. CASE code = "ex"
  <2>1. A \in {Refused, SetsSome("extend", parse_bool(args[1]))}
    BY <1>18, Zenon DEF Assignment, Arity
  <2>2. Owner["extend"] = code /\ "extend" \in OptionalFlags
    BY <1>18 DEF Owner, OptionalFlags
  <2>3. AssignOK(SetsSome("extend", parse_bool(args[1])), code)
    BY <2>2, FlagOK, BoolFlag, Zenon
  <2> QED
    BY <2>1, <2>3, <1>r, Zenon
<1>19. CASE code = "pd"
  <2>1. A \in {Refused, SetsSome("padding", parse_padding(args))}
    BY <1>19, Zenon DEF Assignment, Arity
  <2>2. Owner["padding"] = code
    BY <1>19 DEF Owner
  <2>3. AssignOK(SetsSome("padding", parse_padding(args)), code)
    BY <2>2, <1>o, PaddingRead, KindOf, SetsSomeOK, Zenon
  <2> QED
    BY <2>1, <2>3, <1>r, Zenon
<1>20. CASE code = "z"
  <2> DEFINE x == Sets("zoom_x", Some(parse_zoom(args)[1].zoom_x))
             y == Sets("zoom_y", Some(parse_zoom(args)[1].zoom_y))
  <2>1. A \in {Refused, x @@ y}
    BY <1>20, Zenon DEF Assignment, Arity
  <2>2. Owner["zoom_x"] = code /\ Owner["zoom_y"] = code
    BY <1>20 DEF Owner
  <2>3. AssignOK(x, code) /\ AssignOK(y, code)
    BY <2>2, ValueOK, Zenon
  <2> QED
    BY <2>1, <2>3, <1>r, OverlayOK, Zenon
<1>21. CASE code = "dpr"
  <2>1. A \in {Refused, Sets("dpr", parse_positive_nonzero_float(args[1]))}
    BY <1>21, Zenon DEF Assignment, Arity
  <2>2. Owner["dpr"] = code
    BY <1>21 DEF Owner
  <2>3. AssignOK(Sets("dpr", parse_positive_nonzero_float(args[1])), code)
    BY <2>2, ValueOK, Zenon
  <2> QED
    BY <2>1, <2>3, <1>r, Zenon
<1>22. CASE code = "mw"
  <2>1. A \in {Refused, Sets("min_width", parse_dimension(args[1]))}
    BY <1>22, Zenon DEF Assignment, Arity
  <2>2. Owner["min_width"] = code /\ "min_width" \in Optional
    BY <1>22 DEF Owner, Optional
  <2>3. AssignOK(Sets("min_width", parse_dimension(args[1])), code)
    BY <2>2, DimensionOK, Zenon
  <2> QED
    BY <2>1, <2>3, <1>r, Zenon
<1>23. CASE code = "mh"
  <2>1. A \in {Refused, Sets("min_height", parse_dimension(args[1]))}
    BY <1>23, Zenon DEF Assignment, Arity
  <2>2. Owner["min_height"] = code /\ "min_height" \in Optional
    BY <1>23 DEF Owner, Optional
  <2>3. AssignOK(Sets("min_height", parse_dimension(args[1])), code)
    BY <2>2, DimensionOK, Zenon
  <2> QED
    BY <2>1, <2>3, <1>r, Zenon
<1>24. CASE code = "wm"
  <2>1. A \in {Refused, parse_watermark(args)}
    BY <1>24, Zenon DEF Assignment, Arity
  <2>2. /\ Owner["watermark_opacity"] = code /\ Owner["watermark_position"] = code
        /\ Owner["watermark_x_offset"] = code /\ Owner["watermark_y_offset"] = code
        /\ Owner["watermark_scale"] = code /\ "watermark_opacity" \in Optional
    BY <1>24 DEF Owner, Optional
  <2>3. AssignOK(SetsSome("watermark_opacity", parse_float(args[1])), code)
    BY <2>2, OptionalOK, FloatOption, Zenon
  <2>4. /\ AssignOK(Sets("watermark_position", parse_watermark_position(args[2])), code)
        /\ AssignOK(Sets("watermark_x_offset", parse_float(args[3])), code)
        /\ AssignOK(Sets("watermark_y_offset", parse_float(args[4])), code)
        /\ AssignOK(Sets("watermark_scale", parse_float(args[5])), code)
    BY <2>2, ValueOK, Zenon
  <2>5. AssignOK(parse_watermark(args), code)
    BY <2>3, <2>4, <1>r, IfGivenOK, OverlayOK, Zenon DEF parse_watermark
  <2> QED
    BY <2>1, <2>5, <1>r, Zenon
<1>25. CASE code = "wmu"
  <2>1. A \in {Refused, wmu(args)}
    BY <1>25, Zenon DEF Assignment, Arity
  <2> DEFINE p == IF args[1] \in DOMAIN Base64Text THEN Some(Base64Text[args[1]]) ELSE None
  <2>2. Owner["watermark_url"] = code /\ "watermark_url" \in Optional
    BY <1>25 DEF Owner, Optional
  <2>3. IsOption(p) /\ wmu(args) = SetsSome("watermark_url", p)
    BY SomeIsOption, Zenon DEF wmu
  <2> HIDE DEF p
  <2>4. AssignOK(wmu(args), code)
    BY <2>2, <2>3, OptionalOK, Zenon
  <2> QED
    BY <2>1, <2>4, <1>r, Zenon
<1>26. CASE code = "wms"
  <2>1. A \in {Refused, wms(args)}
    BY <1>26, Zenon DEF Assignment, Arity
  <2>2. Owner["watermark_size"] = code /\ "watermark_size" \in Optional
    BY <1>26 DEF Owner, Optional
  <2>3. AssignOK(wms(args), code)
    BY <2>2, OptionalOK, AllParsedOption, Zenon DEF wms
  <2> QED
    BY <2>1, <2>3, <1>r, Zenon
<1>27. CASE code = "wmr"
  <2>1. A \in {Refused, Sets("watermark_rotate", parse_float(args[1]))}
    BY <1>27, Zenon DEF Assignment, Arity
  <2>2. Owner["watermark_rotate"] = code
    BY <1>27 DEF Owner
  <2>3. AssignOK(Sets("watermark_rotate", parse_float(args[1])), code)
    BY <2>2, ValueOK, Zenon
  <2> QED
    BY <2>1, <2>3, <1>r, Zenon
<1>28. CASE code = "wmsh"
  <2>1. A \in {Refused, SetsSome("watermark_shadow", parse_float(args[1]))}
    BY <1>28, Zenon DEF Assignment, Arity
  <2>2. Owner["watermark_shadow"] = code /\ "watermark_shadow" \in Optional
    BY <1>28 DEF Owner, Optional
  <2>3. AssignOK(SetsSome("watermark_shadow", parse_float(args[1])), code)
    BY <2>2, OptionalOK, FloatOption, Zenon
  <2> QED
    BY <2>1, <2>3, <1>r, Zenon
<1>29. code \in {"rs", "q", "fq", "webpo", "jpgo", "mb", "bl", "g", "el", "bg", "ar", "sm", "c", "gr",
              "rot", "fl", "t", "ex", "pd", "z", "dpr", "mw", "mh", "wm", "wmu", "wms", "wmr", "wmsh"}
  BY DEF KnownOptions, Arity
<1> QED
  BY <1>1, <1>2, <1>3, <1>4, <1>5, <1>6, <1>7, <1>8, <1>9, <1>10, <1>11, <1>12, <1>13,
     <1>14, <1>15, <1>16, <1>17, <1>18, <1>19, <1>20, <1>21, <1>22, <1>23, <1>24, <1>25,
     <1>26, <1>27, <1>28, <1>29, Zenon

-----------------------------------------------------------------------------
(* The key.  Crop, trim and watermark are one field when there is none, and  *)
(* three, four and nine fields when there is: no two of the eight sums       *)
(* agree, so the number of fields says which of them are there, and then     *)
(* where every field of the key is.                                          *)

WatermarkParts == {"opacity", "position", "x_offset", "y_offset", "scale", "url", "size",
                   "rotate", "shadow"}

IsWatermark(v) ==
    v = None \/ /\ v = Some(v[1])
                /\ RecordOver(v[1], WatermarkParts)
                /\ IsOption(v[1].url) /\ IsOption(v[1].size) /\ IsOption(v[1].shadow)

\* A query as into_resize_query builds it.
QueryOK(q) ==
    /\ DOMAIN q = DOMAIN NoQuery
    /\ \A f \in {"width", "height", "blur_sigma", "quality", "jpeg_quality", "webp_quality",
                 "max_bytes", "background", "min_width", "min_height"} : IsOption(q[f])
    /\ \A f \in {"grayscale", "webp_lossless", "jpeg_progressive", "jpeg_no_subsampling"} :
          IsFlag(q[f])
    /\ \A f \in {"enlarge", "extend", "autorotate", "strip_metadata", "flip_horizontal",
                 "flip_vertical"} : q[f] \in BOOLEAN
    /\ IsCrop(q.crop) /\ IsTrim(q.trim) /\ IsPadding(q.padding) /\ IsWatermark(q.watermark)

\* A sequence, of whatever.
IsSequence(s) == \E T : s \in Seq(T)

\* Fields printed alike are the same value.
LEMMA FieldsInjective ==
    ASSUME NEW a, NEW b
    PROVE  /\ TextField(a) = TextField(b) => a = b
           /\ NumberField(a) = NumberField(b) => a = b
           /\ RawField(a) = RawField(b) => a = b
           /\ NumberField(a) # TextField(b) /\ RawField(a) # TextField(b)
           /\ a \in BOOLEAN /\ b \in BOOLEAN /\ BoolField(a) = BoolField(b) => a = b
<1>1. BoolField(TRUE) # BoolField(FALSE)
  BY DEF BoolField, TextField
<1>2. a \in BOOLEAN /\ b \in BOOLEAN /\ BoolField(a) = BoolField(b) => a = b
  <2> SUFFICES ASSUME a \in BOOLEAN, b \in BOOLEAN, BoolField(a) = BoolField(b)
               PROVE  a = b
    OBVIOUS
  <2>1. \A x, y : <<x>> = <<y>> => x = y
    OBVIOUS
  <2>2. (IF a THEN "true" ELSE "false") = (IF b THEN "true" ELSE "false")
    BY <2>1, Zenon DEF BoolField, TextField
  <2>3. a <=> b
    BY <2>2
  <2> QED
    BY <2>3
<1> QED
  BY <1>2 DEF TextField, NumberField, RawField

\* An optional field is read back from its bytes, but for a text spelled None.
LEMMA OptionsInjective ==
    ASSUME NEW a, NEW b
    PROVE  /\ IsOption(a) /\ IsOption(b) /\ NumberOrNone(a) = NumberOrNone(b) => a = b
           /\ IsOption(a) /\ IsOption(b) /\ RawOrNone(a) = RawOrNone(b) => a = b
           /\ IsFlag(a) /\ IsFlag(b) /\ BoolOrNone(a) = BoolOrNone(b) => a = b
           /\ IsOption(a) /\ IsOption(b) /\ TextOrNone(a) = TextOrNone(b) =>
                 a = b \/ Some("None") \in {a, b}
<1>1. IsOption(a) /\ IsOption(b) /\ NumberOrNone(a) = NumberOrNone(b) => a = b
  BY FieldsInjective, Zenon DEF IsOption, NumberOrNone
<1>2. IsOption(a) /\ IsOption(b) /\ RawOrNone(a) = RawOrNone(b) => a = b
  BY FieldsInjective, Zenon DEF IsOption, RawOrNone
<1>3. IsFlag(a) /\ IsFlag(b) /\ BoolOrNone(a) = BoolOrNone(b) => a = b
  <2>1. /\ BoolOrNone(None) = TextField("None")
        /\ BoolOrNone(Some(TRUE)) = TextField("true")
        /\ BoolOrNone(Some(FALSE)) = TextField("false")
    BY DEF BoolOrNone, BoolField, Some, None
  <2>2. /\ TextField("None") # TextField("true") /\ TextField("None") # TextField("false")
        /\ TextField("true") # TextField("false")
    BY DEF TextField
  <2> QED
    <3>1. CASE a = None
      BY <3>1, <2>1, <2>2 DEF IsFlag
    <3>2. CASE a = Some(TRUE)
      BY <3>2, <2>1, <2>2 DEF IsFlag
    <3>3. CASE a = Some(FALSE)
      BY <3>3, <2>1, <2>2 DEF IsFlag
    <3> QED
      BY <3>1, <3>2, <3>3 DEF IsFlag
<1>4. IsOption(a) /\ IsOption(b) /\ TextOrNone(a) = TextOrNone(b) =>
         a = b \/ Some("None") \in {a, b}
  BY FieldsInjective, Zenon DEF IsOption, TextOrNone
<1> QED
  BY <1>1, <1>2, <1>3, <1>4, Zenon

\* Concatenation, for the provers to leave alone.
Joined(s, t) == s \o t

\* What a concatenation is made of.
LEMMA ConcatLength ==
    ASSUME NEW a, NEW b, IsSequence(a), IsSequence(b)
    PROVE  /\ IsSequence(Joined(a, b)) /\ Len(Joined(a, b)) = Len(a) + Len(b)
           /\ Len(a) \in Nat /\ Len(b) \in Nat
           /\ \A i \in 1..Len(a) : Joined(a, b)[i] = a[i]
           /\ \A i \in 1..Len(b) : Joined(a, b)[Len(a) + i] = b[i]
<1>1. PICK A : a \in Seq(A)
  BY DEF IsSequence
<1>2. PICK B : b \in Seq(B)
  BY DEF IsSequence
<1>3. a \in Seq(A \cup B) /\ b \in Seq(A \cup B)
  BY <1>1, <1>2
<1>4. /\ a \o b \in Seq(A \cup B) /\ Len(a \o b) = Len(a) + Len(b)
      /\ Len(a) \in Nat /\ Len(b) \in Nat
  BY <1>3
<1>5. \A i \in 1..Len(a) : (a \o b)[i] = a[i]
  BY <1>3
<1>6. \A i \in 1..Len(b) : (a \o b)[Len(a) + i] = b[i]
  BY <1>3, <1>4
<1> QED
  BY <1>4, <1>5, <1>6 DEF IsSequence, Joined

\* Sequences with the same elements in the same places are the same.
LEMMA SameElements ==
    ASSUME NEW s, NEW t, IsSequence(s), IsSequence(t), Len(s) = Len(t),
           \A k \in 1..Len(s) : s[k] = t[k]
    PROVE  s = t
<1>1. PICK A : s \in Seq(A)
  BY DEF IsSequence
<1>2. PICK B : t \in Seq(B)
  BY DEF IsSequence
<1>3. s \in Seq(A \cup B) /\ t \in Seq(A \cup B)
  BY <1>1, <1>2
<1> QED
  BY <1>3

\* Two concatenations agree where their right parts are equally long only if
\* both parts do.
LEMMA ConcatInjective ==
    ASSUME NEW a, NEW b, NEW c, NEW d, IsSequence(a), IsSequence(b), IsSequence(c),
           IsSequence(d), Len(b) = Len(d), Joined(a, b) = Joined(c, d)
    PROVE  a = c /\ b = d
<1> DEFINE ab == Joined(a, b)
           cd == Joined(c, d)
<1>1. ab = cd
  OBVIOUS
<1>2. /\ Len(ab) = Len(a) + Len(b) /\ Len(a) \in Nat /\ Len(b) \in Nat
      /\ \A i \in 1..Len(a) : ab[i] = a[i]
      /\ \A i \in 1..Len(b) : ab[Len(a) + i] = b[i]
  BY ConcatLength
<1>3. /\ Len(cd) = Len(c) + Len(d) /\ Len(c) \in Nat /\ Len(d) \in Nat
      /\ \A i \in 1..Len(c) : cd[i] = c[i]
      /\ \A i \in 1..Len(d) : cd[Len(c) + i] = d[i]
  BY ConcatLength
<1> HIDE DEF ab, cd
<1>4. Len(a) = Len(c)
  BY <1>1, <1>2, <1>3
<1>5. \A i \in 1..Len(a) : a[i] = c[i]
  BY <1>1, <1>2, <1>3, <1>4, Zenon
<1>6. \A i \in 1..Len(b) : b[i] = d[i]
  BY <1>1, <1>2, <1>3, <1>4, Zenon
<1> QED
  BY <1>4, <1>5, <1>6, SameElements, Zenon

\* How long the parts of a key are.
LEMMA PartLengths ==
    ASSUME NEW q
    PROVE  /\ IsSequence(SizeFields(q)) /\ Len(SizeFields(q)) = 18
           /\ IsSequence(TurnFields(q)) /\ Len(TurnFields(q)) = 3
           /\ IsSequence(CanvasFields(q)) /\ Len(CanvasFields(q)) = 8
           /\ IsSequence(CropFields(q.crop))
           /\ Len(CropFields(q.crop)) = IF q.crop = None THEN 1 ELSE 3
           /\ IsSequence(TrimFields(q.trim))
           /\ Len(TrimFields(q.trim)) = IF q.trim = None THEN 1 ELSE 4
           /\ IsSequence(WatermarkFields(q.watermark))
           /\ Len(WatermarkFields(q.watermark)) = IF q.watermark = None THEN 1 ELSE 9
<1>1. ASSUME NEW a1, NEW a2, NEW a3, NEW a4, NEW a5, NEW a6, NEW a7, NEW a8, NEW a9,
             NEW a10, NEW a11, NEW a12, NEW a13, NEW a14, NEW a15, NEW a16, NEW a17, NEW a18
      PROVE  /\ IsSequence(<<a1>>) /\ Len(<<a1>>) = 1
             /\ IsSequence(<<a1, a2, a3>>) /\ Len(<<a1, a2, a3>>) = 3
             /\ IsSequence(<<a1, a2, a3, a4>>) /\ Len(<<a1, a2, a3, a4>>) = 4
             /\ IsSequence(<<a1, a2, a3, a4, a5, a6, a7, a8>>)
             /\ Len(<<a1, a2, a3, a4, a5, a6, a7, a8>>) = 8
             /\ IsSequence(<<a1, a2, a3, a4, a5, a6, a7, a8, a9>>)
             /\ Len(<<a1, a2, a3, a4, a5, a6, a7, a8, a9>>) = 9
             /\ IsSequence(<<a1, a2, a3, a4, a5, a6, a7, a8, a9, a10, a11, a12, a13, a14, a15,
                             a16, a17, a18>>)
             /\ Len(<<a1, a2, a3, a4, a5, a6, a7, a8, a9, a10, a11, a12, a13, a14, a15, a16,
                      a17, a18>>) = 18
  <2> DEFINE T == {a1, a2, a3, a4, a5, a6, a7, a8, a9, a10, a11, a12, a13, a14, a15, a16, a17,
                   a18}
  <2>1. <<a1>> \in Seq(T) /\ <<a1, a2, a3>> \in Seq(T) /\ <<a1, a2, a3, a4>> \in Seq(T)
    OBVIOUS
  <2>2. <<a1, a2, a3, a4, a5, a6, a7, a8>> \in Seq(T)
    OBVIOUS
  <2>3. <<a1, a2, a3, a4, a5, a6, a7, a8, a9>> \in Seq(T)
    OBVIOUS
  <2>4. <<a1, a2, a3, a4, a5, a6, a7, a8, a9, a10, a11, a12, a13, a14, a15, a16, a17, a18>>
           \in Seq(T)
    OBVIOUS
  <2>5. \A s : s \in Seq(T) => IsSequence(s)
    BY Zenon DEF IsSequence
  <2> HIDE DEF T
  <2> QED
    BY <2>1, <2>2, <2>3, <2>4, <2>5
<1>2. IsSequence(SizeFields(q)) /\ Len(SizeFields(q)) = 18
  BY <1>1, Zenon DEF SizeFields
<1>3. IsSequence(TurnFields(q)) /\ Len(TurnFields(q)) = 3
  BY <1>1, Zenon DEF TurnFields
<1>4. IsSequence(CanvasFields(q)) /\ Len(CanvasFields(q)) = 8
  BY <1>1, Zenon DEF CanvasFields
<1>5. /\ IsSequence(CropFields(q.crop))
      /\ Len(CropFields(q.crop)) = IF q.crop = None THEN 1 ELSE 3
  BY <1>1, Zenon DEF CropFields
<1>6. /\ IsSequence(TrimFields(q.trim))
      /\ Len(TrimFields(q.trim)) = IF q.trim = None THEN 1 ELSE 4
  BY <1>1, Zenon DEF TrimFields
<1>7. /\ IsSequence(WatermarkFields(q.watermark))
      /\ Len(WatermarkFields(q.watermark)) = IF q.watermark = None THEN 1 ELSE 9
  BY <1>1, Zenon DEF WatermarkFields
<1> QED
  BY <1>2, <1>3, <1>4, <1>5, <1>6, <1>7, Zenon

\* Six parts, put together from the left.
SixJoined(S, C, T, R, W, V) == Joined(Joined(Joined(Joined(Joined(S, C), T), R), W), V)

\* The prefixes of a six-part sequence and how long it is.
LEMMA SixParts ==
    ASSUME NEW S, NEW C, NEW T, NEW R, NEW W, NEW V, IsSequence(S), IsSequence(C),
           IsSequence(T), IsSequence(R), IsSequence(W), IsSequence(V)
    PROVE  /\ IsSequence(Joined(S, C)) /\ IsSequence(Joined(Joined(S, C), T))
           /\ IsSequence(Joined(Joined(Joined(S, C), T), R))
           /\ IsSequence(Joined(Joined(Joined(Joined(S, C), T), R), W))
           /\ Len(SixJoined(S, C, T, R, W, V))
                 = Len(S) + Len(C) + Len(T) + Len(R) + Len(W) + Len(V)
<1> DEFINE SC == Joined(S, C)
           ST == Joined(SC, T)
           SR == Joined(ST, R)
           SW == Joined(SR, W)
<1>1. IsSequence(SC) /\ Len(SC) = Len(S) + Len(C)
  BY ConcatLength
<1>2. IsSequence(ST) /\ Len(ST) = Len(SC) + Len(T)
  BY <1>1, ConcatLength
<1>3. IsSequence(SR) /\ Len(SR) = Len(ST) + Len(R)
  BY <1>2, ConcatLength
<1>4. IsSequence(SW) /\ Len(SW) = Len(SR) + Len(W)
  BY <1>3, ConcatLength
<1>5. Len(Joined(SW, V)) = Len(SW) + Len(V)
  BY <1>4, ConcatLength
<1> QED
  BY <1>1, <1>2, <1>3, <1>4, <1>5, Zenon DEF SixJoined

\* Six-part sequences whose parts are equally long are equal part by part.
LEMMA SixPartsInjective ==
    ASSUME NEW S1, NEW C1, NEW T1, NEW R1, NEW W1, NEW V1, IsSequence(S1), IsSequence(C1),
           IsSequence(T1), IsSequence(R1), IsSequence(W1), IsSequence(V1),
           NEW S2, NEW C2, NEW T2, NEW R2, NEW W2, NEW V2, IsSequence(S2), IsSequence(C2),
           IsSequence(T2), IsSequence(R2), IsSequence(W2), IsSequence(V2),
           Len(C1) = Len(C2), Len(T1) = Len(T2), Len(R1) = Len(R2), Len(W1) = Len(W2),
           Len(V1) = Len(V2),
           SixJoined(S1, C1, T1, R1, W1, V1) = SixJoined(S2, C2, T2, R2, W2, V2)
    PROVE  S1 = S2 /\ C1 = C2 /\ T1 = T2 /\ R1 = R2 /\ W1 = W2 /\ V1 = V2
<1> DEFINE SC1 == Joined(S1, C1)
           ST1 == Joined(SC1, T1)
           SR1 == Joined(ST1, R1)
           SW1 == Joined(SR1, W1)
           SC2 == Joined(S2, C2)
           ST2 == Joined(SC2, T2)
           SR2 == Joined(ST2, R2)
           SW2 == Joined(SR2, W2)
<1>1. IsSequence(SC1) /\ IsSequence(ST1) /\ IsSequence(SR1) /\ IsSequence(SW1)
  BY SixParts
<1>2. IsSequence(SC2) /\ IsSequence(ST2) /\ IsSequence(SR2) /\ IsSequence(SW2)
  BY SixParts
<1>3. SW1 = SW2 /\ V1 = V2
  <2>1. Joined(SW1, V1) = Joined(SW2, V2)
    BY Zenon DEF SixJoined
  <2> QED
    BY <1>1, <1>2, <2>1, ConcatInjective
<1>4. SR1 = SR2 /\ W1 = W2
  BY <1>1, <1>2, <1>3, ConcatInjective
<1>5. ST1 = ST2 /\ R1 = R2
  BY <1>1, <1>2, <1>4, ConcatInjective
<1>6. SC1 = SC2 /\ T1 = T2
  BY <1>1, <1>2, <1>5, ConcatInjective
<1>7. S1 = S2 /\ C1 = C2
  BY <1>6, ConcatInjective
<1> QED
  BY <1>3, <1>4, <1>5, <1>6, <1>7, Zenon

\* Equal keys are equal part by part: their lengths tell the parts apart.
LEMMA KeyParts ==
    ASSUME NEW p, NEW q, generate_key(p) = generate_key(q)
    PROVE  /\ SizeFields(p) = SizeFields(q)
           /\ CropFields(p.crop) = CropFields(q.crop)
           /\ TurnFields(p) = TurnFields(q)
           /\ TrimFields(p.trim) = TrimFields(q.trim)
           /\ WatermarkFields(p.watermark) = WatermarkFields(q.watermark)
           /\ CanvasFields(p) = CanvasFields(q)
<1> DEFINE S1 == SizeFields(p)
           C1 == CropFields(p.crop)
           T1 == TurnFields(p)
           R1 == TrimFields(p.trim)
           W1 == WatermarkFields(p.watermark)
           V1 == CanvasFields(p)
           S2 == SizeFields(q)
           C2 == CropFields(q.crop)
           T2 == TurnFields(q)
           R2 == TrimFields(q.trim)
           W2 == WatermarkFields(q.watermark)
           V2 == CanvasFields(q)
<1>1. /\ IsSequence(S1) /\ IsSequence(C1) /\ IsSequence(T1) /\ IsSequence(R1)
      /\ IsSequence(W1) /\ IsSequence(V1) /\ Len(S1) = 18 /\ Len(C1) \in {1, 3}
      /\ Len(T1) = 3 /\ Len(R1) \in {1, 4} /\ Len(W1) \in {1, 9} /\ Len(V1) = 8
  BY PartLengths
<1>2. /\ IsSequence(S2) /\ IsSequence(C2) /\ IsSequence(T2) /\ IsSequence(R2)
      /\ IsSequence(W2) /\ IsSequence(V2) /\ Len(S2) = 18 /\ Len(C2) \in {1, 3}
      /\ Len(T2) = 3 /\ Len(R2) \in {1, 4} /\ Len(W2) \in {1, 9} /\ Len(V2) = 8
  BY PartLengths
<1>3. SixJoined(S1, C1, T1, R1, W1, V1) = SixJoined(S2, C2, T2, R2, W2, V2)
  BY Zenon DEF generate_key, SixJoined, Joined
<1> HIDE DEF S1, C1, T1, R1, W1, V1, S2, C2, T2, R2, W2, V2
<1>4. Len(C1) = Len(C2) /\ Len(R1) = Len(R2) /\ Len(W1) = Len(W2)
  <2>1. /\ IsSequence(S1) /\ IsSequence(C1) /\ IsSequence(T1) /\ IsSequence(R1)
        /\ IsSequence(W1) /\ IsSequence(V1)
    BY <1>1
  <2>2. Len(SixJoined(S1, C1, T1, R1, W1, V1))
           = Len(S1) + Len(C1) + Len(T1) + Len(R1) + Len(W1) + Len(V1)
    BY <2>1, SixParts
  <2>3. /\ IsSequence(S2) /\ IsSequence(C2) /\ IsSequence(T2) /\ IsSequence(R2)
        /\ IsSequence(W2) /\ IsSequence(V2)
    BY <1>2
  <2>4. Len(SixJoined(S2, C2, T2, R2, W2, V2))
           = Len(S2) + Len(C2) + Len(T2) + Len(R2) + Len(W2) + Len(V2)
    BY <2>3, SixParts
  <2>5. 18 + Len(C1) + 3 + Len(R1) + Len(W1) + 8 = 18 + Len(C2) + 3 + Len(R2) + Len(W2) + 8
    BY <1>1, <1>2, <1>3, <2>2, <2>4, Zenon
  <2> DEFINE Cs == {1, 3}
             Rs == {1, 4}
             Ws == {1, 9}
             Sum(c, r, w) == 18 + c + 3 + r + w + 8
  <2>6. Len(C1) \in Cs /\ Len(R1) \in Rs /\ Len(W1) \in Ws
    BY <1>1
  <2>7. Len(C2) \in Cs /\ Len(R2) \in Rs /\ Len(W2) \in Ws
    BY <1>2
  <2>8. \A c, d \in Cs : \A r, t \in Rs : \A v, w \in Ws :
           Sum(c, r, v) = Sum(d, t, w) => c = d /\ r = t /\ v = w
    OBVIOUS
  <2>9. Sum(Len(C1), Len(R1), Len(W1)) = Sum(Len(C2), Len(R2), Len(W2))
    BY <2>5
  <2> HIDE DEF Cs, Rs, Ws, Sum
  <2> QED
    BY <2>6, <2>7, <2>8, <2>9
<1>5. S1 = S2 /\ C1 = C2 /\ T1 = T2 /\ R1 = R2 /\ W1 = W2 /\ V1 = V2
  BY <1>1, <1>2, <1>3, <1>4, SixPartsInjective
<1> QED
  BY <1>5 DEF S1, C1, T1, R1, W1, V1, S2, C2, T2, R2, W2, V2

\* Records over the same fields that agree on them are the same.
LEMMA SameRecord ==
    ASSUME NEW r, NEW s, NEW fields, RecordOver(r, fields), RecordOver(s, fields),
           \A f \in fields : r[f] = s[f]
    PROVE  r = s
<1>1. [f \in fields |-> r[f]] = [f \in fields |-> s[f]]
  OBVIOUS
<1> QED
  BY <1>1, Zenon DEF RecordOver

\* A crop, a trim and a padding are read back from their fields.
LEMMA CropInjective ==
    ASSUME NEW a, NEW b, IsCrop(a), IsCrop(b), CropFields(a) = CropFields(b)
    PROVE  a = b
<1>1. (a = None) <=> (b = None)
  <2>1. \A x, y, z, t : <<x>> # <<y, z, t>>
    OBVIOUS
  <2> QED
    BY <2>1, Zenon DEF CropFields
<1>2. CASE a # None
  <2>1. <<a[1].width, a[1].height, a[1].gravity>> = <<b[1].width, b[1].height, b[1].gravity>>
    BY <1>1, <1>2, Zenon DEF CropFields
  <2>2. a[1].width = b[1].width /\ a[1].height = b[1].height /\ a[1].gravity = b[1].gravity
    BY <2>1
  <2>3. \A f \in {"width", "height", "gravity"} : a[1][f] = b[1][f]
    BY <2>2, Zenon
  <2>4. a[1] = b[1]
    <3>1. RecordOver(a[1], {"width", "height", "gravity"}) /\ RecordOver(b[1], {"width", "height", "gravity"})
      BY <1>1, <1>2, Zenon DEF IsCrop
    <3> QED
      BY <3>1, <2>3, SameRecord
  <2> QED
    BY <1>1, <1>2, <2>4, Zenon DEF IsCrop
<1> QED
  BY <1>1, <1>2, Zenon

\* trim is read back from its fields.
LEMMA TrimInjective ==
    ASSUME NEW a, NEW b, IsTrim(a), IsTrim(b), TrimFields(a) = TrimFields(b)
    PROVE  a = b
<1>1. (a = None) <=> (b = None)
  <2>1. \A w, x, y, z, t : <<w>> # <<x, y, z, t>>
    OBVIOUS
  <2> QED
    BY <2>1, Zenon DEF TrimFields
<1>2. CASE a # None
  <2>0. IsTrim(a) /\ IsTrim(b) /\ b # None
    BY <1>1, <1>2
  <2>1. <<NumberField(a[1].threshold), RawOrNone(a[1].color), BoolField(a[1].equal_hor),
          BoolField(a[1].equal_ver)>>
        = <<NumberField(b[1].threshold), RawOrNone(b[1].color), BoolField(b[1].equal_hor),
            BoolField(b[1].equal_ver)>>
    BY <1>1, <1>2, Zenon DEF TrimFields
  <2>2. /\ NumberField(a[1].threshold) = NumberField(b[1].threshold)
        /\ RawOrNone(a[1].color) = RawOrNone(b[1].color)
        /\ BoolField(a[1].equal_hor) = BoolField(b[1].equal_hor)
        /\ BoolField(a[1].equal_ver) = BoolField(b[1].equal_ver)
    BY <2>1
  <2>3. a[1].threshold = b[1].threshold
    BY <2>2, FieldsInjective, Zenon
  <2>4. a[1].color = b[1].color
    BY <1>2, <2>0, <2>2, OptionsInjective, Zenon DEF IsTrim
  <2>5. a[1].equal_hor = b[1].equal_hor /\ a[1].equal_ver = b[1].equal_ver
    BY <1>2, <2>0, <2>2, FieldsInjective, Zenon DEF IsTrim
  <2>6. \A f \in {"threshold", "color", "equal_hor", "equal_ver"} : a[1][f] = b[1][f]
    BY <2>3, <2>4, <2>5, Zenon
  <2>7. a[1] = b[1]
    <3>1. RecordOver(a[1], {"threshold", "color", "equal_hor", "equal_ver"}) /\ RecordOver(b[1], {"threshold", "color", "equal_hor", "equal_ver"})
      BY <1>2, <2>0, Zenon DEF IsTrim
    <3> QED
      BY <3>1, <2>6, SameRecord
  <2> QED
    BY <1>2, <2>0, <2>7, Zenon DEF IsTrim
<1> QED
  BY <1>1, <1>2, Zenon

\* padding is read back from its field.
LEMMA PaddingInjective ==
    ASSUME NEW a, NEW b, IsPadding(a), IsPadding(b), PaddingField(a) = PaddingField(b)
    PROVE  a = b
<1>1. (a = None) <=> (b = None)
  BY FieldsInjective, Zenon DEF PaddingField
<1>2. CASE a # None
  <2>1. <<a[1].top, a[1].right, a[1].bottom, a[1].left>>
        = <<b[1].top, b[1].right, b[1].bottom, b[1].left>>
    BY <1>1, <1>2, FieldsInjective, Zenon DEF PaddingField
  <2>2. /\ a[1].top = b[1].top /\ a[1].right = b[1].right /\ a[1].bottom = b[1].bottom
        /\ a[1].left = b[1].left
    BY <2>1
  <2>3. \A f \in {"top", "right", "bottom", "left"} : a[1][f] = b[1][f]
    BY <2>2, Zenon
  <2>4. a[1] = b[1]
    <3>1. RecordOver(a[1], {"top", "right", "bottom", "left"}) /\ RecordOver(b[1], {"top", "right", "bottom", "left"})
      BY <1>1, <1>2, Zenon DEF IsPadding
    <3> QED
      BY <3>1, <2>3, SameRecord
  <2> QED
    BY <1>1, <1>2, <2>4, Zenon DEF IsPadding
<1> QED
  BY <1>1, <1>2, Zenon

\* A watermark is read back from its fields, a URL spelled "None" apart.
LEMMA WatermarkInjective ==
    ASSUME NEW a, NEW b, IsWatermark(a), IsWatermark(b), WatermarkFields(a) = WatermarkFields(b)
    PROVE  /\ (a = None) <=> (b = None)
           /\ a = b \/ (a # None /\ a[1].url = Some("None")) \/ (b # None /\ b[1].url = Some("None"))
<1>1. (a = None) <=> (b = None)
  <2>1. \A x, y1, y2, y3, y4, y5, y6, y7, y8, y9 : <<x>> # <<y1, y2, y3, y4, y5, y6, y7, y8, y9>>
    OBVIOUS
  <2> QED
    BY <2>1, Zenon DEF WatermarkFields
<1>2. CASE a # None
  <2>0. IsWatermark(a) /\ IsWatermark(b) /\ b # None
    BY <1>1, <1>2
  <2> DEFINE v == a[1]
             w == b[1]
  <2>1. <<NumberField(v.opacity), TextField(v.position), NumberField(v.x_offset),
          NumberField(v.y_offset), NumberField(v.scale), TextOrNone(v.url),
          RawOrNone(v.size), NumberField(v.rotate), NumberOrNone(v.shadow)>>
        = <<NumberField(w.opacity), TextField(w.position), NumberField(w.x_offset),
            NumberField(w.y_offset), NumberField(w.scale), TextOrNone(w.url),
            RawOrNone(w.size), NumberField(w.rotate), NumberOrNone(w.shadow)>>
    BY <1>2, <2>0, Zenon DEF WatermarkFields
  <2>2. /\ RecordOver(v, WatermarkParts) /\ RecordOver(w, WatermarkParts)
        /\ IsOption(v.url) /\ IsOption(v.size) /\ IsOption(v.shadow)
        /\ IsOption(w.url) /\ IsOption(w.size) /\ IsOption(w.shadow)
        /\ a = Some(v) /\ b = Some(w)
    BY <1>2, <2>0, Zenon DEF IsWatermark
  <2> HIDE DEF v, w
  <2>3. /\ NumberField(v.opacity) = NumberField(w.opacity)
        /\ TextField(v.position) = TextField(w.position)
        /\ NumberField(v.x_offset) = NumberField(w.x_offset)
        /\ NumberField(v.y_offset) = NumberField(w.y_offset)
        /\ NumberField(v.scale) = NumberField(w.scale)
        /\ TextOrNone(v.url) = TextOrNone(w.url)
        /\ RawOrNone(v.size) = RawOrNone(w.size)
        /\ NumberField(v.rotate) = NumberField(w.rotate)
        /\ NumberOrNone(v.shadow) = NumberOrNone(w.shadow)
    BY <2>1
  <2>4. /\ v.opacity = w.opacity /\ v.position = w.position /\ v.x_offset = w.x_offset
        /\ v.y_offset = w.y_offset /\ v.scale = w.scale /\ v.rotate = w.rotate
    BY <2>3, FieldsInjective, Zenon
  <2>5. v.size = w.size /\ v.shadow = w.shadow
    BY <2>2, <2>3, OptionsInjective, Zenon
  <2>6. v.url = w.url \/ v.url = Some("None") \/ w.url = Some("None")
    BY <2>2, <2>3, OptionsInjective, Zenon
  <2>7. v.url = w.url => v = w
    <3>1. v.url = w.url => \A f \in WatermarkParts : v[f] = w[f]
      BY <2>4, <2>5, Zenon DEF WatermarkParts
    <3> QED
      BY <3>1, <2>2, SameRecord
  <2> QED
    BY <1>1, <1>2, <2>0, <2>2, <2>6, <2>7, Zenon DEF v, w
<1> QED
  BY <1>1, <1>2, Zenon

\* Queries that agree in what a key holds.
SameInKey(p, q) ==
    /\ \A f \in {"url", "width", "height", "resize_type", "format", "grayscale", "enlarge",
                 "quality", "jpeg_quality", "webp_quality", "webp_lossless",
                 "jpeg_progressive", "jpeg_no_subsampling", "max_bytes", "background",
                 "autorotate", "gravity"} : p[f] = q[f]
    /\ \A f \in {"crop", "rotate", "flip_horizontal", "flip_vertical", "trim", "extend",
                 "padding", "zoom_x", "zoom_y", "dpr", "min_width", "min_height",
                 "strip_metadata"} : p[f] = q[f]
    /\ canonical_blur_sigma(p.blur_sigma) = canonical_blur_sigma(q.blur_sigma)
    /\ \/ p.watermark = q.watermark
       \/ p.watermark # None /\ p.watermark[1].url = Some("None")
       \/ q.watermark # None /\ q.watermark[1].url = Some("None")

\* The fields of a query that its key holds, each of them read back.
LEMMA KeyFields ==
    ASSUME NEW p, NEW q, QueryOK(p), QueryOK(q), generate_key(p) = generate_key(q)
    PROVE  SameInKey(p, q)
<1> DEFINE blur(x) == canonical_blur_sigma(x.blur_sigma)
<1>1. ASSUME NEW x
      PROVE  LET s == SizeFields(x) IN
             /\ s[1] = TextField(x.url) /\ s[2] = NumberOrNone(x.width)
             /\ s[3] = NumberOrNone(x.height) /\ s[4] = TextField(x.resize_type)
             /\ s[5] = TextField(x.format) /\ s[6] = NumberOrNone(blur(x))
             /\ s[7] = BoolOrNone(x.grayscale) /\ s[8] = BoolField(x.enlarge)
             /\ s[9] = RawOrNone(x.quality) /\ s[10] = RawOrNone(x.jpeg_quality)
             /\ s[11] = RawOrNone(x.webp_quality) /\ s[12] = BoolOrNone(x.webp_lossless)
             /\ s[13] = BoolOrNone(x.jpeg_progressive)
             /\ s[14] = BoolOrNone(x.jpeg_no_subsampling)
             /\ s[15] = NumberOrNone(x.max_bytes) /\ s[16] = RawOrNone(x.background)
             /\ s[17] = BoolField(x.autorotate) /\ s[18] = x.gravity
  BY DEF SizeFields
<1>2. ASSUME NEW x
      PROVE  LET t == TurnFields(x) IN
             /\ t[1] = NumberField(x.rotate) /\ t[2] = BoolField(x.flip_horizontal)
             /\ t[3] = BoolField(x.flip_vertical)
  BY DEF TurnFields
<1>3. ASSUME NEW x
      PROVE  LET c == CanvasFields(x) IN
             /\ c[1] = BoolField(x.extend) /\ c[2] = PaddingField(x.padding)
             /\ c[3] = NumberField(x.zoom_x) /\ c[4] = NumberField(x.zoom_y)
             /\ c[5] = NumberField(x.dpr) /\ c[6] = NumberOrNone(x.min_width)
             /\ c[7] = NumberOrNone(x.min_height) /\ c[8] = BoolField(x.strip_metadata)
  BY DEF CanvasFields
<1>4. /\ SizeFields(p) = SizeFields(q) /\ TurnFields(p) = TurnFields(q)
      /\ CanvasFields(p) = CanvasFields(q) /\ CropFields(p.crop) = CropFields(q.crop)
      /\ TrimFields(p.trim) = TrimFields(q.trim)
      /\ WatermarkFields(p.watermark) = WatermarkFields(q.watermark)
  BY KeyParts, Zenon
<1>5. /\ TextField(p.url) = TextField(q.url) /\ NumberOrNone(p.width) = NumberOrNone(q.width)
      /\ NumberOrNone(p.height) = NumberOrNone(q.height)
      /\ TextField(p.resize_type) = TextField(q.resize_type)
      /\ TextField(p.format) = TextField(q.format)
      /\ NumberOrNone(blur(p)) = NumberOrNone(blur(q))
      /\ BoolOrNone(p.grayscale) = BoolOrNone(q.grayscale)
      /\ BoolField(p.enlarge) = BoolField(q.enlarge)
      /\ RawOrNone(p.quality) = RawOrNone(q.quality)
      /\ RawOrNone(p.jpeg_quality) = RawOrNone(q.jpeg_quality)
  <2>1. /\ SizeFields(p)[1] = SizeFields(q)[1] /\ SizeFields(p)[2] = SizeFields(q)[2]
        /\ SizeFields(p)[3] = SizeFields(q)[3] /\ SizeFields(p)[4] = SizeFields(q)[4]
        /\ SizeFields(p)[5] = SizeFields(q)[5] /\ SizeFields(p)[6] = SizeFields(q)[6]
        /\ SizeFields(p)[7] = SizeFields(q)[7] /\ SizeFields(p)[8] = SizeFields(q)[8]
        /\ SizeFields(p)[9] = SizeFields(q)[9] /\ SizeFields(p)[10] = SizeFields(q)[10]
    BY <1>4
  <2> HIDE DEF blur
  <2> QED
    BY <1>1, <2>1
<1>6. /\ RawOrNone(p.webp_quality) = RawOrNone(q.webp_quality)
      /\ BoolOrNone(p.webp_lossless) = BoolOrNone(q.webp_lossless)
      /\ BoolOrNone(p.jpeg_progressive) = BoolOrNone(q.jpeg_progressive)
      /\ BoolOrNone(p.jpeg_no_subsampling) = BoolOrNone(q.jpeg_no_subsampling)
      /\ NumberOrNone(p.max_bytes) = NumberOrNone(q.max_bytes)
      /\ RawOrNone(p.background) = RawOrNone(q.background)
      /\ BoolField(p.autorotate) = BoolField(q.autorotate) /\ p.gravity = q.gravity
  <2>1. /\ SizeFields(p)[11] = SizeFields(q)[11] /\ SizeFields(p)[12] = SizeFields(q)[12]
        /\ SizeFields(p)[13] = SizeFields(q)[13] /\ SizeFields(p)[14] = SizeFields(q)[14]
        /\ SizeFields(p)[15] = SizeFields(q)[15] /\ SizeFields(p)[16] = SizeFields(q)[16]
        /\ SizeFields(p)[17] = SizeFields(q)[17] /\ SizeFields(p)[18] = SizeFields(q)[18]
    BY <1>4
  <2> HIDE DEF blur
  <2> QED
    BY <1>1, <2>1
<1>7. /\ NumberField(p.rotate) = NumberField(q.rotate)
      /\ BoolField(p.flip_horizontal) = BoolField(q.flip_horizontal)
      /\ BoolField(p.flip_vertical) = BoolField(q.flip_vertical)
  BY <1>2, <1>4, Zenon
<1>8. /\ BoolField(p.extend) = BoolField(q.extend)
      /\ PaddingField(p.padding) = PaddingField(q.padding)
      /\ NumberField(p.zoom_x) = NumberField(q.zoom_x)
      /\ NumberField(p.zoom_y) = NumberField(q.zoom_y) /\ NumberField(p.dpr) = NumberField(q.dpr)
      /\ NumberOrNone(p.min_width) = NumberOrNone(q.min_width)
      /\ NumberOrNone(p.min_height) = NumberOrNone(q.min_height)
      /\ BoolField(p.strip_metadata) = BoolField(q.strip_metadata)
  BY <1>3, <1>4, Zenon
<1>9. ASSUME NEW x, QueryOK(x)
      PROVE  /\ IsOption(x.width) /\ IsOption(x.height) /\ IsOption(x.blur_sigma)
             /\ IsOption(x.quality) /\ IsOption(x.jpeg_quality) /\ IsOption(x.webp_quality)
             /\ IsOption(x.max_bytes) /\ IsOption(x.background) /\ IsOption(x.min_width)
             /\ IsOption(x.min_height)
             /\ IsFlag(x.grayscale) /\ IsFlag(x.webp_lossless) /\ IsFlag(x.jpeg_progressive)
             /\ IsFlag(x.jpeg_no_subsampling)
             /\ x.enlarge \in BOOLEAN /\ x.extend \in BOOLEAN /\ x.autorotate \in BOOLEAN
             /\ x.strip_metadata \in BOOLEAN /\ x.flip_horizontal \in BOOLEAN
             /\ x.flip_vertical \in BOOLEAN
             /\ IsCrop(x.crop) /\ IsTrim(x.trim) /\ IsPadding(x.padding)
             /\ IsWatermark(x.watermark)
  BY <1>9, Zenon DEF QueryOK
<1>10. IsOption(blur(p)) /\ IsOption(blur(q))
  BY <1>9, SomeIsOption, Zenon DEF canonical_blur_sigma
<1> HIDE DEF blur
<1>11. /\ p.url = q.url /\ p.resize_type = q.resize_type /\ p.format = q.format
       /\ p.rotate = q.rotate /\ p.zoom_x = q.zoom_x /\ p.zoom_y = q.zoom_y /\ p.dpr = q.dpr
  BY <1>5, <1>7, <1>8, FieldsInjective
<1>12. /\ p.width = q.width /\ p.height = q.height /\ p.max_bytes = q.max_bytes
       /\ p.min_width = q.min_width /\ p.min_height = q.min_height
  <2>1. \A a, b : IsOption(a) /\ IsOption(b) /\ NumberOrNone(a) = NumberOrNone(b) => a = b
    BY OptionsInjective, Zenon
  <2>2. /\ IsOption(p.width) /\ IsOption(p.height) /\ IsOption(p.max_bytes)
        /\ IsOption(p.min_width) /\ IsOption(p.min_height)
    BY <1>9, Zenon
  <2>3. /\ IsOption(q.width) /\ IsOption(q.height) /\ IsOption(q.max_bytes)
        /\ IsOption(q.min_width) /\ IsOption(q.min_height)
    BY <1>9, Zenon
  <2> QED
    BY <1>5, <1>6, <1>8, <2>1, <2>2, <2>3
<1>13. /\ p.quality = q.quality /\ p.jpeg_quality = q.jpeg_quality
       /\ p.webp_quality = q.webp_quality /\ p.background = q.background
  <2>1. \A a, b : IsOption(a) /\ IsOption(b) /\ RawOrNone(a) = RawOrNone(b) => a = b
    BY OptionsInjective, Zenon
  <2>2. /\ IsOption(p.quality) /\ IsOption(p.jpeg_quality) /\ IsOption(p.webp_quality)
        /\ IsOption(p.background)
    BY <1>9, Zenon
  <2>3. /\ IsOption(q.quality) /\ IsOption(q.jpeg_quality) /\ IsOption(q.webp_quality)
        /\ IsOption(q.background)
    BY <1>9, Zenon
  <2> QED
    BY <1>5, <1>6, <2>1, <2>2, <2>3
<1>14. /\ p.grayscale = q.grayscale /\ p.webp_lossless = q.webp_lossless
       /\ p.jpeg_progressive = q.jpeg_progressive
       /\ p.jpeg_no_subsampling = q.jpeg_no_subsampling
  BY <1>5, <1>6, <1>9, OptionsInjective
<1>15. /\ p.enlarge = q.enlarge /\ p.autorotate = q.autorotate /\ p.extend = q.extend
       /\ p.strip_metadata = q.strip_metadata /\ p.flip_horizontal = q.flip_horizontal
       /\ p.flip_vertical = q.flip_vertical
  BY <1>5, <1>6, <1>7, <1>8, <1>9, FieldsInjective, Zenon
<1>16. p.crop = q.crop /\ p.trim = q.trim /\ p.padding = q.padding
  BY <1>4, <1>8, <1>9, CropInjective, TrimInjective, PaddingInjective, Zenon
<1>17. blur(p) = blur(q)
  BY <1>5, <1>10, OptionsInjective, Zenon
<1>18. \/ p.watermark = q.watermark
       \/ p.watermark # None /\ p.watermark[1].url = Some("None")
       \/ q.watermark # None /\ q.watermark[1].url = Some("None")
  BY <1>4, <1>9, WatermarkInjective, Zenon
<1>19. \A f \in {"url", "width", "height", "resize_type", "format", "grayscale", "enlarge",
                 "quality", "jpeg_quality", "webp_quality", "webp_lossless",
                 "jpeg_progressive", "jpeg_no_subsampling", "max_bytes", "background",
                 "autorotate", "gravity"} : p[f] = q[f]
  BY <1>6, <1>11, <1>12, <1>13, <1>14, <1>15, Zenon
<1>20. \A f \in {"crop", "rotate", "flip_horizontal", "flip_vertical", "trim", "extend",
                 "padding", "zoom_x", "zoom_y", "dpr", "min_width", "min_height",
                 "strip_metadata"} : p[f] = q[f]
  BY <1>11, <1>12, <1>15, <1>16, Zenon
<1> QED
  BY <1>17, <1>18, <1>19, <1>20, Zenon DEF SameInKey, blur

\* Queries with one key that can both be rendered are rendered alike.
LEMMA KeyDeterminesRendering ==
    ASSUME NEW p, NEW q, NEW e, QueryOK(p), QueryOK(q), generate_key(p) = generate_key(q),
           Renderable(p, e), Renderable(q, e)
    PROVE  Rendering(p, e) = Rendering(q, e)
<1>1. SameInKey(p, q)
  BY KeyFields
<1>2. /\ p.url = q.url /\ p.width = q.width /\ p.height = q.height
      /\ p.resize_type = q.resize_type /\ p.format = q.format /\ p.grayscale = q.grayscale
      /\ p.enlarge = q.enlarge /\ p.quality = q.quality /\ p.jpeg_quality = q.jpeg_quality
      /\ p.webp_quality = q.webp_quality /\ p.webp_lossless = q.webp_lossless
      /\ p.jpeg_progressive = q.jpeg_progressive
      /\ p.jpeg_no_subsampling = q.jpeg_no_subsampling /\ p.max_bytes = q.max_bytes
      /\ p.background = q.background /\ p.autorotate = q.autorotate /\ p.gravity = q.gravity
  BY <1>1, Zenon DEF SameInKey
<1>3. /\ p.crop = q.crop /\ p.rotate = q.rotate /\ p.flip_horizontal = q.flip_horizontal
      /\ p.flip_vertical = q.flip_vertical /\ p.trim = q.trim /\ p.extend = q.extend
      /\ p.padding = q.padding /\ p.zoom_x = q.zoom_x /\ p.zoom_y = q.zoom_y /\ p.dpr = q.dpr
      /\ p.min_width = q.min_width /\ p.min_height = q.min_height
      /\ p.strip_metadata = q.strip_metadata
  BY <1>1, Zenon DEF SameInKey
<1>4. EncoderSettings(p, e) = EncoderSettings(q, e)
  BY <1>2, Zenon DEF EncoderSettings
<1>5. ASSUME NEW x, Renderable(x, e) PROVE ~(x.watermark # None /\ x.watermark[1].url = Some("None"))
  <2>1. "None" \notin Fetchable
    BY RequestAssumption
  <2> QED
    BY <1>5, <2>1, SomeIsOption, Zenon DEF Renderable, WatermarkSource
<1>6. p.watermark = q.watermark
  BY <1>1, <1>5, Zenon DEF SameInKey
<1>7. WatermarkSource(p, e) = WatermarkSource(q, e)
  BY <1>6, Zenon DEF WatermarkSource
<1>8. canonical_blur_sigma(p.blur_sigma) = canonical_blur_sigma(q.blur_sigma)
  BY <1>1, Zenon DEF SameInKey
<1> QED
  BY <1>8, <1>2, <1>3, <1>4, <1>6, <1>7, Zenon DEF Rendering

-----------------------------------------------------------------------------
(* Reading the options.  After n segments a field holds what the last of     *)
(* them that sets it says, or its default.  That is stated without following *)
(* the loop, so two readings can be compared.                                *)

\* What a segment sets.
Setting(segment) == AllParsed(Assignment(Code(segment), Args(segment)))[1]

\* A segment sets only the fields of its own option.
Owned(segment) == \A f \in DOMAIN Setting(segment) : f \in OptionFields /\ Owner[f] = Code(segment)

\* v is what the first n segments leave field f with.
FieldRead(segments, n, f, v) ==
    \/ /\ \A k \in 1..n : f \notin DOMAIN Setting(segments[k])
       /\ v = DefaultOptions[f]
    \/ \E k \in 1..n : /\ f \in DOMAIN Setting(segments[k])
                       /\ v = Setting(segments[k])[f]
                       /\ \A j \in (k + 1)..n : f \notin DOMAIN Setting(segments[j])

OptionsRead(segments, n, o) ==
    /\ RecordOver(o, OptionFields)
    /\ \A k \in 1..n : Owned(segments[k])
    /\ \A f \in OptionFields : FieldRead(segments, n, f, o[f]) /\ FieldOK(f, o[f])
    /\ o.crop = None

\* Before the first segment.
LEMMA DefaultRead ==
    ASSUME NEW segments
    PROVE  OptionsRead(segments, 0, DefaultOptions)
<1>1. RecordOver(DefaultOptions, OptionFields) /\ DefaultOptions.crop = None
  BY DEF RecordOver, OptionFields, DefaultOptions
<1>2. 1..0 = {}
  OBVIOUS
<1>3. \A f \in OptionFields : FieldRead(segments, 0, f, DefaultOptions[f])
  BY <1>2, Zenon DEF FieldRead
<1>4. \A f \in Optional : DefaultOptions[f] = None
  BY DEF Optional, DefaultOptions
<1>5. \A f \in OptionalFlags : DefaultOptions[f] = None
  BY DEF OptionalFlags, DefaultOptions
<1>6. /\ DefaultOptions["flip_horizontal"] = FALSE /\ DefaultOptions["flip_vertical"] = FALSE
      /\ DefaultOptions["crop_raw"] = None /\ DefaultOptions["trim"] = None
      /\ DefaultOptions["padding"] = None
  BY DEF DefaultOptions
<1>7. IsOption(None) /\ IsFlag(None) /\ IsCrop(None) /\ IsTrim(None) /\ IsPadding(None)
      /\ FALSE \in BOOLEAN
  BY Zenon DEF IsOption, IsFlag, IsCrop, IsTrim, IsPadding
<1>8. \A f \in OptionFields : FieldOK(f, DefaultOptions[f])
  BY <1>4, <1>5, <1>6, <1>7, Zenon DEF FieldOK
<1> QED
  BY <1>1, <1>2, <1>3, <1>8, Zenon DEF OptionsRead

\* One segment more (a turn of ProcessingOptions::parse's loop).
LEMMA SegmentRead ==
    ASSUME NEW segments, NEW n \in Nat, NEW o, OptionsRead(segments, n, o),
           ApplySegment(o, segments[n + 1]) # None
    PROVE  OptionsRead(segments, n + 1, ApplySegment(o, segments[n + 1])[1])
<1> DEFINE segment == segments[n + 1]
           A == Assignment(Code(segment), Args(segment))
           read == [f \in OptionFields |-> IF f \in DOMAIN Setting(segment)
                                           THEN Setting(segment)[f] ELSE o[f]]
<1>1. /\ Code(segment) \in KnownOptions /\ AllParsed(A) # None
      /\ ApplySegment(o, segment) = Some(read)
  BY Zenon DEF ApplySegment, Setting
<1>2. ApplySegment(o, segment)[1] = read
  BY <1>1, SomeIsOption, Zenon
<1>3. /\ DOMAIN Setting(segment) = DOMAIN A
      /\ \A f \in DOMAIN A : A[f] # None /\ Setting(segment)[f] = A[f][1]
  BY <1>1, AllParsedFacts, Zenon DEF Setting
<1>4. AssignOK(A, Code(segment))
  BY <1>1, AssignmentOK, Zenon
<1> HIDE DEF A
<1>5. Owned(segment) /\ \A f \in DOMAIN Setting(segment) : FieldOK(f, Setting(segment)[f])
  BY <1>3, <1>4, Zenon DEF AssignOK, Owned
<1>6. /\ \A f \in OptionFields \cap DOMAIN Setting(segment) : read[f] = Setting(segment)[f]
      /\ \A f \in OptionFields \ DOMAIN Setting(segment) : read[f] = o[f]
  BY Zenon
<1>7. RecordOver(read, OptionFields)
  BY DEF RecordOver
<1> HIDE DEF read
<1>8. /\ \A k \in 1..(n + 1) : k \in 1..n \/ k = n + 1
      /\ \A k \in 1..n : k \in 1..(n + 1) /\ k # n + 1
      /\ n + 1 \in 1..(n + 1)
      /\ \A k \in 1..n : \A j \in (k + 1)..(n + 1) : j \in (k + 1)..n \/ j = n + 1
      /\ ((n + 1) + 1)..(n + 1) = {}
  OBVIOUS
<1>9. ASSUME NEW f \in OptionFields PROVE FieldRead(segments, n + 1, f, read[f])
  <2>1. CASE f \in DOMAIN Setting(segment)
    <3>1. read[f] = Setting(segment)[f]
      BY <1>6, <2>1, Zenon
    <3>2. \A j \in ((n + 1) + 1)..(n + 1) : f \notin DOMAIN Setting(segments[j])
      BY <1>8, Zenon
    <3> QED
      BY <1>8, <2>1, <3>1, <3>2, Zenon DEF FieldRead
  <2>2. CASE f \notin DOMAIN Setting(segment)
    <3>1. read[f] = o[f] /\ FieldRead(segments, n, f, o[f])
      BY <1>6, <2>2, Zenon DEF OptionsRead
    <3>2. CASE /\ \A k \in 1..n : f \notin DOMAIN Setting(segments[k])
               /\ o[f] = DefaultOptions[f]
      BY <1>8, <2>2, <3>1, <3>2, Zenon DEF FieldRead
    <3>3. ASSUME NEW k \in 1..n, f \in DOMAIN Setting(segments[k]),
                 o[f] = Setting(segments[k])[f],
                 \A j \in (k + 1)..n : f \notin DOMAIN Setting(segments[j])
          PROVE  FieldRead(segments, n + 1, f, read[f])
      <4>1. \A j \in (k + 1)..(n + 1) : f \notin DOMAIN Setting(segments[j])
        BY <1>8, <2>2, <3>3, Zenon
      <4> QED
        BY <1>8, <3>1, <3>3, <4>1, Zenon DEF FieldRead
    <3> QED
      BY <3>1, <3>2, <3>3, Zenon DEF FieldRead
  <2> QED
    BY <2>1, <2>2, Zenon
<1>10. \A f \in OptionFields : FieldOK(f, read[f])
  BY <1>5, <1>6, Zenon DEF OptionsRead
<1>11. \A k \in 1..(n + 1) : Owned(segments[k])
  BY <1>5, <1>8, Zenon DEF OptionsRead
<1>12. read.crop = None
  <2>1. "crop" \notin DOMAIN Setting(segment)
    <3>1. Owner["crop"] = "no option" /\ "no option" \notin KnownOptions
      BY DEF Owner, KnownOptions, Arity
    <3> QED
      BY <1>1, <1>5, <3>1, Zenon DEF Owned
  <2>2. "crop" \in OptionFields
    BY DEF OptionFields, DefaultOptions
  <2> QED
    BY <1>6, <2>1, <2>2, Zenon DEF OptionsRead
<1>13. OptionsRead(segments, n + 1, read)
  BY <1>7, <1>9, <1>10, <1>11, <1>12, Zenon DEF OptionsRead
<1> QED
  BY <1>2, <1>13, Zenon

\* There is one last segment that sets a field.
LEMMA FieldReadUnique ==
    ASSUME NEW segments, NEW n \in Nat, NEW f, NEW v, NEW w, FieldRead(segments, n, f, v),
           FieldRead(segments, n, f, w)
    PROVE  v = w
<1>1. ASSUME NEW k \in 1..n, NEW j \in 1..n,
             \A i \in (k + 1)..n : f \notin DOMAIN Setting(segments[i]),
             \A i \in (j + 1)..n : f \notin DOMAIN Setting(segments[i]),
             f \in DOMAIN Setting(segments[k]), f \in DOMAIN Setting(segments[j])
      PROVE  k = j
  <2>1. ~(k < j) /\ ~(j < k)
    <3>1. k < j => j \in (k + 1)..n
      OBVIOUS
    <3>2. j < k => k \in (j + 1)..n
      OBVIOUS
    <3> QED
      BY <1>1, <3>1, <3>2, Zenon
  <2> QED
    BY <2>1
<1> QED
  BY <1>1, Zenon DEF FieldRead

\* What the segments say is all there is to the options.
LEMMA OptionsUnique ==
    ASSUME NEW segments, NEW n \in Nat, NEW o, NEW p, OptionsRead(segments, n, o),
           OptionsRead(segments, n, p)
    PROVE  o = p
<1>1. \A f \in OptionFields : o[f] = p[f]
  BY FieldReadUnique, Zenon DEF OptionsRead
<1> QED
  BY <1>1, SameRecord DEF OptionsRead

-----------------------------------------------------------------------------
(* What a request asks for. *)

\* The query of a path whose options were read as o, its format not negotiated.
Built(o, path) == into_resize_query(ResolveCrop(o), parse_source(SourceSegments(path))[1])

\* Its format negotiated.
Resolved(q, accept) ==
    IF q.format = "auto" THEN [q EXCEPT !.format = ResolveAuto(accept)] ELSE q

\* q is the query of a path whose segments expand to `segments`.
Asked(segments, path, accept, vary, q) ==
    \E o : /\ Len(segments) \in Nat
           /\ OptionsRead(segments, Len(segments), o)
           /\ vary <=> (Built(o, path).format = "auto")
           /\ q = Resolved(Built(o, path), accept)

\* The crop takes the request's gravity and is otherwise as it was read.
LEMMA ResolvedCrop ==
    ASSUME NEW o, RecordOver(o, OptionFields), IsCrop(o.crop_raw), o.crop = None
    PROVE  /\ IsCrop(ResolveCrop(o).crop)
           /\ \A f \in OptionFields \ {"crop"} : ResolveCrop(o)[f] = o[f]
<1>1. CASE o.crop_raw = None
  BY <1>1, Zenon DEF ResolveCrop, IsCrop
<1>2. CASE o.crop_raw # None
  <2> DEFINE raw == o.crop_raw[1]
             g == UnwrapOr(raw.gravity, o.gravity)
             c == [raw EXCEPT !.gravity = g]
             r == [o EXCEPT !.crop = Some(c)]
  <2>1. ResolveCrop(o) = r
    BY <1>2, Zenon DEF ResolveCrop
  <2>2. RecordOver(raw, {"width", "height", "gravity"})
    BY <1>2, Zenon DEF IsCrop
  <2> HIDE DEF raw, g
  <2>3. RecordOver(c, {"width", "height", "gravity"})
    BY <2>2 DEF RecordOver
  <2> HIDE DEF c
  <2>4. Some(c)[1] = c
    BY SomeIsOption, Zenon
  <2>5. DOMAIN o = OptionFields
    BY Zenon DEF RecordOver
  <2>6. r.crop = Some(c)
    <3>1. "crop" \in OptionFields
      BY DEF OptionFields, DefaultOptions
    <3> QED
      BY <2>5, <3>1, Zenon
  <2>7. \A f \in OptionFields \ {"crop"} : r[f] = o[f]
    BY <2>5, Zenon
  <2>8. IsCrop(Some(c))
    BY <2>3, <2>4, Zenon DEF IsCrop
  <2> QED
    BY <2>1, <2>6, <2>7, <2>8, Zenon
<1> QED
  BY <1>1, <1>2, Zenon

\* The watermark of options that were read.
LEMMA WatermarkRead ==
    ASSUME NEW o, IsOption(o.watermark_url), IsOption(o.watermark_size),
           IsOption(o.watermark_shadow)
    PROVE  IsWatermark(Watermark(o))
<1> DEFINE w == [opacity |-> o.watermark_opacity[1], position |-> o.watermark_position,
                 x_offset |-> o.watermark_x_offset, y_offset |-> o.watermark_y_offset,
                 scale |-> o.watermark_scale, url |-> o.watermark_url,
                 size |-> o.watermark_size, rotate |-> o.watermark_rotate,
                 shadow |-> o.watermark_shadow]
<1>1. Watermark(o) = None \/ Watermark(o) = Some(w)
  BY Zenon DEF Watermark
<1>2. /\ RecordOver(w, WatermarkParts)
      /\ w.url = o.watermark_url /\ w.size = o.watermark_size /\ w.shadow = o.watermark_shadow
  BY DEF RecordOver, WatermarkParts
<1> HIDE DEF w
<1>3. Some(w)[1] = w
  BY SomeIsOption, Zenon
<1>4. IsWatermark(Some(w))
  BY <1>2, <1>3, Zenon DEF IsWatermark
<1> QED
  BY <1>1, <1>4, Zenon DEF IsWatermark

\* A flag or its default is a truth value.
LEMMA FlagValue ==
    ASSUME NEW v, NEW b \in BOOLEAN, IsFlag(v)
    PROVE  UnwrapOr(v, b) \in BOOLEAN
<1>1. Some(TRUE)[1] = TRUE /\ Some(FALSE)[1] = FALSE
  BY DEF Some
<1> QED
  BY <1>1 DEF IsFlag, UnwrapOr

\* The query of options that were read is well formed.
LEMMA BuiltOK ==
    ASSUME NEW segments, NEW n, NEW o, OptionsRead(segments, n, o), NEW source
    PROVE  QueryOK(into_resize_query(ResolveCrop(o), source))
<1> DEFINE r == ResolveCrop(o)
           q == into_resize_query(r, source)
<1>1. RecordOver(o, OptionFields) /\ o.crop = None /\ \A f \in OptionFields : FieldOK(f, o[f])
  BY Zenon DEF OptionsRead
<1>2. /\ Optional \subseteq OptionFields /\ OptionalFlags \subseteq OptionFields
      /\ {"flip_horizontal", "flip_vertical", "crop_raw", "trim", "padding"} \subseteq OptionFields
      /\ "crop" \notin Optional \cup OptionalFlags
  BY OptionFieldsAre DEF Optional, OptionalFlags, Owner
<1>3. /\ IsCrop(o.crop_raw)
      /\ \A f \in Optional : IsOption(o[f])
      /\ \A f \in OptionalFlags : IsFlag(o[f])
      /\ o["flip_horizontal"] \in BOOLEAN /\ o["flip_vertical"] \in BOOLEAN
      /\ IsTrim(o["trim"]) /\ IsPadding(o["padding"])
  BY <1>1, <1>2, Zenon DEF FieldOK
<1>4. IsCrop(r["crop"]) /\ \A f \in OptionFields \ {"crop"} : r[f] = o[f]
  BY <1>1, <1>3, ResolvedCrop, Zenon
<1> HIDE DEF r
<1>5. /\ \A f \in Optional : IsOption(r[f])
      /\ \A f \in OptionalFlags : IsFlag(r[f])
  BY <1>2, <1>3, <1>4, Zenon
<1>6. /\ r["flip_horizontal"] \in BOOLEAN /\ r["flip_vertical"] \in BOOLEAN
      /\ IsTrim(r["trim"]) /\ IsPadding(r["padding"])
  BY <1>2, <1>3, <1>4
<1>7. q["watermark"] = Watermark(r)
  BY QueryShape, Zenon
<1>v. \A f \in QueryFields \ {"url", "format", "watermark"} : q[f] = QueryValue(r, f)
  BY QueryShape, Zenon
<1>d. DOMAIN q = DOMAIN NoQuery
  BY QueryDomain, Zenon
<1> HIDE DEF q
<1>8. /\ q["enlarge"] = UnwrapOr(r["enlarge"], FALSE) /\ q["extend"] = UnwrapOr(r["extend"], FALSE)
      /\ q["autorotate"] = UnwrapOr(r["autorotate"], TRUE)
      /\ q["strip_metadata"] = UnwrapOr(r["strip_metadata"], TRUE)
  <2>1. {"enlarge", "extend", "autorotate", "strip_metadata"}
           \subseteq QueryFields \ {"url", "format", "watermark"}
    BY DEF QueryFields, OptionFields, DefaultOptions
  <2> QED
    BY <1>v, <2>1 DEF QueryValue
<1> DEFINE Plain == {"width", "height", "blur_sigma", "quality", "jpeg_quality", "webp_quality",
                     "max_bytes", "background", "min_width", "min_height", "grayscale",
                     "webp_lossless", "jpeg_progressive", "jpeg_no_subsampling",
                     "flip_horizontal", "flip_vertical", "crop", "trim", "padding"}
<1>9. \A f \in Plain : q[f] = r[f]
  <2>1. /\ Plain \subseteq QueryFields \ {"url", "format", "watermark"}
        /\ \A f \in Plain : f \notin {"enlarge", "extend"} /\ f \notin {"autorotate", "strip_metadata"}
    BY DEF QueryFields, OptionFields, DefaultOptions
  <2> HIDE DEF Plain
  <2> QED
    BY <1>v, <2>1, Zenon DEF QueryValue
<1>10. \A f \in {"width", "height", "blur_sigma", "quality", "jpeg_quality", "webp_quality",
                 "max_bytes", "background", "min_width", "min_height"} : IsOption(q[f])
  <2>1. \A f \in {"width", "height", "blur_sigma", "quality", "jpeg_quality", "webp_quality",
                  "max_bytes", "background", "min_width", "min_height"} :
           f \in Plain /\ f \in Optional
    BY DEF Optional
  <2> QED
    BY <1>5, <1>9, <2>1
<1>11. \A f \in {"grayscale", "webp_lossless", "jpeg_progressive", "jpeg_no_subsampling"} :
          IsFlag(q[f])
  <2>1. \A f \in {"grayscale", "webp_lossless", "jpeg_progressive", "jpeg_no_subsampling"} :
           f \in Plain /\ f \in OptionalFlags
    BY DEF OptionalFlags
  <2> QED
    BY <1>5, <1>9, <2>1
<1>12. /\ q["flip_horizontal"] = r["flip_horizontal"] /\ q["flip_vertical"] = r["flip_vertical"]
       /\ q["crop"] = r["crop"] /\ q["trim"] = r["trim"] /\ q["padding"] = r["padding"]
  BY <1>9
<1>13. /\ q["enlarge"] \in BOOLEAN /\ q["extend"] \in BOOLEAN /\ q["autorotate"] \in BOOLEAN
       /\ q["strip_metadata"] \in BOOLEAN
  <2>1. {"enlarge", "extend", "autorotate", "strip_metadata"} \subseteq OptionalFlags
    BY DEF OptionalFlags
  <2>2. /\ IsFlag(r["enlarge"]) /\ IsFlag(r["extend"]) /\ IsFlag(r["autorotate"])
        /\ IsFlag(r["strip_metadata"])
    BY <1>5, <2>1
  <2>3. \A v : \A b \in BOOLEAN : IsFlag(v) => UnwrapOr(v, b) \in BOOLEAN
    BY FlagValue
  <2> QED
    BY <1>8, <2>2, <2>3
<1>14. IsWatermark(q["watermark"])
  <2>1. {"watermark_url", "watermark_size", "watermark_shadow"} \subseteq Optional
    BY DEF Optional
  <2>2. /\ IsOption(r.watermark_url) /\ IsOption(r.watermark_size)
        /\ IsOption(r.watermark_shadow)
    BY <1>5, <2>1
  <2> QED
    BY <1>7, <2>2, WatermarkRead, Zenon
<1>15. \A f \in {"enlarge", "extend", "autorotate", "strip_metadata", "flip_horizontal",
                 "flip_vertical"} : q[f] \in BOOLEAN
  BY <1>6, <1>12, <1>13
<1>16. IsCrop(q.crop) /\ IsTrim(q.trim) /\ IsPadding(q.padding) /\ IsWatermark(q.watermark)
  BY <1>4, <1>6, <1>12, <1>14
<1> QED
  BY <1>d, <1>10, <1>11, <1>15, <1>16, Zenon DEF QueryOK, q, r

\* Another format leaves a query well formed.
LEMMA ResolvedOK ==
    ASSUME NEW q, QueryOK(q), NEW accept
    PROVE  QueryOK(Resolved(q, accept))
<1> DEFINE p == [q EXCEPT !.format = ResolveAuto(accept)]
           Fields == {"width", "height", "blur_sigma", "quality", "jpeg_quality", "webp_quality",
                      "max_bytes", "background", "min_width", "min_height", "grayscale",
                      "webp_lossless", "jpeg_progressive", "jpeg_no_subsampling", "enlarge",
                      "extend", "autorotate", "strip_metadata", "flip_horizontal",
                      "flip_vertical", "crop", "trim", "padding", "watermark"}
<1>1. DOMAIN q = {"url", "format", "watermark"} \cup QueryFields
  BY QueryShape, Zenon DEF QueryOK, NoQuery
<1>2. \A f \in Fields : f # "format" /\ f \in DOMAIN q
  BY <1>1 DEF QueryFields, OptionFields, DefaultOptions
<1>3. DOMAIN p = DOMAIN q /\ \A f \in DOMAIN q : f # "format" => p[f] = q[f]
  BY Zenon
<1> HIDE DEF p
<1>4. \A f \in Fields : p[f] = q[f]
  <2> HIDE DEF Fields
  <2> QED
    BY <1>2, <1>3, Zenon
<1>5. \A f \in {"width", "height", "blur_sigma", "quality", "jpeg_quality", "webp_quality",
                "max_bytes", "background", "min_width", "min_height"} : IsOption(p[f])
  BY <1>4 DEF QueryOK
<1>6. \A f \in {"grayscale", "webp_lossless", "jpeg_progressive", "jpeg_no_subsampling"} :
         IsFlag(p[f])
  BY <1>4 DEF QueryOK
<1>7. \A f \in {"enlarge", "extend", "autorotate", "strip_metadata", "flip_horizontal",
                "flip_vertical"} : p[f] \in BOOLEAN
  BY <1>4 DEF QueryOK
<1>8. p.crop = q.crop /\ p.trim = q.trim /\ p.padding = q.padding /\ p.watermark = q.watermark
  BY <1>4
<1>9. QueryOK(p)
  BY <1>3, <1>5, <1>6, <1>7, <1>8, Zenon DEF QueryOK
<1> QED
  BY <1>9, Zenon DEF Resolved, p

\* What is asked for is a well-formed query.
LEMMA AskedOK ==
    ASSUME NEW segments, NEW path, NEW accept, NEW vary, NEW q,
           Asked(segments, path, accept, vary, q)
    PROVE  QueryOK(q)
  BY BuiltOK, ResolvedOK, Zenon DEF Asked, Built

\* The segments, the source and, where the format is negotiated, Accept are all
\* a query depends on.
LEMMA AskedUnique ==
    ASSUME NEW segments, NEW path, NEW other,
           SourceSegments(path) = SourceSegments(other),
           NEW accept, NEW accept2, NEW vary, NEW vary2, NEW q, NEW q2,
           Asked(segments, path, accept, vary, q), Asked(segments, other, accept2, vary2, q2),
           vary => accept = accept2
    PROVE  q = q2
<1>1. Len(segments) \in Nat
  BY Zenon DEF Asked
<1>2. PICK o : /\ OptionsRead(segments, Len(segments), o)
               /\ vary <=> (Built(o, path).format = "auto")
               /\ q = Resolved(Built(o, path), accept)
  BY Zenon DEF Asked
<1>3. PICK p : /\ OptionsRead(segments, Len(segments), p)
               /\ q2 = Resolved(Built(p, other), accept2)
  BY Zenon DEF Asked
<1>4. o = p
  BY <1>1, <1>2, <1>3, OptionsUnique, Zenon
<1>5. Built(o, path) = Built(p, other)
  BY <1>4, Zenon DEF Built
<1> QED
  BY <1>2, <1>3, <1>5, Zenon DEF Resolved

-----------------------------------------------------------------------------
(* Presets and the request's own segments. *)

\* The segments of the default preset, and the expansion of a path, under the
\* presets of some process.
DefaultOf(presets) == IF "default" \in DOMAIN presets THEN presets["default"] ELSE <<>>

ExpandedWith(presets, segments) ==
    DefaultOf(presets)
        \o Concat([i \in 1..Len(segments) |->
                      Concat(IF Code(segments[i]) = "pr"
                             THEN [k \in 1..Len(Args(segments[i])) |->
                                      presets[Args(segments[i])[k]]]
                             ELSE <<<<segments[i]>>>>)])

\* Expansion depends on the registry of the process only.
LEMMA ExpandedIs ==
    ASSUME NEW segments
    PROVE  Expanded(segments) = ExpandedWith(registry, segments)
  BY Zenon DEF Expanded, ExpandedWith, Expansion, DefaultSegments, DefaultOf

\* A path without presets is expanded to the default preset and itself.
LEMMA PlainExpansion ==
    ASSUME NEW presets, NEW own \in Seq(Segments), \A i \in 1..Len(own) : Code(own[i]) # "pr"
    PROVE  ExpandedWith(presets, own) = DefaultOf(presets) \o own
<1> DEFINE each(i) == IF Code(own[i]) = "pr"
                      THEN [k \in 1..Len(Args(own[i])) |-> presets[Args(own[i])[k]]]
                      ELSE <<<<own[i]>>>>
<1>1. ASSUME NEW i \in 1..Len(own) PROVE Concat(each(i)) = <<own[i]>>
  <2> DEFINE s == <<own[i]>>
  <2>1. each(i) = <<<<own[i]>>>>
    BY Zenon
  <2>2. s \in Seq({own[i]}) /\ Len(s) = 1 /\ s[1] = own[i]
    OBVIOUS
  <2>3. <<<<own[i]>>>> = [k \in 1..1 |-> <<s[k]>>]
    OBVIOUS
  <2> HIDE DEF s
  <2>4. Concat([k \in 1..Len(s) |-> <<s[k]>>]) = s
    BY <2>2, ConcatSingletons
  <2> QED
    BY <2>1, <2>2, <2>3, <2>4, Zenon DEF s
<1>2. [i \in 1..Len(own) |-> Concat(each(i))] = [i \in 1..Len(own) |-> <<own[i]>>]
  <2> HIDE DEF each
  <2> QED
    BY <1>1, Zenon
<1>3. Concat([i \in 1..Len(own) |-> <<own[i]>>]) = own
  BY ConcatSingletons
<1>4. ExpandedWith(presets, own) = DefaultOf(presets) \o Concat([i \in 1..Len(own) |-> Concat(each(i))])
  BY Zenon DEF ExpandedWith
<1> QED
  BY <1>2, <1>3, <1>4, Zenon

\* Who had the last word: the later part, or it does not set the field at all.
LastWord(D, own, f, v) ==
    \/ /\ \A k \in 1..Len(own) : f \notin DOMAIN Setting(own[k])
       /\ FieldRead(D, Len(D), f, v)
    \/ \E k \in 1..Len(own) : /\ f \in DOMAIN Setting(own[k])
                              /\ v = Setting(own[k])[f]
                              /\ \A j \in (k + 1)..Len(own) : f \notin DOMAIN Setting(own[j])

\* A field after the default preset and the request's own segments.
LEMMA FieldSplit ==
    ASSUME NEW D \in Seq(Segments), NEW own \in Seq(Segments), NEW f, NEW v,
           FieldRead(D \o own, Len(D \o own), f, v)
    PROVE  LastWord(D, own, f, v)
<1> DEFINE all == D \o own
           m == Len(D)
           n == Len(own)
<1>1. /\ m \in Nat /\ n \in Nat /\ Len(all) = m + n
      /\ \A k \in 1..m : all[k] = D[k]
      /\ \A k \in 1..n : all[m + k] = own[k]
  OBVIOUS
<1> HIDE DEF all, m, n
<1>2. FieldRead(all, m + n, f, v)
  BY <1>1, Zenon DEF all
<1>3. /\ \A k \in 1..m : k \in 1..(m + n)
      /\ \A k \in 1..n : m + k \in 1..(m + n)
      /\ \A k \in 1..(m + n) : k \in 1..m \/ (k - m \in 1..n /\ k = m + (k - m))
      /\ \A k \in 1..n : \A j \in (k + 1)..n : m + j \in ((m + k) + 1)..(m + n)
      /\ \A k \in 1..m : \A j \in (k + 1)..m : j \in (k + 1)..(m + n) /\ j \in 1..m
      /\ \A k \in 1..m : \A j \in 1..n : m + j \in (k + 1)..(m + n)
      /\ \A k \in 1..n : \A j \in (k + 1)..n : j \in 1..n
  BY <1>1
<1>4. ASSUME \A k \in 1..(m + n) : f \notin DOMAIN Setting(all[k]), v = DefaultOptions[f]
      PROVE  /\ \A i \in 1..n : f \notin DOMAIN Setting(own[i])
             /\ FieldRead(D, m, f, v)
  <2>1. \A k \in 1..n : f \notin DOMAIN Setting(own[k])
    BY <1>1, <1>3, <1>4, Zenon
  <2>2. \A k \in 1..m : f \notin DOMAIN Setting(D[k])
    BY <1>1, <1>3, <1>4, Zenon
  <2>3. FieldRead(D, m, f, v)
    BY <1>4, <2>2, Zenon DEF FieldRead
  <2> QED
    BY <2>1, <2>3, Zenon
<1>5. ASSUME NEW k \in 1..(m + n), f \in DOMAIN Setting(all[k]), v = Setting(all[k])[f],
             \A j \in (k + 1)..(m + n) : f \notin DOMAIN Setting(all[j])
      PROVE  \/ /\ \A i \in 1..n : f \notin DOMAIN Setting(own[i])
                /\ FieldRead(D, m, f, v)
             \/ \E i \in 1..n : /\ f \in DOMAIN Setting(own[i])
                                /\ v = Setting(own[i])[f]
                                /\ \A j \in (i + 1)..n : f \notin DOMAIN Setting(own[j])
  <2>1. CASE k \in 1..m
    <3>1. \A i \in 1..n : f \notin DOMAIN Setting(own[i])
      BY <1>1, <1>3, <1>5, <2>1, Zenon
    <3>2. \A j \in (k + 1)..m : f \notin DOMAIN Setting(D[j])
      BY <1>1, <1>3, <1>5, <2>1, Zenon
    <3>3. f \in DOMAIN Setting(D[k]) /\ v = Setting(D[k])[f]
      BY <1>1, <1>5, <2>1, Zenon
    <3> QED
      BY <2>1, <3>1, <3>2, <3>3, Zenon DEF FieldRead
  <2>2. CASE k - m \in 1..n /\ k = m + (k - m)
    <3> DEFINE i == k - m
    <3>1. i \in 1..n /\ k = m + i
      BY <2>2
    <3> HIDE DEF i
    <3>2. all[k] = own[i]
      BY <1>1, <3>1, Zenon
    <3>3. \A j \in (i + 1)..n : f \notin DOMAIN Setting(own[j])
      BY <1>1, <1>3, <1>5, <3>1, Zenon
    <3> QED
      BY <1>5, <3>1, <3>2, <3>3, Zenon
  <2> QED
    BY <1>3, <2>1, <2>2, Zenon
<1>6. \/ /\ \A i \in 1..n : f \notin DOMAIN Setting(own[i])
         /\ FieldRead(D, m, f, v)
      \/ \E i \in 1..n : /\ f \in DOMAIN Setting(own[i])
                         /\ v = Setting(own[i])[f]
                         /\ \A j \in (i + 1)..n : f \notin DOMAIN Setting(own[j])
  BY <1>2, <1>4, <1>5, Zenon DEF FieldRead
<1> QED
  BY <1>6, Zenon DEF LastWord, m, n

\* Options in another order are read alike, where none is given twice.
LEMMA OrderIrrelevant ==
    ASSUME NEW D \in Seq(Segments), NEW a \in Seq(Segments), NEW b \in Seq(Segments),
           {a[k] : k \in 1..Len(a)} = {b[k] : k \in 1..Len(b)},
           \A k, l \in 1..Len(a) : Code(a[k]) = Code(a[l]) => k = l,
           \A k, l \in 1..Len(b) : Code(b[k]) = Code(b[l]) => k = l,
           NEW o, NEW p, OptionsRead(D \o a, Len(D \o a), o), OptionsRead(D \o b, Len(D \o b), p)
    PROVE  o = p
<1>1. ASSUME NEW s \in Seq(Segments), NEW x, OptionsRead(D \o s, Len(D \o s), x)
      PROVE  \A k \in 1..Len(s) : Owned(s[k])
  <2>1. \A k \in 1..Len(s) : (D \o s)[Len(D) + k] = s[k] /\ Len(D) + k \in 1..Len(D \o s)
    OBVIOUS
  <2> QED
    BY <1>1, <2>1, Zenon DEF OptionsRead
<1>2. /\ \A k \in 1..Len(a) : Owned(a[k])
      /\ \A k \in 1..Len(b) : Owned(b[k])
  BY <1>1, Zenon
<1>3. /\ \A k \in 1..Len(a) : \E l \in 1..Len(b) : a[k] = b[l]
      /\ \A k \in 1..Len(b) : \E l \in 1..Len(a) : b[k] = a[l]
  <2> DEFINE as == {a[k] : k \in 1..Len(a)}
             bs == {b[k] : k \in 1..Len(b)}
  <2>1. /\ \A k \in 1..Len(a) : a[k] \in as
        /\ \A k \in 1..Len(b) : b[k] \in bs
    BY Zenon
  <2>2. /\ \A x \in as : \E k \in 1..Len(a) : x = a[k]
        /\ \A x \in bs : \E k \in 1..Len(b) : x = b[k]
    BY Zenon
  <2>3. as = bs
    OBVIOUS
  <2> HIDE DEF as, bs
  <2> QED
    BY <2>1, <2>2, <2>3, Zenon
<1>s. ASSUME NEW s \in Seq(Segments), NEW f, NEW v, FieldRead(D \o s, Len(D \o s), f, v)
      PROVE  \/ /\ \A k \in 1..Len(s) : f \notin DOMAIN Setting(s[k])
                /\ FieldRead(D, Len(D), f, v)
             \/ \E k \in 1..Len(s) : f \in DOMAIN Setting(s[k]) /\ v = Setting(s[k])[f]
  <2>1. LastWord(D, s, f, v)
    BY <1>s, FieldSplit, Zenon
  <2> QED
    BY <2>1, Zenon DEF LastWord
<1>4. ASSUME NEW f \in OptionFields PROVE o[f] = p[f]
  <2>1. /\ FieldRead(D \o a, Len(D \o a), f, o[f])
        /\ FieldRead(D \o b, Len(D \o b), f, p[f])
    BY Zenon DEF OptionsRead
  <2>2. \/ /\ \A k \in 1..Len(a) : f \notin DOMAIN Setting(a[k])
           /\ FieldRead(D, Len(D), f, o[f])
        \/ \E k \in 1..Len(a) : f \in DOMAIN Setting(a[k]) /\ o[f] = Setting(a[k])[f]
    BY <2>1, <1>s, Zenon
  <2>3. \/ /\ \A k \in 1..Len(b) : f \notin DOMAIN Setting(b[k])
           /\ FieldRead(D, Len(D), f, p[f])
        \/ \E k \in 1..Len(b) : f \in DOMAIN Setting(b[k]) /\ p[f] = Setting(b[k])[f]
    BY <2>1, <1>s, Zenon
  <2>4. CASE /\ \A k \in 1..Len(a) : f \notin DOMAIN Setting(a[k])
             /\ FieldRead(D, Len(D), f, o[f])
    <3>1. FieldRead(D, Len(D), f, p[f])
      BY <1>3, <2>3, <2>4, Zenon
    <3>2. Len(D) \in Nat
      OBVIOUS
    <3> QED
      BY <2>4, <3>1, <3>2, FieldReadUnique, Zenon
  <2>5. ASSUME NEW k \in 1..Len(a), f \in DOMAIN Setting(a[k]), o[f] = Setting(a[k])[f]
        PROVE  o[f] = p[f]
    <3>1. PICK l \in 1..Len(b) : a[k] = b[l]
      BY <1>3, Zenon
    <3>2. PICK m \in 1..Len(b) : f \in DOMAIN Setting(b[m]) /\ p[f] = Setting(b[m])[f]
      BY <2>3, <2>5, <3>1, Zenon
    <3>3. Code(b[l]) = Owner[f] /\ Code(b[m]) = Owner[f]
      BY <1>2, <2>5, <3>1, <3>2, Zenon DEF Owned
    <3>4. l = m
      BY <3>3, Zenon
    <3> QED
      BY <2>5, <3>1, <3>2, <3>4, Zenon
  <2> QED
    BY <2>2, <2>4, <2>5, Zenon
<1>5. RecordOver(o, OptionFields) /\ RecordOver(p, OptionFields)
  BY Zenon DEF OptionsRead
<1> QED
  BY <1>4, <1>5, SameRecord

-----------------------------------------------------------------------------
(* The request in hand. *)

Reading == {"options", "negotiate", "resize", "resize_negotiated"}

\* The options and the query are those of the path in hand.
WorkInv ==
    /\ phase \in Reading => expanded = ExpandedWith(registry, OptionSegments(request.path))
    /\ phase = "options" => OptionsRead(expanded, cursor, opts)
    /\ phase = "negotiate" => \E o : /\ OptionsRead(expanded, Len(expanded), o)
                                     /\ query = Built(o, request.path)
    /\ phase = "resize" => Asked(expanded, request.path, request.accept, FALSE, query)
    /\ phase = "resize_negotiated" => Asked(expanded, request.path, request.accept, TRUE, query)

\* Every step keeps what is known of the request being read.
LEMMA WorkStep == CoreInv /\ WorkInv /\ [Next]_vars => WorkInv'
<1> SUFFICES ASSUME CoreInv, WorkInv, [Next]_vars PROVE WorkInv'
  OBVIOUS
<1>u. ASSUME phase' \in Unread PROVE WorkInv'
  <2>1. \A x \in Unread : x \notin Reading /\ x # "options" /\ x # "negotiate"
                          /\ x # "resize" /\ x # "resize_negotiated"
    BY DEF Unread, Reading
  <2> QED
    BY <1>u, <2>1, Zenon DEF WorkInv
<1>i. ASSUME phase' = "idle" PROVE WorkInv'
  BY <1>i, <1>u DEF Unread
<1>1. CASE Create
  BY <1>1, <1>i DEF Create, CoreInv
<1>2. CASE Redeploy
  BY <1>2, <1>i DEF Redeploy
<1>3. CASE Handle
  <2>e. registry' = registry
    BY <1>3, Zenon DEF Handle
  <2>1. ASSUME NEW r \in Requests, Receive(r) PROVE WorkInv'
    BY <2>1, <1>u DEF Receive, Advance, Unread
  <2>2. CASE Split
    BY <2>2, <1>u DEF Split, Refuse, Answer, Advance, Unread
  <2>3. CASE Verify
    BY <2>3, <1>u, AnswerIdle DEF Verify, Advance, Unread
  <2>4. CASE Expand
    <3>1. CASE Refuse("bad_request")
      BY <3>1, <1>i, AnswerIdle
    <3>2. CASE /\ expanded' = Expanded(OptionSegments(request.path))
               /\ Advance("options") /\ UNCHANGED <<request, cursor, opts, query>>
      <4>1. phase' = "options" /\ request' = request /\ cursor' = 0 /\ opts' = DefaultOptions
        BY <2>4, <3>2 DEF Expand, Advance, CoreInv, Unread
      <4>2. expanded' = ExpandedWith(registry', OptionSegments(request'.path))
        BY <3>2, <4>1, <2>e, ExpandedIs, Zenon
      <4>3. OptionsRead(expanded', cursor', opts')
        BY <4>1, DefaultRead, Zenon
      <4>4. /\ phase' # "negotiate" /\ phase' # "resize" /\ phase' # "resize_negotiated"
        BY <4>1
      <4> QED
        BY <4>2, <4>3, <4>4, Zenon DEF WorkInv
    <3> QED
      BY <2>4, <3>1, <3>2, Zenon DEF Expand
  <2>5. CASE ParseSegment
    <3> DEFINE read == ApplySegment(opts, expanded[cursor + 1])
    <3>1. CASE Refuse("bad_request")
      BY <3>1, <1>i, AnswerIdle
    <3>2. CASE /\ read # None /\ opts' = read[1] /\ cursor' = cursor + 1
               /\ Advance("options") /\ UNCHANGED <<request, expanded, query>>
      <4>1. phase' = "options" /\ phase = "options" /\ request' = request /\ expanded' = expanded
        BY <2>5, <3>2, Zenon DEF ParseSegment, Advance
      <4>2. cursor \in Nat
        BY DEF CoreInv, TypeOK
      <4>3. OptionsRead(expanded, cursor, opts)
        BY <4>1, Zenon DEF WorkInv
      <4>4. OptionsRead(expanded', cursor', opts')
        BY <3>2, <4>1, <4>2, <4>3, SegmentRead, Zenon
      <4>5. expanded = ExpandedWith(registry, OptionSegments(request.path))
        BY <4>1 DEF WorkInv, Reading
      <4>6. expanded' = ExpandedWith(registry', OptionSegments(request'.path))
        BY <4>1, <4>5, <2>e, Zenon
      <4>7. phase' # "negotiate" /\ phase' # "resize" /\ phase' # "resize_negotiated"
        BY <4>1
      <4> QED
        BY <4>4, <4>6, <4>7, Zenon DEF WorkInv
    <3> QED
      BY <2>5, <3>1, <3>2, Zenon DEF ParseSegment
  <2>6. CASE ParseSource
    <3> DEFINE source == parse_source(SourceSegments(request.path))
    <3>1. CASE Refuse("bad_request")
      BY <3>1, <1>i, AnswerIdle
    <3>2. CASE /\ query' = into_resize_query(ResolveCrop(opts), source[1])
               /\ Advance("negotiate") /\ UNCHANGED <<request, expanded, cursor>>
      <4>1. /\ phase' = "negotiate" /\ phase = "options" /\ request' = request
            /\ expanded' = expanded /\ cursor = Len(expanded)
        BY <2>6, <3>2, Zenon DEF ParseSource, Advance
      <4>2. OptionsRead(expanded', Len(expanded'), opts)
        BY <4>1, Zenon DEF WorkInv
      <4>3. query' = Built(opts, request'.path)
        BY <3>2, <4>1, Zenon DEF Built
      <4>4. expanded = ExpandedWith(registry, OptionSegments(request.path))
        BY <4>1 DEF WorkInv, Reading
      <4>5. expanded' = ExpandedWith(registry', OptionSegments(request'.path))
        BY <4>1, <4>4, <2>e, Zenon
      <4>6. phase' # "options" /\ phase' # "resize" /\ phase' # "resize_negotiated"
        BY <4>1
      <4> QED
        BY <4>2, <4>3, <4>5, <4>6, Zenon DEF WorkInv
    <3> QED
      BY <2>6, <3>1, <3>2, Zenon DEF ParseSource
  <2>7. CASE Negotiate
    <3>1. /\ phase = "negotiate" /\ UNCHANGED <<request, expanded>>
          /\ query' = Resolved(query, request.accept)
          /\ phase' = IF query.format = "auto" THEN "resize_negotiated" ELSE "resize"
      BY <2>7, Zenon DEF Negotiate, Advance, Resolved, Negotiated
    <3>2. PICK o : OptionsRead(expanded, Len(expanded), o) /\ query = Built(o, request.path)
      BY <3>1, Zenon DEF WorkInv
    <3>3. Len(expanded) \in Nat
      BY DEF CoreInv
    <3>4. expanded = ExpandedWith(registry, OptionSegments(request.path))
      BY <3>1 DEF WorkInv, Reading
    <3>5. expanded' = ExpandedWith(registry', OptionSegments(request'.path))
      BY <3>1, <3>4, <2>e, Zenon
    <3>6. CASE query.format = "auto"
      <4>1. Asked(expanded', request'.path, request'.accept, TRUE, query')
        BY <3>1, <3>2, <3>3, <3>6, Zenon DEF Asked
      <4>2. phase' # "options" /\ phase' # "negotiate" /\ phase' # "resize"
        BY <3>1, <3>6
      <4> QED
        BY <3>5, <4>1, <4>2, Zenon DEF WorkInv
    <3>7. CASE query.format # "auto"
      <4>1. Asked(expanded', request'.path, request'.accept, FALSE, query')
        BY <3>1, <3>2, <3>3, <3>7, Zenon DEF Asked
      <4>2. phase' # "options" /\ phase' # "negotiate" /\ phase' # "resize_negotiated"
        BY <3>1, <3>7
      <4> QED
        BY <3>5, <4>1, <4>2, Zenon DEF WorkInv
    <3> QED
      BY <3>6, <3>7, Zenon
  <2>8. CASE Serve
    BY <2>8, <1>i, AnswerIdle, RedirectIdle, Zenon
       DEF Serve, ServeStored, ServeRendered, ServeFailed
  <2> QED
    BY <1>3, <2>1, <2>2, <2>3, <2>4, <2>5, <2>6, <2>7, <2>8, Zenon DEF Handle
<1>4. CASE UNCHANGED vars
  <2>1. /\ phase' = phase /\ expanded' = expanded /\ registry' = registry /\ request' = request
        /\ cursor' = cursor /\ opts' = opts /\ query' = query
    BY <1>4 DEF vars
  <2> QED
    BY <2>1, Zenon DEF WorkInv
<1> QED
  BY <1>1, <1>2, <1>3, <1>4, Zenon DEF Next, Done

\* Both hold before the first process starts.
LEMMA InitCore == Init => CoreInv /\ WorkInv
<1> SUFFICES ASSUME Init PROVE CoreInv /\ WorkInv
  OBVIOUS
<1>1. TypeOK
  BY DefaultShapes, RequestAssumption DEF Init, TypeOK
<1>2. CoreInv
  BY <1>1 DEF Init, CoreInv
<1>3. WorkInv
  BY DEF Init, WorkInv, Reading
<1> QED
  BY <1>2, <1>3

\* A request's own segments have the last word over the default preset, which
\* parse_with_config puts first: whatever one of them sets, and no later one
\* sets again, is in the options the query is built from.
THEOREM RequestHasTheLastWord == Spec => []RequestOverridesPreset
<1>1. CoreInv /\ WorkInv => RequestOverridesPreset
  <2> SUFFICES ASSUME CoreInv, WorkInv, phase = "options", cursor = Len(expanded),
                      \A i \in 1..Len(OptionSegments(request.path)) :
                          Code(OptionSegments(request.path)[i]) # "pr",
                      NEW i \in 1..Len(OptionSegments(request.path)),
                      NEW f \in DOMAIN Setting(OptionSegments(request.path)[i])
               PROVE  \/ opts[f] = Setting(OptionSegments(request.path)[i])[f]
                      \/ \E j \in (i + 1)..Len(OptionSegments(request.path)) :
                            f \in DOMAIN Setting(OptionSegments(request.path)[j])
    BY Zenon DEF RequestOverridesPreset, Setting
  <2> DEFINE own == OptionSegments(request.path)
             D == DefaultOf(registry)
  <2>1. own \in Seq(Segments)
    BY PathCut, RequestAssumption DEF CoreInv
  <2>2. D \in Seq(Segments)
    <3>1. environment \in Environments /\ service = "ready"
      BY DEF CoreInv, TypeOK
    <3>2. PresetsAccepted(environment) /\ registry = PresetMap(environment)
      BY <3>1, Zenon DEF CoreInv
    <3>3. \A name \in DOMAIN registry : registry[name] \in Seq(Readable)
      BY <3>1, <3>2, RegistryType, Zenon
    <3>4. D \in Seq(Readable)
      BY <3>3 DEF DefaultOf
    <3> HIDE DEF D
    <3> QED
      BY <3>4 DEF Readable
  <2>3. expanded = D \o own
    <3>1. expanded = ExpandedWith(registry, own)
      BY DEF WorkInv, Reading
    <3> QED
      BY <2>1, <3>1, PlainExpansion, Zenon
  <2>4. OptionsRead(expanded, Len(expanded), opts)
    BY Zenon DEF WorkInv
  <2> HIDE DEF own, D
  <2>5. /\ Len(D) + i \in 1..Len(D \o own) /\ (D \o own)[Len(D) + i] = own[i]
    BY <2>1, <2>2 DEF own
  <2>6. f \in OptionFields
    <3>1. Owned(own[i])
      BY <2>3, <2>4, <2>5, Zenon DEF OptionsRead
    <3> QED
      BY <3>1, Zenon DEF Owned, own
  <2>7. LastWord(D, own, f, opts[f])
    <3>1. FieldRead(D \o own, Len(D \o own), f, opts[f])
      BY <2>3, <2>4, <2>6, Zenon DEF OptionsRead
    <3> QED
      BY <2>1, <2>2, <3>1, FieldSplit, Zenon
  <2>8. PICK k \in 1..Len(own) : /\ f \in DOMAIN Setting(own[k])
                                 /\ opts[f] = Setting(own[k])[f]
                                 /\ \A j \in (k + 1)..Len(own) : f \notin DOMAIN Setting(own[j])
    BY <2>7, Zenon DEF LastWord, own
  <2>9. k = i \/ k \in (i + 1)..Len(own) \/ i \in (k + 1)..Len(own)
    <3>1. Len(own) \in Nat /\ i \in 1..Len(own)
      BY <2>1 DEF own
    <3> QED
      BY <3>1
  <2> QED
    BY <2>8, <2>9, Zenon DEF own
<1> QED
  BY <1>1, InitCore, CoreStep, WorkStep, PTL DEF Spec

-----------------------------------------------------------------------------
(* What was answered.  The answers of the current process are what their     *)
(* paths ask for under its presets; those of the processes before it, whose  *)
(* presets are gone, have been compared with each other.                     *)

\* Two answers of SharedCacheSafe, and of OptionOrderIrrelevant.
SharedPair(a, b) ==
    a.path = b.path /\ a.process = b.process /\ (a.vary => a.accept = b.accept) => a.key = b.key

OrderPair(a, b) ==
    LET own(x) == OptionSegments(x.path)
        segments(x) == {own(x)[k] : k \in 1..Len(own(x))}
        simple(x) == /\ \A k, l \in 1..Len(own(x)) : Code(own(x)[k]) = Code(own(x)[l]) => k = l
                     /\ "pr" \notin {Code(s) : s \in segments(x)}
    IN  /\ a.process = b.process
        /\ segments(a) = segments(b) /\ simple(a) /\ simple(b)
        /\ SourceSegments(a.path) = SourceSegments(b.path)
        /\ a.accept = b.accept
        => a.key = b.key

\* An answer whose object is stored.
Kept(a, objects) ==
    /\ a.path \in Seq(Segments)
    /\ QueryOK(a.query)
    /\ a.key = generate_key(a.query)
    /\ a.key \in DOMAIN objects

\* An answer of the process with these presets.
Current(a, presets) ==
    Asked(ExpandedWith(presets, OptionSegments(a.path)), a.path, a.accept, a.vary, a.query)

\* An object that was made for some query with its key.
Made(object, key) ==
    \E q : /\ QueryOK(q) /\ generate_key(q) = key
           /\ Renderable(q, object.made_in)
           /\ object.rendering = Rendering(q, object.made_in)

AnswersInv ==
    /\ IsSequence(answers)
    /\ \A i \in Moved : Kept(answers[i], store)
    /\ \A i \in Moved : /\ answers[i].process \in Nat /\ answers[i].process <= starts
                        /\ answers[i].process = starts =>
                              service # "down" /\ Current(answers[i], registry)
    /\ \A key \in DOMAIN store : Made(store[key], key)
    /\ \A i, j \in Moved : SharedPair(answers[i], answers[j]) /\ OrderPair(answers[i], answers[j])

\* Two answers of one process.
LEMMA CurrentPair ==
    ASSUME NEW presets, DefaultOf(presets) \in Seq(Segments), NEW objects, NEW a, NEW b,
           Kept(a, objects), Kept(b, objects), Current(a, presets), Current(b, presets)
    PROVE  SharedPair(a, b) /\ OrderPair(a, b)
<1>1. SharedPair(a, b)
  <2> SUFFICES ASSUME a.path = b.path, a.vary => a.accept = b.accept PROVE a.key = b.key
    BY Zenon DEF SharedPair
  <2>1. a.query = b.query
    BY AskedUnique, Zenon DEF Current
  <2> QED
    BY <2>1, Zenon DEF Kept
<1>2. OrderPair(a, b)
  <2> DEFINE D == DefaultOf(presets)
             s == OptionSegments(a.path)
             t == OptionSegments(b.path)
  <2> SUFFICES ASSUME {s[k] : k \in 1..Len(s)} = {t[k] : k \in 1..Len(t)},
                      \A k, l \in 1..Len(s) : Code(s[k]) = Code(s[l]) => k = l,
                      \A k, l \in 1..Len(t) : Code(t[k]) = Code(t[l]) => k = l,
                      \A k \in 1..Len(s) : Code(s[k]) # "pr",
                      \A k \in 1..Len(t) : Code(t[k]) # "pr",
                      SourceSegments(a.path) = SourceSegments(b.path), a.accept = b.accept
               PROVE  a.key = b.key
    BY Zenon DEF OrderPair
  <2>1. s \in Seq(Segments) /\ t \in Seq(Segments)
    BY PathCut, Zenon DEF Kept
  <2>2. ExpandedWith(presets, s) = D \o s /\ ExpandedWith(presets, t) = D \o t
    BY <2>1, PlainExpansion, Zenon
  <2>3. PICK o : /\ OptionsRead(D \o s, Len(D \o s), o)
                 /\ a.query = Resolved(Built(o, a.path), a.accept)
    BY <2>2, Zenon DEF Current, Asked
  <2>4. PICK p : /\ OptionsRead(D \o t, Len(D \o t), p)
                 /\ b.query = Resolved(Built(p, b.path), b.accept)
    BY <2>2, Zenon DEF Current, Asked
  <2>5. o = p
    <3> HIDE DEF s, t, D
    <3>1. D \in Seq(Segments)
      BY DEF D
    <3> QED
      BY <2>1, <2>3, <2>4, <3>1, OrderIrrelevant, Zenon
  <2>6. a.query = b.query
    BY <2>3, <2>4, <2>5, Zenon DEF Built
  <2> QED
    BY <2>6, Zenon DEF Kept
<1> QED
  BY <1>1, <1>2

\* The presets of a process that is up.
LEMMA DefaultType ==
    ASSUME CoreInv, service = "ready"
    PROVE  DefaultOf(registry) \in Seq(Segments)
<1>1. environment \in Environments
  BY DEF CoreInv, TypeOK
<1>2. PresetsAccepted(environment) /\ registry = PresetMap(environment)
  BY Zenon DEF CoreInv
<1>3. \A name \in DOMAIN registry : registry[name] \in Seq(Readable)
  BY <1>1, <1>2, RegistryType, Zenon
<1>4. DefaultOf(registry) \in Seq(Readable)
  BY <1>3 DEF DefaultOf
<1> QED
  BY <1>4 DEF Readable

\* A new object, and then maybe a new answer: the request in hand was asked for
\* under the presets of the process.
LEMMA AnswersGrow ==
    ASSUME CoreInv, AnswersInv, phase \in {"resize", "resize_negotiated"},
           UNCHANGED <<starts, service, registry>>,
           NEW vary, Asked(expanded, request.path, request.accept, vary, query),
           expanded = ExpandedWith(registry, OptionSegments(request.path)),
           \A key \in DOMAIN store : key \in DOMAIN store' /\ store'[key] = store[key],
           \A key \in DOMAIN store' : Made(store'[key], key),
           generate_key(query) \in DOMAIN store',
           \/ answers' = answers
           \/ answers' = Append(answers, [key |-> generate_key(query), vary |-> vary,
                  path |-> request.path, accept |-> request.accept, query |-> query,
                  process |-> starts])
    PROVE  AnswersInv'
<1>1. /\ IsSequence(answers)
      /\ \A i \in 1..Len(answers) :
            /\ Kept(answers[i], store')
            /\ answers[i].process \in Nat /\ answers[i].process <= starts
            /\ answers[i].process = starts =>
                  service # "down" /\ Current(answers[i], registry)
            /\ \A j \in 1..Len(answers) :
                  SharedPair(answers[i], answers[j]) /\ OrderPair(answers[i], answers[j])
  BY Zenon DEF AnswersInv, Kept, Moved
<1>2. CASE answers' = answers
  BY <1>1, <1>2, Zenon DEF AnswersInv, Moved
<1>3. CASE answers' # answers
  <2> DEFINE a == [key |-> generate_key(query), vary |-> vary,
                   path |-> request.path, accept |-> request.accept, query |-> query,
                   process |-> starts]
             n == Len(answers)
  <2>1. answers' = Append(answers, a)
    BY <1>3
  <2>2. /\ a.key = generate_key(query) /\ a.vary = vary /\ a.path = request.path
        /\ a.accept = request.accept /\ a.query = query /\ a.process = starts
    OBVIOUS
  <2> HIDE DEF a
  <2>3. PICK T : answers \in Seq(T)
    BY <1>1, Zenon DEF IsSequence
  <2>4. /\ answers' \in Seq(T \cup {a}) /\ Len(answers') = n + 1 /\ n \in Nat
        /\ \A i \in 1..n : answers'[i] = answers[i]
        /\ answers'[n + 1] = a
    BY <2>1, <2>3, AppendFacts
  <2>5. IsSequence(answers')
    BY <2>4, Zenon DEF IsSequence
  <2> HIDE DEF n
  <2>6. \A i \in 1..(n + 1) : i \in 1..n \/ i = n + 1
    BY <2>4
  <2>7. Kept(a, store')
    <3>1. request \in Requests
      BY DEF CoreInv
    <3>2. request.path \in Seq(Segments)
      BY <3>1, RequestAssumption
    <3>3. QueryOK(query)
      BY AskedOK, Zenon
    <3> QED
      BY <2>2, <3>2, <3>3, Zenon DEF Kept
  <2>8. Current(a, registry)
    BY <2>2, Zenon DEF Current
  <2>9. service = "ready" /\ starts \in Nat
    BY DEF CoreInv, TypeOK
  <2>10. DefaultOf(registry) \in Seq(Segments)
    BY <2>9, DefaultType
  <2>11. ASSUME NEW b, Kept(b, store'), b.process = starts => Current(b, registry)
         PROVE  SharedPair(a, b) /\ OrderPair(a, b) /\ SharedPair(b, a) /\ OrderPair(b, a)
    <3>1. CASE b.process = starts
      BY <2>7, <2>8, <2>10, <2>11, <3>1, CurrentPair, Zenon
    <3>2. CASE b.process # starts
      BY <2>2, <3>2, Zenon DEF SharedPair, OrderPair
    <3> QED
      BY <3>1, <3>2, Zenon
  <2>12. \A i \in 1..(n + 1) : Kept(answers'[i], store')
    BY <1>1, <2>4, <2>6, <2>7, Zenon DEF n
  <2>13. ASSUME NEW i \in 1..(n + 1)
         PROVE  /\ answers'[i].process \in Nat /\ answers'[i].process <= starts
                /\ answers'[i].process = starts =>
                      service # "down" /\ Current(answers'[i], registry)
    <3>1. CASE i \in 1..n
      BY <1>1, <2>4, <3>1, Zenon DEF n
    <3>2. CASE i = n + 1
      <4>1. service # "down" /\ starts <= starts
        BY <2>9
      <4> QED
        BY <2>2, <2>4, <2>8, <2>9, <3>2, <4>1, Zenon
    <3> QED
      BY <2>6, <3>1, <3>2, Zenon
  <2>14. ASSUME NEW i \in 1..(n + 1), NEW j \in 1..(n + 1)
         PROVE  SharedPair(answers'[i], answers'[j]) /\ OrderPair(answers'[i], answers'[j])
    <3>1. CASE i \in 1..n /\ j \in 1..n
      BY <1>1, <2>4, <3>1, Zenon DEF n
    <3>2. CASE i = n + 1
      BY <2>4, <2>11, <2>12, <2>13, <3>2, Zenon
    <3>3. CASE j = n + 1
      BY <2>4, <2>11, <2>12, <2>13, <3>3, Zenon
    <3> QED
      BY <2>6, <3>1, <3>2, <3>3, Zenon
  <2>15. /\ \A i \in Moved' : Kept(answers'[i], store')
         /\ \A i \in Moved' : /\ answers'[i].process \in Nat /\ answers'[i].process <= starts'
                              /\ answers'[i].process = starts' =>
                                    service' # "down" /\ Current(answers'[i], registry')
         /\ \A i, j \in Moved' :
               SharedPair(answers'[i], answers'[j]) /\ OrderPair(answers'[i], answers'[j])
    <3>1. Moved' = 1..(n + 1) /\ starts' = starts /\ service' = service /\ registry' = registry
      BY <2>4 DEF Moved
    <3> QED
      BY <2>12, <2>13, <2>14, <3>1, Zenon
  <2> QED
    BY <2>5, <2>15, Zenon DEF AnswersInv
<1> QED
  BY <1>2, <1>3

\* Every step keeps what is known of the redirects given.
LEMMA AnswersStep == CoreInv /\ WorkInv /\ AnswersInv /\ [Next]_vars => AnswersInv'
<1> SUFFICES ASSUME CoreInv, WorkInv, AnswersInv, [Next]_vars PROVE AnswersInv'
  OBVIOUS
<1>k. ASSUME UNCHANGED <<answers, store, starts, service, registry>> PROVE AnswersInv'
  <2>1. /\ answers' = answers /\ store' = store /\ starts' = starts /\ service' = service
        /\ registry' = registry
    BY <1>k
  <2> QED
    BY <2>1, Zenon DEF AnswersInv, Moved
<1>g. ASSUME UNCHANGED <<answers, store>>,
             \A i \in Moved : answers[i].process <= starts' /\ answers[i].process # starts'
      PROVE  AnswersInv'
  <2>1. answers' = answers /\ store' = store
    BY <1>g
  <2> QED
    BY <1>g, <2>1, Zenon DEF AnswersInv, Moved
<1>1. CASE Create
  <2>1. service = "down" /\ starts' = starts /\ UNCHANGED <<answers, store>>
    BY <1>1 DEF Create, given
  <2> QED
    BY <2>1, <1>g, Zenon DEF AnswersInv
<1>2. CASE Redeploy
  <2>1. starts' = starts + 1 /\ UNCHANGED <<answers, store>> /\ starts \in Nat
    BY <1>2 DEF Redeploy, given, CoreInv, TypeOK
  <2>2. \A m \in Nat : m <= starts => m <= starts' /\ m # starts'
    BY <2>1
  <2>3. \A i \in Moved : answers[i].process <= starts' /\ answers[i].process # starts'
    BY <2>2, Zenon DEF AnswersInv
  <2> QED
    BY <2>1, <2>3, <1>g, Zenon
<1>3. CASE Handle
  <2>e. starts' = starts /\ service' = service /\ registry' = registry /\ environment' = environment
    BY <1>3, Zenon DEF Handle
  <2>a. ASSUME NEW next, Advance(next) PROVE AnswersInv'
    BY <2>a, <2>e, <1>k DEF Advance, given
  <2>r. ASSUME NEW code, Refuse(code) PROVE AnswersInv'
    BY <2>r, <2>e, <1>k DEF Refuse
  <2>1. ASSUME NEW r \in Requests, Receive(r) PROVE AnswersInv'
    BY <2>1, <2>a, Zenon DEF Receive
  <2>2. CASE Split \/ Verify \/ Expand \/ ParseSegment \/ ParseSource \/ Negotiate
    BY <2>2, <2>a, <2>r, Zenon DEF Split, Verify, Expand, ParseSegment, ParseSource, Negotiate
  <2>3. CASE ServeFailed
    BY <2>3, <2>r, Zenon DEF ServeFailed
  <2>s. ASSUME phase \in {"resize", "resize_negotiated"}
        PROVE  /\ Asked(expanded, request.path, request.accept, phase = "resize_negotiated", query)
               /\ expanded = ExpandedWith(registry, OptionSegments(request.path))
    <3>1. phase \in Reading
      BY <2>s DEF Reading
    <3>2. CASE phase = "resize"
      <4>1. (phase = "resize_negotiated") = FALSE
        BY <3>2
      <4> QED
        BY <3>1, <3>2, <4>1, Zenon DEF WorkInv
    <3>3. CASE phase = "resize_negotiated"
      <4>1. (phase = "resize_negotiated") = TRUE
        BY <3>3
      <4> QED
        BY <3>1, <3>3, <4>1, Zenon DEF WorkInv
    <3> QED
      BY <2>s, <3>2, <3>3
  <2>4. ASSUME phase \in {"resize", "resize_negotiated"}, Redirect(generate_key(query)),
               \A key \in DOMAIN store : key \in DOMAIN store' /\ store'[key] = store[key],
               \A key \in DOMAIN store' : Made(store'[key], key),
               generate_key(query) \in DOMAIN store'
        PROVE  AnswersInv'
    <3> DEFINE vary == phase = "resize_negotiated"
    <3>1. \/ answers' = answers
          \/ answers' = Append(answers, [key |-> generate_key(query), vary |-> vary,
                 path |-> request.path, accept |-> request.accept, query |-> query,
                 process |-> starts])
      BY <2>4, Zenon DEF Redirect
    <3>2. /\ Asked(expanded, request.path, request.accept, vary, query)
          /\ expanded = ExpandedWith(registry, OptionSegments(request.path))
      BY <2>4, <2>s
    <3> HIDE DEF vary
    <3> QED
      BY <2>4, <2>e, <3>1, <3>2, AnswersGrow, Zenon
  <2>5. CASE ServeStored
    <3>1. store' = store /\ generate_key(query) \in DOMAIN store
      BY <2>5, Zenon DEF ServeStored
    <3>2. \A key \in DOMAIN store' : Made(store'[key], key)
      BY <3>1, Zenon DEF AnswersInv
    <3> QED
      BY <2>5, <2>4, <3>1, <3>2, Zenon DEF ServeStored
  <2>6. CASE ServeRendered
    <3> DEFINE key == generate_key(query)
               object == [rendering |-> Rendering(query, environment), process |-> starts,
                          made_in |-> environment, asked_with |-> SignatureSegment(request)]
    <3>1. /\ store' = (key :> object) @@ store /\ key \notin DOMAIN store
          /\ Renderable(query, environment) /\ phase \in {"resize", "resize_negotiated"}
          /\ Redirect(key)
      BY <2>6, Zenon DEF ServeRendered
    <3>2. object.rendering = Rendering(query, environment) /\ object.made_in = environment
      BY Zenon
    <3>3. QueryOK(query)
      BY <3>1, <2>s, AskedOK
    <3>4. Made(object, key)
      <4> HIDE DEF object
      <4> QED
        BY <3>1, <3>2, <3>3, Zenon DEF Made
    <3> HIDE DEF key, object
    <3>5. /\ DOMAIN store' = {key} \cup DOMAIN store
          /\ store'[key] = object
          /\ \A x \in DOMAIN store \ {key} : store'[x] = store[x]
      BY <3>1 DEF :>, @@
    <3>6. \A x \in DOMAIN store : x \in DOMAIN store' /\ store'[x] = store[x]
      BY <3>1, <3>5
    <3>7. \A x \in DOMAIN store : Made(store[x], x)
      BY Zenon DEF AnswersInv
    <3>8. \A x \in DOMAIN store' : Made(store'[x], x)
      BY <3>4, <3>5, <3>6, <3>7, Zenon
    <3>9. key \in DOMAIN store'
      BY <3>5
    <3> QED
      BY <2>4, <3>1, <3>6, <3>8, <3>9, Zenon DEF key
  <2> QED
    BY <1>3, <2>1, <2>2, <2>3, <2>5, <2>6, Zenon DEF Handle, Serve
<1>4. CASE UNCHANGED vars
  BY <1>4, <1>k DEF vars
<1> QED
  BY <1>1, <1>2, <1>3, <1>4, Zenon DEF Next, Done

\* None has been given at first.
LEMMA InitAnswers == Init => AnswersInv
<1> SUFFICES ASSUME Init PROVE AnswersInv
  OBVIOUS
<1>1. IsSequence(answers) /\ Moved = {} /\ DOMAIN store = {}
  BY DEF Init, IsSequence, Moved
<1> QED
  BY <1>1 DEF AnswersInv

\* It holds throughout.
LEMMA AnswersInvariant == Spec => []AnswersInv
  BY InitCore, InitAnswers, CoreStep, WorkStep, AnswersStep, PTL DEF Spec

\* A redirect leads to what was asked for (CacheService::generate_key): whatever
\* is stored under the key of an answer was rendered as the answer's own query
\* would have been, whichever request, of whichever process, came first.
THEOREM EveryoneIsServedAsAsked == Spec => []ServedAsAsked
<1>1. AnswersInv => ServedAsAsked
  <2> SUFFICES ASSUME AnswersInv, NEW i \in Moved,
                      Renderable(answers[i].query, store[answers[i].key].made_in)
               PROVE  store[answers[i].key].rendering
                         = Rendering(answers[i].query, store[answers[i].key].made_in)
    BY Zenon DEF ServedAsAsked
  <2> DEFINE p == answers[i].query
             object == store[answers[i].key]
  <2>1. QueryOK(p) /\ answers[i].key = generate_key(p) /\ answers[i].key \in DOMAIN store
    BY Zenon DEF AnswersInv, Kept
  <2>2. PICK q : /\ QueryOK(q) /\ generate_key(q) = answers[i].key
                 /\ Renderable(q, object.made_in)
                 /\ object.rendering = Rendering(q, object.made_in)
    BY <2>1, Zenon DEF AnswersInv, Made
  <2>3. Rendering(q, object.made_in) = Rendering(p, object.made_in)
    <3>1. generate_key(q) = generate_key(p) /\ Renderable(p, object.made_in)
      BY <2>1, <2>2, Zenon
    <3> HIDE DEF p, object
    <3> QED
      BY <2>1, <2>2, <3>1, KeyDeterminesRendering
  <2> QED
    BY <2>2, <2>3, Zenon
<1> QED
  BY <1>1, AnswersInvariant, PTL

\* The year-long public redirect (redirect_response) may be replayed by a shared
\* cache: within one process, whoever asks for the same path, with the same
\* Accept where the answer says Vary, is sent to the same object.
THEOREM RedirectsMayBeShared == Spec => []SharedCacheSafe
<1>1. AnswersInv => SharedCacheSafe
  BY Zenon DEF AnswersInv, SharedCacheSafe, SharedPair
<1> QED
  BY <1>1, AnswersInvariant, PTL

\* Options are an unordered set (parse's two-step crop): in one process, paths
\* that differ in the order of their options only, none of them given twice,
\* lead to one object.
THEOREM OrderOfOptionsIsIrrelevant == Spec => []OptionOrderIrrelevant
<1>1. AnswersInv => OptionOrderIrrelevant
  BY Zenon DEF AnswersInv, OptionOrderIrrelevant, OrderPair
<1> QED
  BY <1>1, AnswersInvariant, PTL

=============================================================================
