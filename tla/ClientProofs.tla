---------------------------- MODULE ClientProofs ----------------------------
(***************************************************************************)
(* Proofs about the two clients under src/client.                          *)
(*                                                                         *)
(* One GET of a Zeytun page (zeytun.c over tls.c): what is open on every   *)
(* path (SessionInv), slurp's buffer (BufferInv), and that the request and *)
(* the answer come through whole (FaithInv).  The two recursive functions, *)
(* the doubling loop and FlattenSeq, are shown to have solutions by their  *)
(* least counterexample.                                                   *)
(*                                                                         *)
(* Taking turns (zigurat.c): for any number of connections and any bound   *)
(* on the wait the flag and the lock agree, and what a connection has at   *)
(* the server it has while it holds the turn (TurnInv).                    *)
(***************************************************************************)
EXTENDS ZeytunGet, WellFoundedInduction, SequenceTheorems, TLAPS

-----------------------------------------------------------------------------
(* The session *)

\* What is open goes with where zt_get2 stands: nothing before the socket is dialled and after
\* the return, nothing sent before coco_client_tls_open is through, and then a session, with the
\* name checked or the check waived, where TLS is configured.
SessionInv ==
  /\ pc \in {"idle", "dial", "send", "read"} \cup DOMAIN After
  /\ fd \in BOOLEAN /\ tls \subseteq {"ctx", "ssl", "up"}
  /\ pc \in {"idle", "dial"} => ~fd /\ tls = {}
  /\ pc \in {"dial"} \cup DOMAIN After => seen = <<>>
  /\ pc \in {"send", "read"} /\ opts.on => "up" \in tls /\ (peer \/ opts.insecure)

\* The steps of coco_client_tls_open and where each goes.
LEMMA Steps ==
  /\ DOMAIN After = {"ctx", "authority", "pair", "ssl", "name", "socket", "connect"}
  /\ After["connect"] = "send"
  /\ \A p \in DOMAIN After \ {"connect"} : After[p] \in DOMAIN After
  BY DEF After

\* No socket and no session at the start.
LEMMA SessionInit == Init => SessionInv
  BY Steps DEF Init, SessionInv

\* coco_client_tls_open: a step made, or `bad' and everything freed; connect succeeds only
\* with the name checked or the check waived.
LEMMA SessionTls == SessionInv /\ TlsStep => SessionInv'
<1> SUFFICES ASSUME SessionInv, TlsStep PROVE SessionInv'
  OBVIOUS
<1>1. pc \in DOMAIN After /\ seen' = seen /\ seen = <<>> /\ opts' = opts /\ peer' = peer
  BY DEF TlsStep, SessionInv, Talk
<1>2. CASE TlsBad
  BY <1>1, <1>2 DEF TlsBad, Hangup, Fail, SessionInv
<1>3. CASE ~TlsBad
  <2>1. /\ pc = "connect" /\ NameChecked => peer
        /\ tls' = tls \cup (IF pc \in {"ctx", "ssl"} THEN {pc}
                            ELSE IF pc = "connect" THEN {"up"} ELSE {})
        /\ pc' = After[pc] /\ fd' = fd
    BY <1>3 DEF TlsStep
  <2>2. CASE pc = "connect"
    BY <1>1, <2>1, <2>2, Steps DEF SessionInv, NameChecked
  <2>3. CASE pc # "connect"
    BY <1>1, <2>1, <2>3, Steps, Zenon DEF SessionInv
  <2> QED BY <2>2, <2>3
<1> QED BY <1>2, <1>3

\* Every step of zt_get2 keeps what is open in step with where it stands.
LEMMA SessionStep == SessionInv /\ [Next]_vars => SessionInv'
<1> SUFFICES ASSUME SessionInv, [Next]_vars PROVE SessionInv'
  OBVIOUS
<1>1. CASE UNCHANGED vars
  BY <1>1 DEF SessionInv, vars
<1>2. ASSUME NEW o \in Options, Configure(o) PROVE SessionInv'
  BY <1>2, Steps DEF Configure, SessionInv, Session, Talk
<1>3. ASSUME NEW a \in Args, Get(a) PROVE SessionInv'
  <2>1. pc = "idle" /\ pc' \in {"dial", "idle"} /\ seen' = <<>> /\ fd' = fd /\ tls' = tls
    BY <1>3 DEF Get, Session
  <2> QED BY <2>1, Steps DEF SessionInv
<1>4. CASE Dial
  <2>1. pc = "dial" /\ opts' = opts /\ peer' = peer /\ tls' = tls /\ seen' = seen
    BY <1>4 DEF Dial, Talk
  <2>2. CASE fd' = TRUE /\ pc' = (IF opts.on THEN "ctx" ELSE "send")
    BY <2>1, <2>2, Steps DEF SessionInv
  <2>3. CASE pc' = "idle" /\ fd' = fd
    BY <2>1, <2>3, Steps DEF SessionInv
  <2> QED BY <1>4, <2>2, <2>3 DEF Dial, Fail
<1>5. CASE TlsStep
  BY <1>5, SessionTls
<1>6. CASE Send
  BY <1>6, Steps DEF Send, Hangup, Fail, SessionInv, Session
<1>7. CASE Read \/ Serve \/ ServerDies
  BY <1>7, Steps DEF Read, Serve, ServerDies, SessionInv, Session
<1>8. CASE Parse
  BY <1>8, Steps DEF Parse, Hangup, SessionInv, Talk
<1>9. CASE ReadFails
  BY <1>9, Steps DEF ReadFails, Hangup, Fail, SessionInv, Session
<1> QED BY <1>1, <1>2, <1>3, <1>4, <1>5, <1>6, <1>7, <1>8, <1>9 DEF Next

\* What is open, what is allocated and what was sent agree with where zt_get2 stands, on
\* every path through client/zeytun.c and client/tls.c.
THEOREM SessionHolds == Spec => []SessionInv
  BY SessionInit, SessionStep, PTL DEF Spec

\* Whatever way zt_get2 returns, the socket is closed and the TLS half is freed.
THEOREM NothingLeftHolds == Spec => []NothingLeft
<1>1. SessionInv => NothingLeft
  BY DEF SessionInv, NothingLeft
<1> QED BY <1>1, SessionHolds, PTL

\* Of a process configured for TLS no part of a request leaves before coco_client_tls_open
\* has a session, to a peer whose name was checked unless it asked for no check.
THEOREM SentInsideSessionHolds == Spec => []SentInsideSession
<1>1. SessionInv => SentInsideSession
  BY Steps DEF SessionInv, SentInsideSession
<1> QED BY <1>1, SessionHolds, PTL

-----------------------------------------------------------------------------
(* The buffer *)

\* A set of natural numbers that is not empty has a least member.
LEMMA LeastMember ==
  ASSUME NEW S \in SUBSET Nat, S # {}
  PROVE  \E m \in S : \A n \in S : m <= n
<1>1. PICK m \in S : \A n \in S : ~ (<<n, m>> \in OpToRel(<, Nat))
  BY NatLessThanWellFounded, WFMin
<1>2. ASSUME NEW n \in S, n < m PROVE FALSE
  <2>1. <<n, m>> \in {ss \in Nat \X Nat : ss[1] < ss[2]}
    BY <1>2
  <2>2. <<n, m>> \in OpToRel(<, Nat)
    BY <2>1, Zenon DEF OpToRel
  <2> QED BY <2>2, <1>1
<1> QED BY <1>2

\* What slurp's doubling loop computes from every size c: the loop's equation.
Doubles(N, g) == \A c \in Nat : g[c] = IF N > c THEN g[2 * c] ELSE c
DoublesFrom(N, g, m) == \A c \in Nat : c + m >= N => g[c] = IF N > c THEN g[2 * c] ELSE c

\* A solution of the loop's equation on the sizes above N - m is one more size long.
LEMMA DoublesMore ==
  ASSUME NEW N \in Nat, NEW m \in Nat, m < N, NEW g \in [Nat -> Nat], DoublesFrom(N, g, m)
  PROVE  \E h \in [Nat -> Nat] : DoublesFrom(N, h, m + 1)
<1>1. PICK z \in Nat : z + m + 1 = N
  <2>1. N - m - 1 \in Nat /\ (N - m - 1) + m + 1 = N
    OBVIOUS
  <2> QED BY <2>1
<1>2. PICK d \in Nat : d = g[2 * z]
  OBVIOUS
<1>3. PICK h \in [Nat -> Nat] : h[z] = d /\ \A c \in Nat : c # z => h[c] = g[c]
  <2>1. [g EXCEPT ![z] = d] \in [Nat -> Nat]
    OBVIOUS
  <2> QED BY <2>1, Zenon
<1>4. ASSUME NEW c \in Nat, c + (m + 1) >= N
      PROVE  h[c] = IF N > c THEN h[2 * c] ELSE c
  <2>1. CASE c = z
    <3>1. N > c
      BY <1>1, <2>1
    <3>2. CASE z = 0
      BY <1>3, <2>1, <3>2
    <3>3. CASE z # 0
      <4>1. 2 * z \in Nat /\ 2 * z # z
        BY <3>3
      <4> QED BY <1>2, <1>3, <2>1, <3>1, <4>1
    <3> QED BY <3>2, <3>3
  <2>2. CASE c # z
    <3>1. c > z /\ 2 * c > z /\ 2 * c \in Nat /\ c + m >= N
      BY <1>1, <1>4, <2>2
    <3>2. h[c] = g[c] /\ h[2 * c] = g[2 * c]
      BY <1>3, <3>1
    <3>3. g[c] = IF N > c THEN g[2 * c] ELSE c
      BY <3>1 DEF DoublesFrom
    <3> QED BY <3>2, <3>3
  <2> QED BY <2>1, <2>2
<1> QED BY <1>4 DEF DoublesFrom

\* The loop ends from every size: its equation has a solution.
LEMMA DoublesEnds ==
  ASSUME NEW N \in Nat
  PROVE  \E g \in [Nat -> Nat] : Doubles(N, g)
<1> DEFINE Bad == {m \in 0 .. N : ~ \E g \in [Nat -> Nat] : DoublesFrom(N, g, m)}
<1>1. Bad = {}
  <2> SUFFICES ASSUME Bad # {} PROVE FALSE
    OBVIOUS
  <2>1. PICK m \in Bad : \A k \in Bad : m <= k
    <3>1. Bad \in SUBSET Nat
      OBVIOUS
    <3> HIDE DEF Bad
    <3> QED BY <3>1, LeastMember
  <2>2. m \in 0 .. N /\ ~ \E g \in [Nat -> Nat] : DoublesFrom(N, g, m)
    BY <2>1
  <2>3. CASE m = 0
    <3>1. PICK g \in [Nat -> Nat] : \A c \in Nat : g[c] = c
      <4>1. [c \in Nat |-> c] \in [Nat -> Nat]
        OBVIOUS
      <4> QED BY <4>1, Zenon
    <3>2. DoublesFrom(N, g, 0)
      BY <3>1 DEF DoublesFrom
    <3> QED BY <2>2, <2>3, <3>2
  <2>4. CASE m # 0
    <3>1. PICK j \in Nat : m = j + 1 /\ j < N
      <4>1. m - 1 \in Nat /\ m = (m - 1) + 1 /\ m - 1 < N
        BY <2>2, <2>4
      <4> QED BY <4>1
    <3>2. j \notin Bad
      BY <2>1, <2>2, <3>1
    <3>3. PICK g \in [Nat -> Nat] : DoublesFrom(N, g, j)
      BY <3>1, <3>2
    <3> HIDE DEF Bad
    <3>4. \E h \in [Nat -> Nat] : DoublesFrom(N, h, j + 1)
      BY <3>1, <3>3, DoublesMore, Zenon
    <3> QED BY <2>2, <3>1, <3>4
  <2> QED BY <2>3, <2>4
<1>2. PICK g \in [Nat -> Nat] : DoublesFrom(N, g, N)
  <2>1. N \in 0 .. N /\ N \notin Bad
    BY <1>1
  <2> QED BY <2>1, Zenon
<1>3. Doubles(N, g)
  BY <1>2 DEF Doubles, DoublesFrom
<1> QED BY <1>3

\* From a size that holds what was read so far the loop doubles once at most, and
\* leaves room for another chunk.
LEMMA GrownIs ==
  ASSUME NEW n \in Nat, cap \in Nat, n < cap, cap >= 2 * Chunk
  PROVE  Grown(n) \in Nat /\ Grown(n) >= cap /\ Grown(n) >= n + Chunk
<1> DEFINE N == n + Chunk
           G(g) == g = [c \in Nat |-> IF n + Chunk > c THEN g[2 * c] ELSE c]
           f == CHOOSE g : G(g)
<1>1. N \in Nat /\ Chunk \in Nat
  BY ChunkAssumption
<1>2. \E g : G(g)
  <2>1. PICK g \in [Nat -> Nat] : Doubles(N, g)
    BY <1>1, DoublesEnds, Zenon
  <2>2. g = [c \in Nat |-> IF N > c THEN g[2 * c] ELSE c]
    BY <2>1 DEF Doubles
  <2> QED BY <2>2
<1>3. G(f)
  BY <1>2
<1>4. Grown(n) = f[cap]
  BY DEF Grown
<1> HIDE DEF f
<1>5. \A c \in Nat : f[c] = IF N > c THEN f[2 * c] ELSE c
  BY <1>3
<1>6. 2 * cap \in Nat /\ N <= 2 * cap
  BY <1>1
<1>7. f[2 * cap] = 2 * cap
  BY <1>1, <1>5, <1>6
<1>8. f[cap] = IF N > cap THEN 2 * cap ELSE cap
  BY <1>5, <1>7
<1> QED BY <1>1, <1>4, <1>8

-----------------------------------------------------------------------------
(* The answer *)

\* One sequence after another is a sequence.
LEMMA ConcatType ==
  ASSUME NEW S, NEW s \in Seq(S), NEW t \in Seq(S)
  PROVE  s \o t \in Seq(S)
  OBVIOUS

\* One sequence after another.
LEMMA ConcatIs ==
  ASSUME NEW S, NEW s \in Seq(S), NEW t \in Seq(S)
  PROVE  /\ s \o t \in Seq(S) /\ Len(s \o t) = Len(s) + Len(t)
         /\ \A i \in 1 .. Len(s) : (s \o t)[i] = s[i]
         /\ \A i \in 1 .. Len(t) : (s \o t)[Len(s) + i] = t[i]
<1> DEFINE u == s \o t
<1>1. /\ u \in Seq(S) /\ Len(u) = Len(s) + Len(t)
      /\ \A i \in 1 .. Len(s) + Len(t) : u[i] = IF i <= Len(s) THEN s[i] ELSE t[i - Len(s)]
  BY ConcatProperties
<1>2. Len(s) \in Nat /\ Len(t) \in Nat
  OBVIOUS
<1> HIDE DEF u
<1>3. ASSUME NEW i \in 1 .. Len(s) PROVE u[i] = s[i]
  BY <1>1, <1>2
<1>4. ASSUME NEW i \in 1 .. Len(t) PROVE u[Len(s) + i] = t[i]
  <2>1. PICK j \in 1 .. Len(s) + Len(t) : j = Len(s) + i
    BY <1>2
  <2>2. ~ (j <= Len(s)) /\ j - Len(s) = i
    BY <1>2, <2>1
  <2>3. u[j] = t[j - Len(s)]
    BY <1>1, <2>2
  <2> QED BY <2>1, <2>2, <2>3
<1> QED BY <1>1, <1>3, <1>4 DEF u

\* FlattenSeq of q, by its equation.
Flattens(q, f) ==
  f = [i \in 1 .. Len(q) |-> IF i = 1 THEN q[i] ELSE f[i - 1] \o q[i]]

\* The equation has a solution, a sequence at every place.
LEMMA FlattenEnds ==
  ASSUME NEW S, NEW q \in Seq(Seq(S)), Len(q) > 0
  PROVE  \E f \in [1 .. Len(q) -> Seq(S)] : Flattens(q, f)
<1> DEFINE n == Len(q)
           Upto(f, m) == \A i \in 1 .. m : f[i] = IF i = 1 THEN q[i] ELSE f[i - 1] \o q[i]
           Bad == {m \in 1 .. n : ~ \E f \in [1 .. n -> Seq(S)] : Upto(f, m)}
<1>0. n \in Nat /\ n > 0 /\ q \in [1 .. n -> Seq(S)]
  OBVIOUS
<1> HIDE DEF n
<1>1. Bad = {}
  <2> SUFFICES ASSUME Bad # {} PROVE FALSE
    OBVIOUS
  <2>1. PICK m \in Bad : \A k \in Bad : m <= k
    <3>1. Bad \in SUBSET Nat
      BY <1>0
    <3> HIDE DEF Bad
    <3> QED BY <3>1, LeastMember, Zenon
  <2>2. m \in 1 .. n /\ ~ \E f \in [1 .. n -> Seq(S)] : Upto(f, m)
    BY <2>1
  <2>3. CASE m = 1
    <3>1. Upto(q, 1)
      OBVIOUS
    <3> QED BY <1>0, <2>2, <2>3, <3>1
  <2>4. CASE m # 1
    <3>1. PICK j \in 1 .. n : m = j + 1
      <4>1. m - 1 \in 1 .. n /\ m = (m - 1) + 1
        BY <1>0, <2>2, <2>4
      <4> QED BY <4>1
    <3>2. j \notin Bad
      <4> HIDE DEF Bad
      <4> QED BY <1>0, <2>1, <2>2, <3>1
    <3>3. PICK f \in [1 .. n -> Seq(S)] : Upto(f, j)
      BY <3>2, Zenon
    <3>4. PICK x \in Seq(S) : x = f[j] \o q[m]
      <4>1. f[j] \in Seq(S) /\ q[m] \in Seq(S)
        BY <1>0, <2>2
      <4> QED BY <4>1, ConcatType, Zenon
    <3>5. PICK g \in [1 .. n -> Seq(S)] : g[m] = x /\ \A i \in 1 .. n : i # m => g[i] = f[i]
      <4>1. [f EXCEPT ![m] = x] \in [1 .. n -> Seq(S)]
        OBVIOUS
      <4> QED BY <2>2, <4>1, Zenon
    <3>6. ASSUME NEW i \in 1 .. m PROVE g[i] = IF i = 1 THEN q[i] ELSE g[i - 1] \o q[i]
      <4>1. CASE i = m
        <5>1. i # 1 /\ i - 1 = j /\ j # m
          BY <2>2, <2>4, <3>1, <4>1
        <5>2. g[i] = f[j] \o q[i] /\ g[j] = f[j]
          BY <3>4, <3>5, <4>1, <5>1, Zenon
        <5> QED BY <5>1, <5>2, Zenon
      <4>2. CASE i # m
        <5>1. i \in 1 .. j /\ i \in 1 .. n /\ (i # 1 => i - 1 \in 1 .. n /\ i - 1 # m)
          BY <1>0, <2>2, <3>1, <4>2
        <5>2. f[i] = IF i = 1 THEN q[i] ELSE f[i - 1] \o q[i]
          BY <3>3, <5>1, Zenon
        <5> QED BY <3>5, <4>2, <5>1, <5>2, Zenon
      <4> QED BY <4>1, <4>2
    <3> QED BY <2>2, <3>6, Zenon
  <2> QED BY <2>3, <2>4
<1>2. PICK f \in [1 .. n -> Seq(S)] : Upto(f, n)
  <2>1. n \in 1 .. n
    BY <1>0
  <2>2. n \notin Bad
    BY <1>1, Zenon
  <2> QED BY <2>1, <2>2, Zenon
<1>3. f = [i \in 1 .. n |-> IF i = 1 THEN q[i] ELSE f[i - 1] \o q[i]]
  BY <1>2, Zenon
<1> QED BY <1>3, Zenon DEF n, Flattens

\* Two solutions are one.
LEMMA FlattenOnce ==
  ASSUME NEW S, NEW q \in Seq(Seq(S)), NEW f, NEW g, Flattens(q, f), Flattens(q, g)
  PROVE  f = g
<1> DEFINE n == Len(q)
           Bad == {i \in 1 .. n : f[i] # g[i]}
<1>0. /\ n \in Nat /\ DOMAIN f = 1 .. n /\ DOMAIN g = 1 .. n
      /\ f = [i \in 1 .. n |-> IF i = 1 THEN q[i] ELSE f[i - 1] \o q[i]]
      /\ g = [i \in 1 .. n |-> IF i = 1 THEN q[i] ELSE g[i - 1] \o q[i]]
  <2>1. n \in Nat
    OBVIOUS
  <2> HIDE DEF n
  <2>2. /\ f = [i \in 1 .. n |-> IF i = 1 THEN q[i] ELSE f[i - 1] \o q[i]]
        /\ g = [i \in 1 .. n |-> IF i = 1 THEN q[i] ELSE g[i - 1] \o q[i]]
    BY Zenon DEF Flattens, n
  <2> QED BY <2>1, <2>2, Zenon
<1> HIDE DEF n
<1>1. Bad = {}
  <2> SUFFICES ASSUME Bad # {} PROVE FALSE
    OBVIOUS
  <2>1. PICK m \in Bad : \A k \in Bad : m <= k
    <3>1. Bad \in SUBSET Nat
      BY <1>0
    <3> HIDE DEF Bad
    <3> QED BY <3>1, LeastMember, Zenon
  <2>2. m \in 1 .. n /\ f[m] # g[m]
    BY <2>1
  <2>3. /\ f[m] = IF m = 1 THEN q[m] ELSE f[m - 1] \o q[m]
        /\ g[m] = IF m = 1 THEN q[m] ELSE g[m - 1] \o q[m]
    BY <1>0, <2>2, Zenon
  <2>4. m # 1 /\ m - 1 \in 1 .. n /\ ~ (m <= m - 1)
    <3>1. m # 1 /\ n \in Nat
      BY <1>0, <2>2, <2>3, Zenon
    <3> QED BY <2>2, <3>1
  <2>5. f[m - 1] = g[m - 1]
    BY <2>1, <2>4, Zenon
  <2> QED BY <2>2, <2>3, <2>4, <2>5, Zenon
<1>2. \A i \in 1 .. n : f[i] = g[i]
  BY <1>1
<1> QED BY <1>0, <1>2

\* The conversions, which flatten, make a sequence of its members.
LEMMA FlattenType ==
  ASSUME NEW S, NEW q \in Seq(Seq(S))
  PROVE  FlattenSeq(q) \in Seq(S)
<1>1. CASE Len(q) = 0
  <2>1. q = <<>>
    BY <1>1
  <2>2. FlattenSeq(q) = q
    BY <1>1 DEF FlattenSeq
  <2>3. <<>> \in Seq(S)
    OBVIOUS
  <2> QED BY <2>1, <2>2, <2>3, Zenon
<1>2. CASE Len(q) # 0
  <2> DEFINE f == CHOOSE g : Flattens(q, g)
  <2>1. FlattenSeq(q) = f[Len(q)]
    BY <1>2 DEF FlattenSeq, Flattens
  <2>2. PICK g \in [1 .. Len(q) -> Seq(S)] : Flattens(q, g)
    BY <1>2, FlattenEnds
  <2>3. Flattens(q, f)
    BY <2>2
  <2> HIDE DEF f
  <2>4. f = g
    BY <2>2, <2>3, FlattenOnce
  <2>5. Len(q) \in 1 .. Len(q)
    BY <1>2
  <2> QED BY <2>1, <2>4, <2>5, Zenon
<1> QED BY <1>1, <1>2

\* A sequence cut after k: a short write, or a short read.
LEMMA Cut ==
  ASSUME NEW S, NEW s \in Seq(S), NEW k \in 0 .. Len(s)
  PROVE  /\ SubSeq(s, 1, k) \in Seq(S) /\ Len(SubSeq(s, 1, k)) = k
         /\ \A i \in 1 .. k : SubSeq(s, 1, k)[i] = s[i]
         /\ SubSeq(s, k + 1, Len(s)) \in Seq(S) /\ Len(SubSeq(s, k + 1, Len(s))) = Len(s) - k
         /\ \A i \in 1 .. Len(s) - k : SubSeq(s, k + 1, Len(s))[i] = s[k + i]
<1> DEFINE n == Len(s)
           a == SubSeq(s, 1, k)
           b == SubSeq(s, k + 1, n)
<1>0. n \in Nat /\ k \in Nat /\ k <= n /\ n - k \in Nat /\ \A i \in 1 .. n : s[i] \in S
  OBVIOUS
<1> HIDE DEF n
<1>1. a = [i \in 1 .. k |-> s[i]]
  BY <1>0
<1>2. a \in [1 .. k -> S]
  <2> HIDE DEF a
  <2> QED BY <1>0, <1>1
<1>3. a \in Seq(S) /\ Len(a) = k
  <2> HIDE DEF a
  <2> QED BY <1>0, <1>2
<1>4. b = [i \in 1 .. n - k |-> s[k + i]]
  BY <1>0
<1>5. b \in [1 .. n - k -> S]
  <2>1. \A i \in 1 .. n - k : k + i \in 1 .. n
    BY <1>0
  <2> HIDE DEF b
  <2> QED BY <1>0, <1>4, <2>1
<1>6. b \in Seq(S) /\ Len(b) = n - k
  <2> HIDE DEF b
  <2> QED BY <1>0, <1>5
<1> QED BY <1>1, <1>3, <1>4, <1>6 DEF n

\* What was sent or read, with what is still to come, stays the same.
LEMMA Passed ==
  ASSUME NEW S, NEW t \in Seq(S), NEW s \in Seq(S), NEW k \in 0 .. Len(s)
  PROVE  (t \o SubSeq(s, 1, k)) \o SubSeq(s, k + 1, Len(s)) = t \o s
<1> DEFINE a == SubSeq(s, 1, k)
           b == SubSeq(s, k + 1, Len(s))
           x == t \o a
           y == x \o b
           z == t \o s
<1>1. /\ a \in Seq(S) /\ Len(a) = k /\ \A i \in 1 .. k : a[i] = s[i]
      /\ b \in Seq(S) /\ Len(b) = Len(s) - k /\ \A i \in 1 .. Len(s) - k : b[i] = s[k + i]
  BY Cut
<1> HIDE DEF a, b
<1>2. Len(t) \in Nat /\ Len(s) \in Nat /\ k \in Nat /\ k <= Len(s)
  OBVIOUS
<1>3. /\ x \in Seq(S) /\ Len(x) = Len(t) + k
      /\ \A i \in 1 .. Len(t) : x[i] = t[i]
      /\ \A i \in 1 .. k : x[Len(t) + i] = s[i]
  <2>1. /\ x \in Seq(S) /\ Len(x) = Len(t) + Len(a)
        /\ \A i \in 1 .. Len(t) : x[i] = t[i]
        /\ \A i \in 1 .. Len(a) : x[Len(t) + i] = a[i]
    <3>1. a \in Seq(S)
      BY <1>1
    <3> QED BY <3>1, ConcatIs
  <2> HIDE DEF x
  <2> QED BY <1>1, <1>2, <2>1
<1> HIDE DEF x
<1>4. /\ y \in Seq(S) /\ Len(y) = Len(t) + Len(s)
      /\ \A i \in 1 .. Len(t) + k : y[i] = x[i]
      /\ \A i \in 1 .. Len(s) - k : y[Len(t) + k + i] = s[k + i]
  <2>1. /\ y \in Seq(S) /\ Len(y) = Len(x) + Len(b)
        /\ \A i \in 1 .. Len(x) : y[i] = x[i]
        /\ \A i \in 1 .. Len(b) : y[Len(x) + i] = b[i]
    <3>1. x \in Seq(S) /\ b \in Seq(S)
      BY <1>1, <1>3
    <3> QED BY <3>1, ConcatIs
  <2> HIDE DEF y
  <2> QED BY <1>1, <1>2, <1>3, <2>1
<1>5. /\ z \in Seq(S) /\ Len(z) = Len(t) + Len(s)
      /\ \A i \in 1 .. Len(t) : z[i] = t[i]
      /\ \A i \in 1 .. Len(s) : z[Len(t) + i] = s[i]
  BY ConcatIs
<1> HIDE DEF y, z
<1>6. ASSUME NEW i \in 1 .. Len(t) + Len(s) PROVE y[i] = z[i]
  <2>1. CASE i <= Len(t)
    <3>1. i \in 1 .. Len(t) /\ i \in 1 .. Len(t) + k
      BY <1>2, <2>1
    <3> QED BY <1>3, <1>4, <1>5, <3>1, Zenon
  <2>2. CASE i > Len(t) /\ i <= Len(t) + k
    <3>1. PICK j \in 1 .. k : i = Len(t) + j
      <4>1. i - Len(t) \in 1 .. k /\ i = Len(t) + (i - Len(t))
        BY <1>2, <2>2
      <4> QED BY <4>1
    <3>2. j \in 1 .. Len(s) /\ i \in 1 .. Len(t) + k
      BY <1>2, <2>2, <3>1
    <3> QED BY <1>3, <1>4, <1>5, <3>1, <3>2, Zenon
  <2>3. CASE i > Len(t) + k
    <3>1. PICK j \in 1 .. Len(s) - k : i = Len(t) + k + j
      <4>1. i - (Len(t) + k) \in 1 .. Len(s) - k /\ i = Len(t) + k + (i - (Len(t) + k))
        BY <1>2, <2>3
      <4> QED BY <4>1, Zenon
    <3>2. PICK l \in 1 .. Len(s) : l = k + j /\ i = Len(t) + l
      <4>1. k + j \in 1 .. Len(s) /\ i = Len(t) + (k + j)
        BY <1>2, <3>1
      <4> QED BY <4>1
    <3> QED BY <1>4, <1>5, <3>1, <3>2, Zenon
  <2> QED BY <1>2, <2>1, <2>2, <2>3
<1>7. y = z
  BY <1>4, <1>5, <1>6, SeqEqual, Zenon
<1> QED BY <1>7, Zenon DEF y, z, x, a, b

\* The characters of the texts, and those the conversions add.
Letters == {"&", "a", "m", "p", ";", "l", "t", "%", "2", "3", "5", "6", "B", "C", ""}
Chars == (UNION {Range(s) : s \in Args \cup Pages}) \cup Letters

\* What is asked and answered is made of the characters.
LEMMA Texts == Args \subseteq Seq(Chars) /\ Pages \subseteq Seq(Chars)
<1> SUFFICES ASSUME NEW s \in Args \cup Pages PROVE s \in Seq(Chars)
  OBVIOUS
<1>1. s \in Seq(Range(s)) /\ Range(s) \subseteq Chars
  BY TextsAssumption DEF Chars
<1> QED BY <1>1, SeqMonotonic

\* A text that is spelled out.
LEMMA Spelled ==
  ASSUME NEW a \in Chars, NEW b \in Chars, NEW c \in Chars, NEW d \in Chars, NEW e \in Chars
  PROVE  <<a, b, c, d>> \in Seq(Chars) /\ <<a, b, c, d, e>> \in Seq(Chars)
  OBVIOUS

\* The conversions make texts of texts.
LEMMA EscapeType ==
  ASSUME NEW s \in Seq(Chars)
  PROVE  Escape(s) \in Seq(Chars)
<1> DEFINE q == [i \in 1 .. Len(s) |-> Entity(s[i])]
<1>1. ASSUME NEW ch \in Chars PROVE Entity(ch) \in Seq(Chars)
  <2>1. Letters \subseteq Chars
    BY DEF Chars
  <2>2. /\ "&" \in Chars /\ "a" \in Chars /\ "m" \in Chars /\ "p" \in Chars
        /\ ";" \in Chars /\ "l" \in Chars /\ "t" \in Chars
    BY <2>1 DEF Letters
  <2>3. CASE ch = "&"
    <3>1. Entity(ch) = <<"&", "a", "m", "p", ";">>
      BY <2>3 DEF Entity
    <3>2. <<"&", "a", "m", "p", ";">> \in Seq(Chars)
      BY <2>2, Spelled, Zenon
    <3> QED BY <3>1, <3>2
  <2>4. CASE ch = "<"
    <3>1. Entity(ch) = <<"&", "l", "t", ";">>
      BY <2>4 DEF Entity
    <3>2. <<"&", "l", "t", ";">> \in Seq(Chars)
      BY <2>2, Spelled, Zenon
    <3> QED BY <3>1, <3>2
  <2>5. CASE ch # "&" /\ ch # "<"
    BY <2>5 DEF Entity
  <2> QED BY <2>3, <2>4, <2>5
<1>2. q \in [1 .. Len(s) -> Seq(Chars)] /\ Len(s) \in Nat
  BY <1>1
<1>3. q \in Seq(Seq(Chars))
  <2> HIDE DEF q
  <2> QED BY <1>2
<1> HIDE DEF q
<1>4. FlattenSeq(q) \in Seq(Chars)
  BY <1>3, FlattenType
<1> QED BY <1>4 DEF Escape, q

\* and so does zt_urlencode.
LEMMA UrlEncodeType ==
  ASSUME NEW s \in Seq(Chars)
  PROVE  UrlEncode(s) \in Seq(Chars)
<1> DEFINE Enc(ch) == IF ch \in Safe THEN <<ch>> ELSE <<"%">> \o Hex(ch)
           q == [i \in 1 .. Len(s) |-> Enc(s[i])]
<1>1. ASSUME NEW ch \in Chars PROVE Enc(ch) \in Seq(Chars)
  <2>1. Letters \subseteq Chars
    BY DEF Chars
  <2>2. {"%", "2", "3", "5", "6", "B", "C"} \subseteq Chars
    BY <2>1 DEF Letters
  <2>3. Hex(ch) \in Seq(Chars)
    <3>1. \/ Hex(ch) = <<"2", "5">> \/ Hex(ch) = <<"2", "6">>
          \/ Hex(ch) = <<"3", "B">> \/ Hex(ch) = <<"3", "C">>
      BY DEF Hex
    <3>2. \A x, y \in Chars : <<x, y>> \in Seq(Chars)
      OBVIOUS
    <3> QED BY <2>2, <3>1, <3>2, Zenon
  <2>4. <<ch>> \in Seq(Chars) /\ <<"%">> \in Seq(Chars)
    BY <2>2
  <2>5. <<"%">> \o Hex(ch) \in Seq(Chars)
    BY <2>3, <2>4, ConcatIs
  <2> QED BY <2>4, <2>5
<1> HIDE DEF Enc
<1>2. q \in [1 .. Len(s) -> Seq(Chars)] /\ Len(s) \in Nat
  BY <1>1
<1>3. q \in Seq(Seq(Chars))
  <2> HIDE DEF q
  <2> QED BY <1>2
<1>4. UrlEncode(s) = FlattenSeq(q)
  BY Zenon DEF UrlEncode, Enc
<1> HIDE DEF q
<1>5. FlattenSeq(q) \in Seq(Chars)
  BY <1>3, FlattenType
<1> QED BY <1>4, <1>5

\* The lines and the characters of a response.
Kinds == {"200", "404", "length", "blank", "body"}
Item == [k : Kinds, n : Nat, ch : Chars]

\* A response: its status, its length or not, the blank line and the body.
LEMMA ResponseIs ==
  ASSUME NEW st \in {"200", "404"}, NEW s \in Seq(Chars), NEW wl \in BOOLEAN,
         NEW E, E = Escape(s), NEW h, h = IF wl THEN 4 ELSE 3,
         NEW R, R = Response(st, s, wl)
  PROVE  /\ E \in Seq(Chars) /\ R \in Seq(Item) /\ Len(R) = h + Len(E)
         /\ R[1] = Line(st, 0) /\ R[h - 1] = Line("blank", 1) /\ R[h] = Line("blank", 2)
         /\ wl => R[2] = Line("length", Len(E))
         /\ \A i \in 1 .. Len(E) : R[h + i] = BodyChar(E[i])
<1>1. E \in Seq(Chars) /\ Len(E) \in Nat
  BY EscapeType
<1> DEFINE B == [i \in 1 .. Len(E) |-> BodyChar(E[i])]
           H == IF wl THEN <<Line(st, 0), Line("length", Len(E)), Line("blank", 1), Line("blank", 2)>>
                      ELSE <<Line(st, 0), Line("blank", 1), Line("blank", 2)>>
<1>2. /\ \A x \in {"200", "404", "length", "blank"}, n \in Nat : Line(x, n) \in Item
      /\ \A x \in Chars : BodyChar(x) \in Item
  <2>1. "" \in Chars
    BY DEF Chars, Letters
  <2> QED BY <2>1 DEF Line, BodyChar, Item, Kinds
<1>3. B \in [1 .. Len(E) -> Item]
  <2>1. \A i \in 1 .. Len(E) : E[i] \in Chars
    BY <1>1
  <2> QED BY <1>2, <2>1
<1>4. B \in Seq(Item) /\ Len(B) = Len(E) /\ \A i \in 1 .. Len(E) : B[i] = BodyChar(E[i])
  <2>1. \A i \in 1 .. Len(E) : B[i] = BodyChar(E[i])
    OBVIOUS
  <2> HIDE DEF B
  <2> QED BY <1>1, <1>3, <2>1
<1>5. R = H \o B
  BY DEF Response
<1>6. /\ H \in Seq(Item) /\ Len(H) = h
      /\ H[1] = Line(st, 0) /\ H[h - 1] = Line("blank", 1) /\ H[h] = Line("blank", 2)
      /\ wl => H[2] = Line("length", Len(E))
  BY <1>1, <1>2
<1> HIDE DEF B, H
<1>7. /\ R \in Seq(Item) /\ Len(R) = h + Len(E)
      /\ \A i \in 1 .. h : R[i] = H[i]
      /\ \A i \in 1 .. Len(E) : R[h + i] = B[i]
  <2>1. /\ H \o B \in Seq(Item) /\ Len(H \o B) = Len(H) + Len(B)
        /\ \A i \in 1 .. Len(H) : (H \o B)[i] = H[i]
        /\ \A i \in 1 .. Len(B) : (H \o B)[Len(H) + i] = B[i]
    <3>1. H \in Seq(Item) /\ B \in Seq(Item)
      BY <1>4, <1>6
    <3> QED BY <3>1, ConcatIs
  <2>2. Len(H) = h /\ Len(B) = Len(E)
    BY <1>4, <1>6
  <2> QED BY <1>5, <2>1, <2>2, Zenon
<1>8. h \in {3, 4} /\ 1 \in 1 .. h /\ 2 \in 1 .. h /\ h - 1 \in 1 .. h /\ h \in 1 .. h
  OBVIOUS
<1>9. R[1] = H[1] /\ R[2] = H[2] /\ R[h - 1] = H[h - 1] /\ R[h] = H[h]
  BY <1>7, <1>8
<1>10. \A i \in 1 .. Len(E) : R[h + i] = BodyChar(E[i])
  BY <1>4, <1>7
<1> QED BY <1>1, <1>6, <1>7, <1>9, <1>10, Zenon

\* slurp's buffer never loses its first two chunks of room and always has one left for the NUL.
BufferInv ==
  /\ wire \in Seq(Item) /\ buf \in Seq(Item)
  /\ cap \in Nat /\ cap >= 2 * Chunk /\ Len(buf) < cap
  /\ gets \in 0 .. MaxGets

\* One read of slurp's loop takes at least one character and leaves room for the NUL.
LEMMA ReadIs ==
  ASSUME BufferInv, Read
  PROVE  /\ cap' \in Nat /\ cap' >= 2 * Chunk
         /\ \E k \in 1 .. Len(wire) :
              /\ buf' = buf \o SubSeq(wire, 1, k) /\ wire' = SubSeq(wire, k + 1, Len(wire))
              /\ Len(buf) + k < cap'
<1>1. /\ Len(buf) \in Nat /\ cap \in Nat /\ Len(buf) < cap /\ cap >= 2 * Chunk
      /\ wire \in Seq(Item) /\ wire # <<>>
  BY DEF BufferInv, Read
<1>2. cap' = Grown(Len(buf))
  BY DEF Read
<1>3. cap' \in Nat /\ cap' >= cap /\ cap' >= Len(buf) + Chunk
  BY <1>1, <1>2, GrownIs
<1>4. Len(wire) \in Nat /\ Len(wire) >= 1
  BY <1>1
<1> DEFINE most == IF Len(wire) < Room THEN Len(wire) ELSE Room
<1>5. PICK k \in {1, most} : buf' = buf \o SubSeq(wire, 1, k) /\ wire' = SubSeq(wire, k + 1, Len(wire))
  BY Zenon DEF Read
<1>6. k \in 1 .. Len(wire) /\ Len(buf) + k < cap'
  BY <1>1, <1>2, <1>3, <1>4, ChunkAssumption DEF Room
<1>7. cap' >= 2 * Chunk
  BY <1>1, <1>3, ChunkAssumption
<1> QED BY <1>3, <1>5, <1>6, <1>7, Zenon

\* slurp starts with two chunks of room and nothing in them.
LEMMA BufferInit == Init => BufferInv
<1>1. <<>> \in Seq(Item) /\ Len(<<>>) = 0
  OBVIOUS
<1>2. Init => wire = <<>> /\ buf = <<>> /\ cap = 2 * Chunk /\ gets = 0
  BY DEF Init
<1> QED BY <1>1, <1>2, ChunkAssumption, MaxGetsAssumption DEF BufferInv

\* Every read leaves room for the NUL; nothing else writes to the buffer.
LEMMA BufferStep == BufferInv /\ [Next]_vars => BufferInv'
<1> SUFFICES ASSUME BufferInv, [Next]_vars PROVE BufferInv'
  OBVIOUS
<1>0. <<>> \in Seq(Item) /\ Len(<<>>) = 0
  OBVIOUS
<1>1. ASSUME UNCHANGED <<wire, buf, cap, gets>> PROVE BufferInv'
  BY <1>1 DEF BufferInv
<1>2. ASSUME UNCHANGED <<buf, cap, gets>>, wire' \in Seq(Item) PROVE BufferInv'
  BY <1>2 DEF BufferInv
<1>3. ASSUME NEW a \in Args, Get(a) PROVE BufferInv'
  <2>1. gets < MaxGets /\ gets' = gets + 1 /\ wire' = <<>> /\ buf' = <<>> /\ cap' = 2 * Chunk
    BY <1>3 DEF Get
  <2> QED BY <1>0, <2>1, ChunkAssumption, MaxGetsAssumption DEF BufferInv
<1>4. CASE Read
  <2>1. PICK k \in 1 .. Len(wire) :
          /\ buf' = buf \o SubSeq(wire, 1, k) /\ wire' = SubSeq(wire, k + 1, Len(wire))
          /\ Len(buf) + k < cap'
    BY <1>4, ReadIs, Zenon
  <2>2. wire \in Seq(Item) /\ buf \in Seq(Item) /\ gets' \in 0 .. MaxGets
    BY <1>4 DEF BufferInv, Read
  <2> DEFINE a == SubSeq(wire, 1, k)
  <2>3. k \in 0 .. Len(wire)
    OBVIOUS
  <2>4. a \in Seq(Item) /\ Len(a) = k /\ wire' \in Seq(Item)
    BY <2>1, <2>2, <2>3, Cut
  <2> HIDE DEF a
  <2>5. buf' \in Seq(Item) /\ Len(buf') = Len(buf) + k
    <3>1. buf \o a \in Seq(Item) /\ Len(buf \o a) = Len(buf) + Len(a)
      BY <2>2, <2>4, ConcatIs, Zenon
    <3> QED BY <2>1, <2>4, <3>1 DEF a
  <2>6. cap' \in Nat /\ cap' >= 2 * Chunk
    BY <1>4, ReadIs
  <2> QED BY <2>1, <2>2, <2>4, <2>5, <2>6, Zenon DEF BufferInv
<1>5. CASE Serve
  <2>1. PICK s \in Pages, st \in {"200", "404"}, wl \in BOOLEAN : wire' = Response(st, s, wl)
    BY <1>5 DEF Serve
  <2>2. s \in Seq(Chars)
    BY Texts
  <2>3. wire' \in Seq(Item)
    BY <2>1, <2>2, ResponseIs, Zenon
  <2>4. UNCHANGED <<buf, cap, gets>>
    BY <1>5 DEF Serve
  <2> QED BY <1>2, <2>3, <2>4
<1>6. CASE ServerDies
  <2>1. PICK k \in {0, Len(wire) \div 2} : wire' = SubSeq(wire, 1, k)
    BY <1>6 DEF ServerDies
  <2>2. wire \in Seq(Item) /\ UNCHANGED <<buf, cap, gets>>
    BY <1>6 DEF ServerDies, BufferInv
  <2>3. k \in 0 .. Len(wire)
    BY <2>2
  <2> QED BY <1>2, <2>1, <2>2, <2>3, Cut, Zenon
<1>7. CASE ReadFails
  <2>1. (wire' = <<>> \/ wire' = wire) /\ UNCHANGED <<buf, cap, gets>> /\ wire \in Seq(Item)
    BY <1>7 DEF ReadFails, BufferInv
  <2> QED BY <1>0, <1>2, <2>1, Zenon
<1>8. ASSUME (\E o \in Options : Configure(o)) \/ Dial \/ TlsStep \/ Send \/ Parse \/ UNCHANGED vars
      PROVE  BufferInv'
  <2>1. UNCHANGED <<wire, buf, cap, gets>>
    BY <1>8 DEF Configure, Dial, TlsStep, Send, Parse, vars, Talk
  <2> QED BY <1>1, <2>1, Zenon
<1> QED BY <1>3, <1>4, <1>5, <1>6, <1>7, <1>8, Zenon DEF Next

\* What slurp asks a read for is never nothing: a read of 0 is the stream's end.
LEMMA RoomIs ==
  ASSUME BufferInv
  PROVE  Room > 0
<1>1. Len(buf) \in Nat /\ cap \in Nat /\ Len(buf) < cap /\ cap >= 2 * Chunk
  BY DEF BufferInv
<1>2. Grown(Len(buf)) \in Nat /\ Grown(Len(buf)) >= Len(buf) + Chunk
  BY <1>1, GrownIs
<1> QED BY <1>1, <1>2, ChunkAssumption DEF Room

\* slurp's buffer is grown in time, whatever its first size and the length of
\* the answer: it holds what was read and the NUL, and no read asks for nothing.
THEOREM GrownInTime == Spec => []RoomToRead
<1>1. BufferInv => RoomToRead
  BY RoomIs DEF BufferInv, RoomToRead
<1>2. Spec => []BufferInv
  BY BufferInit, BufferStep, PTL DEF Spec
<1> QED BY <1>1, <1>2, PTL

-----------------------------------------------------------------------------
(* What is asked and what is answered *)

\* The kind and the number of a line of a response.
LEMMA LineIs == \A x, m : Line(x, m).k = x /\ Line(x, m).n = m
  BY DEF Line

\* The first line of a response and its parts: where the headers end, the length it
\* says and the body.
LEMMA ResponseParts ==
  ASSUME NEW st \in {"200", "404"}, NEW s \in Seq(Chars), NEW wl \in BOOLEAN,
         NEW h, h = IF wl THEN 4 ELSE 3, NEW R, R = Response(st, s, wl), NEW i \in 1 .. Len(R)
  PROVE  /\ R[i].k = "blank" /\ R[i].n = 2 <=> i = h
         /\ R[i].k = "length" => R[i].n = Len(Escape(s))
         /\ i > h => R[i].ch = Escape(s)[i - h]
<1>0. PICK E : E = Escape(s)
  OBVIOUS
<1>1. /\ E \in Seq(Chars) /\ Len(R) = h + Len(E)
      /\ R[1] = Line(st, 0) /\ R[h - 1] = Line("blank", 1) /\ R[h] = Line("blank", 2)
      /\ wl => R[2] = Line("length", Len(E))
      /\ \A j \in 1 .. Len(E) : R[h + j] = BodyChar(E[j])
  BY <1>0, ResponseIs
<1>2. Len(E) \in Nat /\ h \in {3, 4} /\ (wl <=> h = 4)
  BY <1>1
<1>3. CASE i > h
  <2>1. PICK j \in 1 .. Len(E) : i = h + j
    <3>1. i - h \in 1 .. Len(E) /\ i = h + (i - h)
      BY <1>1, <1>2, <1>3
    <3> QED BY <3>1
  <2>2. R[i] = BodyChar(E[j]) /\ i - h = j /\ i # h
    BY <1>1, <1>2, <2>1
  <2>3. R[i].k = "body" /\ R[i].ch = E[i - h]
    BY <2>2 DEF BodyChar
  <2> QED BY <1>0, <2>2, <2>3
<1>4. CASE i <= h
  <2>1. ~ (i > h) /\ (i \in {1, h - 1, h} \/ (wl /\ i = 2))
    BY <1>1, <1>2, <1>4
  <2>2. CASE i = 1
    <3>1. R[i].k = st /\ i # h
      BY <1>1, <1>2, <2>2, LineIs
    <3> QED BY <2>1, <3>1
  <2>3. CASE i = h - 1
    <3>1. R[i].k = "blank" /\ R[i].n = 1 /\ i # h
      BY <1>1, <1>2, <2>3, LineIs
    <3> QED BY <2>1, <3>1
  <2>4. CASE i = h
    <3>1. R[i].k = "blank" /\ R[i].n = 2
      BY <1>1, <2>4, LineIs
    <3> QED BY <2>1, <2>4, <3>1, Zenon
  <2>5. CASE wl /\ i = 2
    <3>1. R[i].k = "length" /\ R[i].n = Len(E) /\ i # h
      <4>0. PICK m : m = Len(E)
        BY Zenon
      <4>1. R[i] = Line("length", m)
        BY <1>1, <2>5, <4>0, Zenon
      <4>2. i # h
        BY <1>2, <2>5
      <4>3. R[i].k = "length" /\ R[i].n = m
        BY <4>1, LineIs
      <4> QED BY <4>0, <4>2, <4>3
    <3> QED BY <1>0, <2>1, <3>1, Zenon
  <2> QED BY <2>1, <2>2, <2>3, <2>4, <2>5, Zenon
<1>5. i > h \/ i <= h
  BY <1>1, <1>2
<1> QED BY <1>3, <1>4, <1>5

\* zt_get2 finds the body of a whole response.
LEMMA WholeBody ==
  ASSUME NEW st \in {"200", "404"}, NEW s \in Seq(Chars), NEW wl \in BOOLEAN,
         NEW R, R = Response(st, s, wl)
  PROVE  Body(R) = Escape(s)
<1> DEFINE E == Escape(s)
           h == IF wl THEN 4 ELSE 3
<1>1. E \in Seq(Chars) /\ R \in Seq(Item) /\ Len(R) = h + Len(E)
  BY ResponseIs
<1>2. ASSUME NEW i \in 1 .. Len(R)
      PROVE  (R[i].k = "blank" /\ R[i].n = 2 <=> i = h) /\ (i > h => R[i].ch = E[i - h])
  BY ResponseParts
<1>3. h \in Nat /\ h >= 1
  OBVIOUS
<1> HIDE DEF E, h
<1>4. Len(E) \in Nat /\ h \in 1 .. Len(R) /\ Len(R) \in Nat /\ Len(R) - h = Len(E)
  BY <1>1, <1>3
<1>5. {i \in 1 .. Len(R) : R[i].k = "blank" /\ R[i].n = 2} = {h}
  BY <1>2, <1>4
<1>6. HeaderLen(R) = h
  BY <1>5 DEF HeaderLen
<1>7. Body(R) = [i \in 1 .. Len(E) |-> R[i + h].ch]
  BY <1>4, <1>6 DEF Body
<1>8. ASSUME NEW i \in 1 .. Len(E) PROVE R[i + h].ch = E[i]
  <2>1. PICK j \in 1 .. Len(R) : j = i + h /\ j > h /\ j - h = i
    <3>1. PICK j \in Nat : j = i + h
      BY <1>3
    <3>2. j \in 1 .. Len(R) /\ j > h /\ j - h = i
      BY <1>1, <1>3, <1>4, <3>1
    <3> QED BY <3>1, <3>2
  <2> QED BY <1>2, <2>1
<1>9. E = [i \in 1 .. Len(E) |-> E[i]]
  BY <1>1
<1> QED BY <1>7, <1>8, <1>9 DEF E

\* What was read, and what is still to come, of a response.
Joined(b, t, R) == R = b \o t

\* slurp stops at Content-Length with nothing of the answer left in the socket.
LEMMA CompleteIsAll ==
  ASSUME NEW st \in {"200", "404"}, NEW s \in Seq(Chars), NEW wl \in BOOLEAN,
         NEW h, h = IF wl THEN 4 ELSE 3, NEW R, R = Response(st, s, wl),
         NEW b \in Seq(Item), NEW t \in Seq(Item), Joined(b, t, R), Complete(b)
  PROVE  t = <<>>
<1>0. PICK E : E = Escape(s)
  OBVIOUS
<1>1. E \in Seq(Chars) /\ R \in Seq(Item) /\ Len(R) = h + Len(E)
  BY <1>0, ResponseIs
<1>2. ASSUME NEW i \in 1 .. Len(R)
      PROVE  /\ R[i].k = "blank" /\ R[i].n = 2 <=> i = h
             /\ R[i].k = "length" => R[i].n = Len(E)
  BY <1>0, ResponseParts
<1>3. h \in Nat /\ h >= 1
  OBVIOUS
<1>4. Len(R) = Len(b) + Len(t) /\ \A i \in 1 .. Len(b) : R[i] = b[i]
  <2>1. /\ Len(b \o t) = Len(b) + Len(t)
        /\ \A i \in 1 .. Len(b) : (b \o t)[i] = b[i]
    BY ConcatIs
  <2> QED BY <2>1, Zenon DEF Joined
<1>5. Len(E) \in Nat /\ Len(R) \in Nat /\ Len(b) \in Nat /\ Len(t) \in Nat
  BY <1>1
<1>6. \A i \in 1 .. Len(b) : i \in 1 .. Len(R)
  BY <1>4, <1>5
<1>7. HeaderLen(b) = h
  <2> DEFINE ends == {i \in 1 .. Len(b) : b[i].k = "blank" /\ b[i].n = 2}
  <2>1. ends \subseteq {h}
    BY <1>2, <1>4, <1>6
  <2>2. ends # {}
    BY DEF Complete, HeaderLen
  <2>3. ends = {h}
    BY <2>1, <2>2
  <2> QED BY <2>3, Zenon DEF HeaderLen
<1>8. PICK n \in ContentLength(b) : Len(b) >= HeaderLen(b) + n
  BY DEF Complete
<1>9. PICK j \in 1 .. Len(b) : b[j].k = "length" /\ n = b[j].n
  BY <1>8 DEF ContentLength
<1>10. n = Len(E)
  BY <1>2, <1>4, <1>6, <1>9, Zenon
<1>11. Len(t) = 0
  BY <1>1, <1>3, <1>4, <1>5, <1>7, <1>8, <1>10
<1> QED BY <1>11

\* Nothing has come of an answer p, or what came and what is to come are one response.
Answering(p, b, t, x) ==
  \/ p = <<>> /\ b = <<>> /\ t = <<>> /\ x = ""
  \/ \E s \in Pages, st \in {"200", "404"}, wl \in BOOLEAN :
       /\ p = <<s>> /\ Joined(b, t, Response(st, s, wl))
       /\ x = IF wl THEN "" ELSE "end"

\* The request is whole, in what was sent and what is left of it, and so is the answer, in what
\* was read and what is on the wire.
FaithInv ==
  /\ BufferInv /\ left \in Seq(Chars) /\ seen \in Seq(Chars)
  /\ pc # "idle" => arg \in Args
  /\ pc \in {"dial", "send"} \cup DOMAIN After =>
       /\ Joined(seen, left, UrlEncode(arg))
       /\ page = <<>> /\ buf = <<>> /\ wire = <<>> /\ shut = ""
  /\ pc = "read" => /\ seen = UrlEncode(arg)
                    /\ shut # "early" => Answering(page, buf, wire, shut)
  /\ Faithful

\* A part of a sequence moves from one end of the wire to the other.
LEMMA JoinedStep ==
  ASSUME NEW S, NEW t \in Seq(S), NEW s \in Seq(S), NEW k \in 0 .. Len(s), NEW R, Joined(t, s, R)
  PROVE  Joined(t \o SubSeq(s, 1, k), SubSeq(s, k + 1, Len(s)), R)
  BY Passed, Zenon DEF Joined

\* Nothing to come, or nothing that came.
LEMMA JoinedEmpty ==
  ASSUME NEW S, NEW t \in Seq(S), NEW R
  PROVE  (Joined(t, <<>>, R) <=> R = t) /\ (Joined(<<>>, t, R) <=> R = t)
<1>1. t \o <<>> = t /\ <<>> \o t = t
  BY ConcatEmptySeq
<1> QED BY <1>1 DEF Joined

\* Nothing has been asked.
LEMMA FaithInit == Init => FaithInv
<1> SUFFICES ASSUME Init PROVE FaithInv
  OBVIOUS
<1>1. BufferInv
  BY BufferInit
<1>2. pc = "idle" /\ left = <<>> /\ seen = <<>> /\ result = "none"
  BY DEF Init
<1>3. <<>> \in Seq(Chars)
  OBVIOUS
<1> QED BY <1>1, <1>2, <1>3, Steps DEF FaithInv, Faithful

\* zt_urlencode and the request line
LEMMA GetFaith ==
  ASSUME FaithInv, BufferInv', NEW a \in Args, Get(a)
  PROVE  FaithInv'
<1>1. /\ arg' = a /\ left' = UrlEncode(a) /\ seen' = <<>> /\ page' = <<>> /\ buf' = <<>>
      /\ wire' = <<>> /\ shut' = "" /\ result' # "ok" /\ pc' \in {"idle", "dial"}
  BY DEF Get
<1>2. left' \in Seq(Chars) /\ seen' \in Seq(Chars)
  <2>1. a \in Seq(Chars) /\ <<>> \in Seq(Chars)
    BY Texts
  <2> QED BY <1>1, <2>1, UrlEncodeType
<1>3. Joined(seen', left', UrlEncode(arg'))
  BY <1>1, <1>2, JoinedEmpty
<1> QED BY <1>1, <1>2, <1>3, Steps DEF FaithInv, Faithful

\* zt_write's loop: short writes
LEMMA SendFaith ==
  ASSUME FaithInv, BufferInv', Send
  PROVE  FaithInv'
<1>1. /\ pc = "send" /\ arg' = arg /\ wire' = wire /\ shut' = shut /\ page' = page /\ buf' = buf
      /\ left \in Seq(Chars) /\ seen \in Seq(Chars) /\ arg \in Args
      /\ Joined(seen, left, UrlEncode(arg))
      /\ page = <<>> /\ buf = <<>> /\ wire = <<>> /\ shut = ""
  BY DEF FaithInv, Send
<1>2. CASE left = <<>>
  <2>1. pc' = "read" /\ left' = left /\ seen' = seen /\ result' = result
    BY <1>2 DEF Send
  <2>2. seen = UrlEncode(arg)
    BY <1>1, <1>2, JoinedEmpty
  <2>3. Answering(page', buf', wire', shut')
    BY <1>1 DEF Answering
  <2> QED BY <1>1, <2>1, <2>2, <2>3, Steps DEF FaithInv, Faithful
<1>3. ASSUME NEW k \in {1, Len(left)}, left # <<>>,
             seen' = seen \o SubSeq(left, 1, k), left' = SubSeq(left, k + 1, Len(left)), pc' = pc
      PROVE  FaithInv'
  <2>1. k \in 0 .. Len(left)
    <3>1. left \in Seq(Chars) /\ left # <<>>
      BY <1>1, <1>3
    <3>2. Len(left) \in Nat /\ Len(left) >= 1
      BY <3>1
    <3> QED BY <3>2
  <2>2. SubSeq(left, 1, k) \in Seq(Chars) /\ left' \in Seq(Chars)
    BY <1>1, <1>3, <2>1, Cut
  <2>3. seen' \in Seq(Chars)
    BY <1>1, <1>3, <2>2, ConcatType
  <2>4. Joined(seen', left', UrlEncode(arg'))
    BY <1>1, <1>3, <2>1, JoinedStep
  <2> QED BY <1>1, <1>3, <2>2, <2>3, <2>4, Steps DEF FaithInv, Faithful
<1>4. CASE pc' = "idle" /\ result' = "write failed" /\ left' = left /\ seen' = seen
  BY <1>1, <1>4, Steps DEF FaithInv, Faithful
<1> QED BY <1>2, <1>3, <1>4 DEF Send, Fail

\* slurp's loop: short reads
LEMMA ReadFaith ==
  ASSUME FaithInv, BufferInv', Read
  PROVE  FaithInv'
<1>1. /\ pc = "read" /\ pc' = pc /\ arg' = arg /\ left' = left /\ seen' = seen /\ shut' = shut
      /\ page' = page /\ BufferInv /\ wire # <<>> /\ wire \in Seq(Item) /\ buf \in Seq(Item)
  BY DEF FaithInv, Read, BufferInv
<1>2. PICK k \in 1 .. Len(wire) :
        buf' = buf \o SubSeq(wire, 1, k) /\ wire' = SubSeq(wire, k + 1, Len(wire))
  BY <1>1, ReadIs, Zenon
<1>3. k \in 0 .. Len(wire)
  OBVIOUS
<1>4. ASSUME shut # "early" PROVE Answering(page', buf', wire', shut')
  <2>1. PICK s \in Pages, st \in {"200", "404"}, wl \in BOOLEAN :
          /\ page = <<s>> /\ Joined(buf, wire, Response(st, s, wl))
          /\ shut = IF wl THEN "" ELSE "end"
    BY <1>1, <1>4 DEF FaithInv, Answering
  <2>2. Joined(buf', wire', Response(st, s, wl))
    BY <1>1, <1>2, <1>3, <2>1, JoinedStep
  <2> QED BY <1>1, <2>1, <2>2 DEF Answering
<1> QED BY <1>1, <1>4, Steps, Zenon DEF FaithInv, Faithful

\* what zt_get2 makes of the answer
LEMMA ParseFaith ==
  ASSUME RoundTrips, FaithInv, BufferInv', Parse
  PROVE  FaithInv'
<1>1. /\ pc = "read" /\ pc' = "idle" /\ arg' = arg /\ left' = left /\ seen' = seen /\ shut' = shut
      /\ page' = page /\ wire \in Seq(Item) /\ buf \in Seq(Item) /\ arg \in Args
      /\ seen = UrlEncode(arg)
      /\ Complete(buf) \/ (wire = <<>> /\ shut # "")
      /\ result' = "ok" => buf # <<>> /\ text' = Unescape(Body(buf))
  <2>1. BufferInv
    BY DEF FaithInv
  <2>2. ~(Room = 0)
    BY <2>1, RoomIs
  <2> QED BY <2>2 DEF FaithInv, Parse, BufferInv, Talk
<1>2. ASSUME result' = "ok", shut # "early" PROVE UrlDecode(seen) = arg /\ <<text'>> = page
  <2>1. PICK s \in Pages, st \in {"200", "404"}, wl \in BOOLEAN :
          page = <<s>> /\ Joined(buf, wire, Response(st, s, wl))
    BY <1>1, <1>2 DEF FaithInv, Answering
  <2>2. s \in Seq(Chars)
    BY Texts
  <2>3. PICK R, h : R = Response(st, s, wl) /\ h = IF wl THEN 4 ELSE 3
    OBVIOUS
  <2>4. wire = <<>>
    BY <1>1, <2>1, <2>2, <2>3, CompleteIsAll
  <2>5. buf = R
    <3>1. buf \in Seq(Item) /\ Joined(buf, <<>>, R)
      BY <1>1, <2>1, <2>3, <2>4
    <3> QED BY <3>1, JoinedEmpty
  <2>6. Body(buf) = Escape(s)
    BY <2>2, <2>3, <2>5, WholeBody, Zenon
  <2>7. text' = s
    BY <1>1, <1>2, <2>6 DEF RoundTrips
  <2> QED BY <1>1, <2>1, <2>7 DEF RoundTrips
<1>3. Faithful'
  BY <1>1, <1>2 DEF Faithful
<1> QED BY <1>1, <1>3, Steps DEF FaithInv

\* the server's answer, and the ways it can be cut short
LEMMA ServeFaith ==
  ASSUME FaithInv, BufferInv', Serve \/ ServerDies \/ ReadFails
  PROVE  FaithInv'
<1>1. pc = "read" /\ arg' = arg /\ left' = left /\ seen' = seen
  BY DEF Serve, ServerDies, ReadFails
<1>2. CASE Serve
  <2>1. PICK s \in Pages, st \in {"200", "404"}, wl \in BOOLEAN :
          /\ page' = <<s>> /\ wire' = Response(st, s, wl)
          /\ shut' = IF wl THEN "" ELSE "end"
    BY <1>2 DEF Serve
  <2>2. buf' = <<>> /\ pc' = "read" /\ wire' \in Seq(Item)
    BY <1>2 DEF Serve, BufferInv
  <2>3. Joined(buf', wire', Response(st, s, wl))
    BY <2>1, <2>2, JoinedEmpty
  <2>4. Answering(page', buf', wire', shut')
    BY <2>1, <2>3 DEF Answering
  <2> QED BY <1>1, <2>2, <2>4, Steps, Zenon DEF FaithInv, Faithful
<1>3. CASE ServerDies
  <2>1. pc' = pc /\ shut' = "early"
    BY <1>3 DEF ServerDies
  <2> QED BY <1>1, <2>1, Steps, Zenon DEF FaithInv, Faithful
<1>4. CASE ReadFails
  <2>1. (pc' = pc /\ shut' = "early") \/ (pc' = "idle" /\ result' = "read failed")
    BY <1>4 DEF ReadFails, Fail
  <2> QED BY <1>1, <2>1, Steps DEF FaithInv, Faithful
<1> QED BY <1>2, <1>3, <1>4, Zenon

\* Every step keeps the request and the answer whole.
LEMMA FaithStep ==
  ASSUME RoundTrips, SessionInv, FaithInv, [Next]_vars
  PROVE  FaithInv'
<1>0. BufferInv'
  BY BufferStep DEF FaithInv
<1>1. CASE UNCHANGED vars
  BY <1>0, <1>1, Steps DEF FaithInv, Faithful, vars
<1>2. ASSUME NEW o \in Options, Configure(o) PROVE FaithInv'
  <2>1. pc = "idle" /\ UNCHANGED <<pc, arg, Talk, result, text>>
    BY <1>2, Zenon DEF Configure
  <2> QED BY <1>0, <2>1, Steps, Zenon DEF FaithInv, Faithful, Talk
<1>3. CASE Dial \/ TlsStep
  <2>1. UNCHANGED <<arg, Talk>> /\ pc \in {"dial"} \cup DOMAIN After
    BY <1>3 DEF Dial, TlsStep
  <2>2. pc' \in {"send"} \cup DOMAIN After \/ (pc' = "idle" /\ result' # "ok")
    BY <1>3, Steps DEF Dial, TlsStep, TlsBad, Fail
  <2> QED BY <1>0, <2>1, <2>2, Steps DEF FaithInv, Faithful, Talk
<1> QED BY <1>0, <1>1, <1>2, <1>3, GetFaith, SendFaith, ReadFaith, ParseFaith, ServeFaith, Zenon DEF Next

\* Given that the conversions are inverse on the texts in question, what the page was
\* asked is what the caller asked, and what the caller gets is what it answered, through
\* every short write and read and every growth of slurp's buffer.
THEOREM FaithfulHolds == ASSUME RoundTrips PROVE Spec => []Faithful
<1>1. FaithInv => Faithful
  BY DEF FaithInv
<1>2. SessionInv /\ FaithInv /\ [Next]_vars => FaithInv'
  BY FaithStep
<1>3. Spec => []FaithInv
  BY <1>2, FaithInit, SessionHolds, PTL DEF Spec
<1> QED BY <1>1, <1>3, PTL

-----------------------------------------------------------------------------
(* Taking turns *)

CONSTANTS Clients, NoOne, LockWait
VARIABLES at, verb, waited, open, held, failed, turn, busy, needs, reply, work, stray

\* ZiguratTurn, the place of a process under a name of its own.
Turn == INSTANCE ZiguratTurn WITH pc <- at

\* What ZiguratTurn assumes of its constants (ClientAssumption, WaitAssumption).
TurnConstants == NoOne \notin Clients /\ LockWait \in Nat

\* The flag and the lock agree; what a connection has at the server it has under
\* its turn; an answer is there only once the server is through.
TurnInv ==
  /\ TurnConstants /\ Turn!TypeOK
  /\ Turn!HeldIsLocked /\ Turn!WorkUnderTurn /\ Turn!ReplyInv

\* The connections dialled and nobody in a verb: the invariant holds.
LEMMA TurnInitInv == TurnConstants /\ Turn!Init => TurnInv
  BY DEF TurnConstants, Turn!Init, TurnInv, Turn!TypeOK, Turn!HeldIsLocked,
      Turn!WorkUnderTurn, Turn!ReplyInv, Turn!Verbs

\* GiveTurn leaves the flag and the lock agreeing.
LEMMA GiveTurnAgrees ==
  ASSUME TurnConstants, NEW c \in Clients, Turn!TypeOK, Turn!HeldIsLocked, Turn!GiveTurn(c)
  PROVE  /\ held' \in [Clients -> BOOLEAN] /\ turn' \in Clients \cup {NoOne}
         /\ \A d \in Clients : held'[d] <=> turn' = d
         /\ \A d \in Clients \ {c} : turn = d => turn' = d
  BY DEF TurnConstants, Turn!TypeOK, Turn!HeldIsLocked, Turn!GiveTurn

\* A step in which a connection gives up its turn and its side of the server,
\* as lost(), dial, zg_close and a crash do.
LEMMA GoneInv ==
  ASSUME NEW c \in Clients, TurnInv, Turn!GiveTurn(c), Turn!Abandon(c),
         at' = [at EXCEPT ![c] = "idle"],
         NEW b \in BOOLEAN, open' = [open EXCEPT ![c] = b],
         NEW f \in BOOLEAN, failed' = [failed EXCEPT ![c] = f],
         waited' \in [Clients -> 0 .. LockWait], UNCHANGED verb
  PROVE  TurnInv'
<1> USE DEF TurnInv
<1>1. Turn!TypeOK'
  BY GiveTurnAgrees, Zenon DEF Turn!TypeOK, Turn!Abandon
<1>2. Turn!HeldIsLocked'
  BY GiveTurnAgrees, Zenon DEF Turn!HeldIsLocked
<1>3. Turn!WorkUnderTurn'
  <2> SUFFICES ASSUME NEW d \in Clients
               PROVE  /\ busy'[d] => turn' = d /\ open'[d]
                      /\ work'[d] => (turn' = d \/ failed'[d]) /\ open'[d]
    BY Zenon DEF Turn!WorkUnderTurn
  <2>1. CASE d = c
    BY <2>1, Zenon DEF Turn!TypeOK, Turn!Abandon
  <2>2. CASE d # c
    <3>1. /\ busy'[d] = busy[d] /\ work'[d] = work[d]
          /\ open'[d] = open[d] /\ failed'[d] = failed[d]
      BY <2>2, Zenon DEF Turn!TypeOK, Turn!Abandon
    <3>2. turn = d => turn' = d
      BY <2>2, GiveTurnAgrees, Zenon
    <3> QED
      BY <3>1, <3>2, Zenon DEF Turn!WorkUnderTurn
  <2> QED
    BY <2>1, <2>2, Zenon
<1>4. Turn!ReplyInv'
  BY DEF Turn!TypeOK, Turn!ReplyInv, Turn!Abandon
<1> QED
  BY <1>1, <1>2, <1>3, <1>4, Zenon

\* Every step of a connection or of the server keeps the invariant.
LEMMA TurnNextInv == TurnInv /\ [Turn!Next]_(Turn!vars) => TurnInv'
<1> SUFFICES ASSUME TurnInv, [Turn!Next]_(Turn!vars) PROVE TurnInv'
  OBVIOUS
<1> USE DEF TurnInv
<1>1. CASE UNCHANGED Turn!vars
  BY <1>1, Zenon
  DEF Turn!vars, Turn!TypeOK, Turn!HeldIsLocked, Turn!WorkUnderTurn, Turn!ReplyInv
<1>2. CASE Turn!Next
  <2> SUFFICES ASSUME NEW c \in Clients,
                      \/ \E v \in Turn!Verbs : Turn!Verb(c, v)
                      \/ Turn!TakeTurn(c) \/ Turn!Poll(c)
                      \/ Turn!TimeOut(c) \/ Turn!CannotTake(c)
                      \/ Turn!ServerRuns(c) \/ Turn!ServerRefuses(c)
                      \/ Turn!ServerThrows(c) \/ Turn!ServerEnds(c)
                      \/ Turn!Received(c) \/ Turn!Exception(c) \/ Turn!Lost(c)
                      \/ Turn!Reopen(c) \/ Turn!Close(c) \/ Turn!Crash(c)
               PROVE  TurnInv'
    BY <1>2, Zenon DEF Turn!Next
  <2>1. ASSUME NEW v \in Turn!Verbs, Turn!Verb(c, v) PROVE TurnInv'
    BY <2>1
    DEF TurnConstants, Turn!Verb, Turn!TypeOK, Turn!HeldIsLocked, Turn!WorkUnderTurn,
        Turn!ReplyInv
  <2>2. CASE Turn!TakeTurn(c)
    <3>1. Turn!TypeOK'
      <4>1. waited' \in [Clients -> 0 .. LockWait]
        BY <2>2 DEF TurnConstants, Turn!TakeTurn, Turn!TypeOK
      <4>2. /\ at' \in [Clients -> {"idle", "turn", "reply"}]
            /\ failed' \in [Clients -> BOOLEAN] /\ busy' \in [Clients -> BOOLEAN]
            /\ needs' \in [Clients -> BOOLEAN]
            /\ reply' \in [Clients -> {"none", "done", "refused", "untaken", "exception"}]
        BY <2>2, Zenon DEF Turn!TakeTurn, Turn!Send, Turn!TypeOK
      <4> QED
        BY <2>2, <4>1, <4>2, Zenon DEF Turn!TakeTurn, Turn!TypeOK
    <3>2. Turn!HeldIsLocked'
      <4>1. /\ held' = [held EXCEPT ![c] = TRUE] /\ turn' = c
            /\ \A d \in Clients : held[d] => d = c
        BY <2>2, Zenon DEF TurnConstants, Turn!TakeTurn, Turn!HeldIsLocked
      <4>2. \A d \in Clients : held'[d] <=> d = c
        BY <4>1, Zenon DEF Turn!TypeOK
      <4> QED
        BY <4>1, <4>2, Zenon DEF Turn!HeldIsLocked
    <3>3. /\ \A d \in Clients : turn = d => d = c
          /\ turn' = c /\ open' = open /\ work' = work
      BY <2>2, Zenon DEF TurnConstants, Turn!TakeTurn, Turn!HeldIsLocked
    <3>4. Turn!WorkUnderTurn'
      <4> SUFFICES ASSUME NEW d \in Clients
                   PROVE  /\ busy'[d] => turn' = d /\ open'[d]
                          /\ work'[d] => (turn' = d \/ failed'[d]) /\ open'[d]
        BY Zenon DEF Turn!WorkUnderTurn
      <4>1. busy'[d] => busy[d] \/ (d = c /\ open[c])
        BY <2>2, Zenon DEF Turn!TakeTurn, Turn!Send, Turn!TypeOK
      <4>2. failed[d] => failed'[d]
        BY <2>2, Zenon DEF Turn!TakeTurn, Turn!Send, Turn!TypeOK
      <4> QED
        BY <3>3, <4>1, <4>2, Zenon DEF Turn!WorkUnderTurn
    <3>5. Turn!ReplyInv'
      BY <2>2, ZenonT(30) DEF Turn!TakeTurn, Turn!Send, Turn!TypeOK, Turn!ReplyInv
    <3> QED
      BY <3>1, <3>2, <3>4, <3>5, Zenon
  <2>3. CASE Turn!Poll(c)
    <3>1. Turn!TypeOK'
      BY <2>3 DEF TurnConstants, Turn!Poll, Turn!server, Turn!TypeOK
    <3> QED
      BY <2>3, <3>1, Zenon
      DEF Turn!Poll, Turn!server, Turn!HeldIsLocked, Turn!WorkUnderTurn, Turn!ReplyInv
  <2>4. CASE Turn!TimeOut(c) \/ Turn!CannotTake(c)
    <3>1. Turn!NoTurn(c)
      BY <2>4, Zenon DEF Turn!TimeOut, Turn!CannotTake
    <3>2. Turn!TypeOK'
      BY <3>1 DEF TurnConstants, Turn!NoTurn, Turn!server, Turn!TypeOK
    <3>3. Turn!HeldIsLocked' /\ Turn!WorkUnderTurn'
      BY <3>1, Zenon
      DEF Turn!NoTurn, Turn!server, Turn!TypeOK, Turn!HeldIsLocked, Turn!WorkUnderTurn
    <3>4. Turn!ReplyInv'
      BY <3>1, Zenon DEF Turn!NoTurn, Turn!server, Turn!TypeOK, Turn!ReplyInv
    <3> QED
      BY <3>2, <3>3, <3>4, Zenon
  <2>5. CASE Turn!ServerRuns(c)
    BY <2>5, Zenon
    DEF Turn!ServerRuns, Turn!client, Turn!TypeOK, Turn!HeldIsLocked,
        Turn!WorkUnderTurn, Turn!ReplyInv
  <2>12. CASE Turn!ServerRefuses(c)
    <3>1. PICK r \in {"refused", "untaken"}, k \in BOOLEAN :
            /\ busy[c] /\ busy' = [busy EXCEPT ![c] = FALSE]
            /\ needs' = [needs EXCEPT ![c] = FALSE]
            /\ reply' = [reply EXCEPT ![c] = r]
            /\ work' = [work EXCEPT ![c] = k]
            /\ UNCHANGED <<at, verb, waited, open, held, failed, turn, stray>>
      <4>1. work = [work EXCEPT ![c] = work[c]] /\ work[c] \in BOOLEAN
        BY Zenon DEF Turn!TypeOK
      <4> QED
        BY <2>12, <4>1, Zenon DEF Turn!ServerRefuses, Turn!client
    <3>2. Turn!TypeOK'
      BY <3>1, Zenon DEF Turn!TypeOK
    <3>3. Turn!HeldIsLocked'
      BY <3>1, Zenon DEF Turn!HeldIsLocked
    <3>4. Turn!WorkUnderTurn'
      BY <3>1, Zenon DEF Turn!TypeOK, Turn!WorkUnderTurn
    <3>5. Turn!ReplyInv'
      BY <3>1, Zenon DEF Turn!TypeOK, Turn!ReplyInv
    <3> QED
      BY <3>2, <3>3, <3>4, <3>5, Zenon
  <2>6. CASE Turn!ServerThrows(c)
    BY <2>6, Zenon
    DEF Turn!ServerThrows, Turn!client, Turn!TypeOK, Turn!HeldIsLocked,
        Turn!WorkUnderTurn, Turn!ReplyInv
  <2>7. CASE Turn!ServerEnds(c)
    BY <2>7
    DEF Turn!ServerEnds, Turn!client, Turn!TypeOK, Turn!HeldIsLocked,
        Turn!WorkUnderTurn, Turn!ReplyInv
  <2>8. CASE Turn!Received(c)
    <3>1. /\ at[c] = "reply" /\ at' = [at EXCEPT ![c] = "idle"]
          /\ reply[c] # "none" /\ reply' = [reply EXCEPT ![c] = "none"]
          /\ failed' = [failed EXCEPT ![c] = reply[c] # "done" \/ (@ /\ verb[c] = "call")]
          /\ UNCHANGED <<verb, waited, open, busy, needs, work, stray>>
      BY <2>8, Zenon DEF Turn!Received, Turn!Answered
    <3>2. ~busy[c] /\ (reply[c] = "done" /\ verb[c] # "call" => ~work[c])
      BY <3>1, Zenon DEF Turn!ReplyInv
    <3>3. /\ held' \in [Clients -> BOOLEAN] /\ turn' \in Clients \cup {NoOne}
          /\ \A d \in Clients : held'[d] <=> turn' = d
          /\ \A d \in Clients \ {c} : turn = d => turn' = d
          /\ verb[c] = "call" => turn' = turn
      <4>1. CASE verb[c] = "call" \/ reply[c] = "untaken"
        BY <2>8, <4>1, Zenon DEF Turn!Received, Turn!TypeOK, Turn!HeldIsLocked
      <4>2. CASE ~(verb[c] = "call" \/ reply[c] = "untaken")
        BY <2>8, <4>2, GiveTurnAgrees, Zenon DEF Turn!Received
      <4> QED
        BY <4>1, <4>2, Zenon
    <3>4. Turn!TypeOK'
      BY <3>1, <3>3, Zenon DEF Turn!TypeOK
    <3>5. Turn!HeldIsLocked'
      BY <3>3, Zenon DEF Turn!HeldIsLocked
    <3>6. Turn!WorkUnderTurn'
      <4> SUFFICES ASSUME NEW d \in Clients
                   PROVE  /\ busy'[d] => turn' = d /\ open'[d]
                          /\ work'[d] => (turn' = d \/ failed'[d]) /\ open'[d]
        BY Zenon DEF Turn!WorkUnderTurn
      <4>1. CASE d = c
        <5>1. ~busy'[c] /\ work'[c] = work[c] /\ open'[c] = open[c]
          BY <3>1, <3>2, Zenon
        <5>2. work[c] => (turn = c \/ failed[c]) /\ open[c]
          BY Zenon DEF Turn!WorkUnderTurn
        <5>3. failed'[c] <=> reply[c] # "done" \/ (failed[c] /\ verb[c] = "call")
          BY <3>1, Zenon DEF Turn!TypeOK
        <5> QED
          BY <3>2, <3>3, <4>1, <5>1, <5>2, <5>3, Zenon
      <4>2. CASE d # c
        <5>1. /\ busy'[d] = busy[d] /\ work'[d] = work[d]
              /\ open'[d] = open[d] /\ failed'[d] = failed[d]
          BY <3>1, <4>2, Zenon DEF Turn!TypeOK
        <5> QED
          BY <3>3, <4>2, <5>1, Zenon DEF Turn!WorkUnderTurn
      <4> QED
        BY <4>1, <4>2, Zenon
    <3>7. Turn!ReplyInv'
      BY <3>1, <3>2, Zenon DEF Turn!TypeOK, Turn!ReplyInv
    <3> QED
      BY <3>4, <3>5, <3>6, <3>7, Zenon
  <2>9. CASE Turn!Lost(c) \/ Turn!Exception(c)
    <3>1. Turn!Lost(c)
      BY <2>9, Zenon DEF Turn!Exception
    <3>2. waited' \in [Clients -> 0 .. LockWait]
      BY <3>1, Zenon DEF Turn!Lost, Turn!TypeOK
    <3> QED
      BY <3>1, <3>2, GoneInv, Zenon DEF Turn!Lost
  <2>10. CASE Turn!Reopen(c)
    <3>1. PICK ok \in BOOLEAN : /\ open' = [open EXCEPT ![c] = ok]
                               /\ failed' = [failed EXCEPT ![c] = ~ok]
      BY <2>10, Zenon DEF Turn!Reopen
    <3>2. at' = [at EXCEPT ![c] = "idle"]
      BY <2>10 DEF Turn!Reopen, Turn!TypeOK
    <3>3. waited' \in [Clients -> 0 .. LockWait]
      BY <2>10, Zenon DEF Turn!Reopen, Turn!TypeOK
    <3>4. PICK f \in BOOLEAN : failed' = [failed EXCEPT ![c] = f]
      BY <3>1, Zenon
    <3>5. Turn!GiveTurn(c) /\ Turn!Abandon(c) /\ UNCHANGED verb
      BY <2>10, Zenon DEF Turn!Reopen
    <3> QED
      BY <3>1, <3>2, <3>3, <3>4, <3>5, GoneInv, Zenon
  <2>11. CASE Turn!Close(c) \/ Turn!Crash(c)
    <3>1. Turn!Ends(c)
      BY <2>11, Zenon DEF Turn!Close, Turn!Crash
    <3>2. waited' \in [Clients -> 0 .. LockWait]
      BY <3>1 DEF TurnConstants, Turn!Ends, Turn!TypeOK
    <3> QED
      BY <3>1, <3>2, GoneInv, Zenon DEF Turn!Ends
  <2> QED
    BY <2>1, <2>2, <2>3, <2>4, <2>5, <2>6, <2>7, <2>8, <2>9, <2>10, <2>11, <2>12, Zenon
<1> QED
  BY <1>1, <1>2, Zenon

\* c->held and flock agree in every reachable state.
THEOREM FlagAndLockAgree == TurnConstants /\ Turn!Spec => []Turn!HeldIsLocked
<1>1. TurnInv => Turn!HeldIsLocked
  BY Zenon DEF TurnInv
<1> QED
  BY <1>1, TurnInitInv, TurnNextInv, PTL DEF Turn!Spec

\* A request inside the engine is the turn holder's, and work not yet committed
\* is, unless simple_verb gave the turn after a commit that was refused.
THEOREM TurnCoversTransaction == TurnConstants /\ Turn!Spec => []Turn!WorkUnderTurn
<1>1. TurnInv => Turn!WorkUnderTurn
  BY DEF TurnInv
<1> QED
  BY <1>1, TurnInitInv, TurnNextInv, PTL DEF Turn!Spec

\* A connection has a request inside the engine, or an open transaction and no
\* verb that failed.
InStore(c) == busy[c] \/ (work[c] /\ ~failed[c])

\* No two connections are inside the storage engine at once, or between a call and
\* its commit while no verb of theirs has failed; what a lost connection leaves
\* behind is not counted.
THEOREM EngineAlone ==
  TurnConstants /\ Turn!Spec => [](\A c, d \in Clients : InStore(c) /\ InStore(d) => c = d)
<1>1. Turn!WorkUnderTurn => \A c, d \in Clients : InStore(c) /\ InStore(d) => c = d
  <2>1. Turn!WorkUnderTurn => \A c \in Clients : InStore(c) => turn = c
    BY Zenon DEF Turn!WorkUnderTurn, InStore
  <2> QED
    BY <2>1, Zenon
<1> QED
  BY <1>1, TurnCoversTransaction, PTL
=============================================================================
