---------------------------- MODULE SessionProofs ----------------------------
(***************************************************************************)
(* Theorems about Session, for any advertised lists, bound and codes of a  *)
(* newer build, and for every program of peer: establishment first, then what *)
(* the endpoints hear of one another's algorithms.                         *)
(***************************************************************************)
EXTENDS Session, WireProofs

Programs == {"this", "newer", "other", "tls12", "imposter"}

\* What runs behind an endpoint, and what there is of its state.
Shape == /\ program \in [Peers -> Programs] /\ program[Client] # "imposter"
         /\ DOMAIN stage = Peers /\ DOMAIN flight = Peers /\ DOMAIN agreed = Peers
         /\ DOMAIN sent = Peers /\ DOMAIN got = Peers

\* A message on its way says what its sender does: the client its versions,
\* the server the version it settled for, one of both lists, its certificate
\* and whose signature it is.
FlightInv ==
    /\ flight[Server].tag \in {"nothing", "ClientHello", "Finished"}
    /\ flight[Client].tag \in {"nothing", "Answer"}
    /\ flight[Server].tag = "ClientHello" => flight[Server].versions = Versions(Client)
    /\ flight[Client].tag = "Answer" =>
         /\ flight[Client].version \in Versions(Client) \cap Versions(Server)
         /\ flight[Client].certified = Credentials(Server).certified
         /\ flight[Client].signed_by = Credentials(Server).key

HoldsKey(e) == Credentials(e).key = Credentials(e).certified

\* An endpoint that has settled for a version has settled for one of its own.
AgreedInv ==
    /\ \A e \in Peers : agreed[e] # 0 => agreed[e] \in Versions(e)
    /\ Ours(Client) /\ agreed[Client] # 0 => HoldsKey(Server)
    /\ asked # 0 => Ours(Client) /\ asked \in Versions(Client)

\* Nobody answers, is established or exchanges frames before it has settled.
StageInv ==
    \A e \in Peers :
      /\ stage[e] = "answered" \/ Established(e) => agreed[e] # 0
      /\ sent[e] # << >> \/ got[e] # << >> => agreed[e] # 0

SInv == Shape /\ FlightInv /\ AgreedInv /\ StageInv

-----------------------------------------------------------------------------
LEMMA VersionsOf ==
    ASSUME Shape, NEW e \in Peers
    PROVE  Versions(e) \subseteq {12, 13} /\ (Ours(e) => Versions(e) = {13})
<1>1. program[e] \in Programs
      BY DEF Shape
<1> QED BY <1>1 DEF Versions, Ours, Programs

LEMMA HighestCommon ==
    ASSUME NEW S, S \subseteq {12, 13}, S # {}
    PROVE  Max(S) \in S
<1>1. \E x \in S : \A y \in S : x >= y
  <2>1. CASE 13 \in S
        BY <2>1
  <2>2. CASE 13 \notin S
    <3>1. 12 \in S /\ \A y \in S : y = 12
          BY <2>2
    <3> QED BY <3>1
  <2> QED BY <2>1, <2>2
<1> QED BY <1>1 DEF Max

LEMMA Endpoints ==
    Client \in Peers /\ Server \in Peers /\ Client # Server
BY SessionAssumption DEF Peers

\* Kinds, and what follows from them, do not change.
LEMMA KindsStay ==
    ASSUME program' = program
    PROVE  \A e \in Peers : /\ Versions(e)' = Versions(e) /\ Ours(e)' = Ours(e)
                            /\ Credentials(e)' = Credentials(e)
                            /\ HoldsKey(e)' = HoldsKey(e)
BY DEF Versions, HoldsKey, Credentials, Generate, Ours

\* A step that only moves an endpoint to a stage before an answer, or past the
\* channel's life, disturbs nothing.
LEMMA Quiet ==
    ASSUME SInv, NEW e \in Peers, NEW s, s \notin {"answered", "established"},
           Become(e, s), UNCHANGED << program, flight, asked, agreed, sent, got >>
    PROVE  SInv'
<1>1. Shape'
      BY DEF SInv, Shape, Become
<1>2. FlightInv'
      BY KindsStay, Endpoints DEF SInv, FlightInv
<1>3. AgreedInv'
      BY KindsStay, Endpoints DEF SInv, AgreedInv
<1>4. StageInv'
      BY DEF SInv, StageInv, Shape, Become, Established
<1> QED BY <1>1, <1>2, <1>3, <1>4 DEF SInv

LEMMA SInit == Init => SInv
<1> SUFFICES ASSUME Init PROVE SInv
    OBVIOUS
<1>1. Shape
      BY Endpoints DEF Init, Shape, Programs, Transport!Init, Transport!Peers, Peers
<1>2. FlightInv
      BY Endpoints DEF Init, FlightInv, Nothing
<1>3. AgreedInv /\ StageInv
      BY Endpoints DEF Init, AgreedInv, StageInv, Established, Transport!Init, Transport!Peers, Peers
<1> QED BY <1>1, <1>2, <1>3 DEF SInv

LEMMA ConnectKeeps ==
    ASSUME SInv, NEW e \in Peers, Connect(e) PROVE SInv'
<1>1. e = Client /\ program' = program
      BY DEF Connect
<1>2. Shape'
      BY DEF SInv, Shape, Connect, Become, frames
<1>3. FlightInv'
      BY <1>1, KindsStay, Endpoints DEF SInv, Shape, FlightInv, Connect
<1>4. AgreedInv'
      BY <1>1, KindsStay, Endpoints DEF SInv, AgreedInv, Connect
<1>5. StageInv'
      BY DEF SInv, Shape, StageInv, Connect, Become, Established, frames
<1> QED BY <1>2, <1>3, <1>4, <1>5 DEF SInv

LEMMA AnswerKeeps ==
    ASSUME SInv, NEW e \in Peers, Answer(e) PROVE SInv'
<1> DEFINE common == Versions(e) \cap flight[e].versions
<1>1. /\ program' = program /\ flight[e].tag = "ClientHello"
      /\ UNCHANGED << asked, sent, got >>
      BY DEF Answer, frames
<1>2. e = Server
      BY <1>1, Endpoints DEF SInv, FlightInv, Peers
<1>3. flight[e].versions = Versions(Client)
      BY <1>1, <1>2 DEF SInv, FlightInv
<1>4. CASE common = {}
  <2>1. /\ Become(e, "failed") /\ UNCHANGED agreed
        /\ flight' = [flight EXCEPT ![e] = Nothing]
        BY <1>4 DEF Answer
  <2>2. Shape'
        BY <1>1, <2>1 DEF SInv, Shape, Become
  <2>3. FlightInv'
        BY <1>1, <1>2, <2>1, KindsStay, Endpoints DEF SInv, Shape, FlightInv, Nothing
  <2>4. AgreedInv'
        BY <1>1, <2>1, KindsStay, Endpoints DEF SInv, AgreedInv
  <2>5. StageInv'
        BY <1>1, <2>1 DEF SInv, Shape, StageInv, Become, Established
  <2> QED BY <2>2, <2>3, <2>4, <2>5 DEF SInv
<1>5. CASE common # {}
  <2> DEFINE v == Max(common)
  <2>1. /\ Become(e, "answered") /\ agreed' = [agreed EXCEPT ![e] = v]
        /\ flight' = [flight EXCEPT ![e] = Nothing, ![Client] =
                         [tag |-> "Answer", version |-> v,
                          certified |-> Credentials(e).certified,
                          signed_by |-> Credentials(e).key]]
        BY <1>5 DEF Answer
  <2>2. v \in common /\ v # 0
    <3>1. common \subseteq {12, 13}
          BY VersionsOf DEF SInv
    <3> HIDE DEF common
    <3>2. v \in common
          BY <1>5, <3>1, HighestCommon
    <3> QED BY <3>1, <3>2
  <2> HIDE DEF v
  <2>3. Shape'
        BY <1>1, <2>1 DEF SInv, Shape, Become
  <2>4. FlightInv'
        BY <1>1, <1>2, <1>3, <2>1, <2>2, KindsStay, Endpoints
        DEF SInv, Shape, FlightInv, Nothing
  <2>5. AgreedInv'
        BY <1>1, <1>2, <2>1, <2>2, KindsStay, Endpoints DEF SInv, Shape, AgreedInv
  <2>6. StageInv'
        BY <1>1, <2>1, <2>2 DEF SInv, Shape, StageInv, Become, Established
  <2> QED BY <2>3, <2>4, <2>5, <2>6 DEF SInv
<1> QED BY <1>4, <1>5

LEMMA VerifiedKeeps ==
    ASSUME SInv, NEW e \in Peers, Verified(e) PROVE SInv'
<1> DEFINE v == flight[e].version
<1>1. /\ program' = program /\ flight[e].tag = "Answer"
      /\ UNCHANGED << sent, got >> /\ asked' = IF Ours(e) THEN v ELSE asked
      BY DEF Verified, frames
<1>2. e = Client
      BY <1>1, Endpoints DEF SInv, FlightInv, Peers
<1>3. /\ v \in Versions(Client) /\ v # 0
      /\ VerifySignature(flight[e]) => HoldsKey(Server)
      BY <1>1, <1>2, VersionsOf, Endpoints DEF SInv, FlightInv, VerifySignature, HoldsKey
<1>4. CASE Ours(e) => VerifySignature(flight[e])
  <2>1. /\ Become(e, "established") /\ agreed' = [agreed EXCEPT ![e] = v]
        /\ flight' = [flight EXCEPT ![e] = Nothing, ![Server] = [tag |-> "Finished"]]
        BY <1>4 DEF Verified
  <2> HIDE DEF v
  <2>2. Shape'
        BY <1>1, <2>1 DEF SInv, Shape, Become
  <2>3. FlightInv'
        BY <1>1, <1>2, <2>1, KindsStay, Endpoints DEF SInv, Shape, FlightInv, Nothing
  <2>4. AgreedInv'
        BY <1>1, <1>2, <1>3, <1>4, <2>1, KindsStay, Endpoints
        DEF SInv, Shape, AgreedInv, VerifySignature
  <2>5. StageInv'
        BY <1>1, <1>3, <2>1 DEF SInv, Shape, StageInv, Become, Established
  <2> QED BY <2>2, <2>3, <2>4, <2>5 DEF SInv
<1>5. CASE ~(Ours(e) => VerifySignature(flight[e]))
  <2>1. /\ Become(e, "failed") /\ UNCHANGED agreed
        /\ flight' = [flight EXCEPT ![e] = Nothing]
        BY <1>5 DEF Verified
  <2> HIDE DEF v
  <2>2. Shape'
        BY <1>1, <2>1 DEF SInv, Shape, Become
  <2>3. FlightInv'
        BY <1>1, <1>2, <2>1, KindsStay, Endpoints DEF SInv, Shape, FlightInv, Nothing
  <2>4. AgreedInv'
        BY <1>1, <1>2, <1>3, <2>1, KindsStay, Endpoints DEF SInv, AgreedInv
  <2>5. StageInv'
        BY <1>1, <2>1 DEF SInv, Shape, StageInv, Become, Established
  <2> QED BY <2>2, <2>3, <2>4, <2>5 DEF SInv
<1> QED BY <1>4, <1>5

LEMMA FinishKeeps ==
    ASSUME SInv, NEW e \in Peers, Finish(e) PROVE SInv'
<1>1. /\ program' = program /\ UNCHANGED << asked, agreed, sent, got >>
      /\ stage[e] = "answered" /\ Become(e, "established")
      /\ flight' = [flight EXCEPT ![e] = Nothing]
      BY DEF Finish, frames
<1>2. Shape'
      BY <1>1 DEF SInv, Shape, Become
<1>3. FlightInv'
      BY <1>1, KindsStay, Endpoints DEF SInv, Shape, FlightInv, Nothing
<1>4. AgreedInv'
      BY <1>1, KindsStay, Endpoints DEF SInv, AgreedInv
<1>5. StageInv'
      BY <1>1 DEF SInv, Shape, StageInv, Become, Established
<1> QED BY <1>2, <1>3, <1>4, <1>5 DEF SInv

\* Frames are sent and received by established endpoints.
LEMMA FramesKeep ==
    ASSUME SInv, NEW e \in Peers, Established(e),
           UNCHANGED << program, stage, flight, asked, agreed >>,
           \E p : Transport!Complete(e, p) \/ Transport!Deliver(e)
    PROVE  SInv'
<1>1. /\ DOMAIN sent' = Peers /\ DOMAIN got' = Peers
      /\ \A d \in Peers : d # e => sent'[d] = sent[d] /\ got'[d] = got[d]
      BY DEF Transport!Complete, Transport!Deliver, SInv, Shape
<1>2. Shape'
      BY <1>1 DEF SInv, Shape
<1>3. FlightInv' /\ AgreedInv'
      BY KindsStay, Endpoints DEF SInv, FlightInv, AgreedInv
<1>4. StageInv'
      BY <1>1 DEF SInv, StageInv, Established
<1> QED BY <1>2, <1>3, <1>4 DEF SInv

LEMMA SStep == SInv /\ [Next]_vars => SInv'
<1> SUFFICES ASSUME SInv, [Next]_vars PROVE SInv'
    OBVIOUS
<1>1. ASSUME NEW e \in Peers, Install(e) PROVE SInv'
      BY <1>1, Quiet DEF Install, frames
<1>2. ASSUME NEW e \in Peers, Configure(e) PROVE SInv'
      BY <1>2, Quiet DEF Configure, frames
<1>3. ASSUME NEW e \in Peers, ConfigRefused(e) PROVE SInv'
      BY <1>3, Quiet DEF ConfigRefused, frames
<1>4. ASSUME NEW e \in Peers, Accept(e) PROVE SInv'
      BY <1>4, Quiet DEF Accept, frames
<1>5. ASSUME NEW e \in Peers, Fail(e) PROVE SInv'
      BY <1>5, Quiet DEF Fail, frames
<1>6. ASSUME NEW e \in Peers, Leave(e) PROVE SInv'
      BY <1>6, Quiet DEF Leave, frames
<1>7. ASSUME NEW e \in Peers, Advertise(e) PROVE SInv'
      BY <1>7, FramesKeep DEF Advertise, Send
<1>8. ASSUME NEW e \in Peers, Respond(e) PROVE SInv'
      BY <1>8, FramesKeep DEF Respond, Send
<1>9. ASSUME NEW e \in Peers, Foreign(e) PROVE SInv'
      BY <1>9, FramesKeep DEF Foreign, Send
<1>10. ASSUME NEW e \in Peers, Receive(e) PROVE SInv'
       BY <1>10, FramesKeep DEF Receive
<1>11. CASE UNCHANGED << program, stage, flight, asked, agreed, sent, got >>
  <2>1. Shape' /\ StageInv'
        BY <1>11 DEF SInv, Shape, StageInv, Established
  <2>2. FlightInv' /\ AgreedInv'
        BY <1>11, KindsStay, Endpoints DEF SInv, FlightInv, AgreedInv
  <2> QED BY <2>1, <2>2 DEF SInv
<1>12. CASE Break
       BY <1>11, <1>12 DEF Break, frames
<1>13. CASE UNCHANGED vars
       BY <1>11, <1>13 DEF vars, frames
<1> QED BY <1>1, <1>2, <1>3, <1>4, <1>5, <1>6, <1>7, <1>8, <1>9, <1>10, <1>12, <1>13,
           ConnectKeeps, AnswerKeeps, VerifiedKeeps, FinishKeeps DEF Next, Step

-----------------------------------------------------------------------------
\* An endpoint of this code is established, or has sent or received a frame,
\* only with TLS 1.3, its client only with a server that holds the key of the
\* certificate it showed; the verifier is never asked about TLS 1.2
\* (channel.rs:66-90, verify.rs:8-14, verify.rs:54).
THEOREM EstablishmentIsConfidential == Spec => []EstablishedIsConfidential
<1>1. SInv => EstablishedIsConfidential
  <2> SUFFICES ASSUME SInv PROVE EstablishedIsConfidential
      OBVIOUS
  <2>1. asked # 12
        BY VersionsOf, Endpoints DEF SInv, AgreedInv
  <2>2. ASSUME NEW e \in Peers, Ours(e), Established(e) \/ sent[e] # << >> \/ got[e] # << >>
        PROVE  agreed[e] = 13
        BY <2>2, VersionsOf DEF SInv, StageInv, AgreedInv
  <2>3. ASSUME Ours(Client), Established(Client) PROVE program[Server] # "imposter"
    <3>1. HoldsKey(Server)
          BY <2>3, Endpoints DEF SInv, StageInv, AgreedInv
    <3>2. Peer(Server) # Server
          BY Endpoints DEF Peer
    <3> QED BY <3>1, <3>2 DEF HoldsKey, Credentials, Generate
  <2> QED BY <2>1, <2>2, <2>3 DEF EstablishedIsConfidential
<1> QED BY <1>1, SInit, SStep, PTL DEF Spec

-----------------------------------------------------------------------------
(***************************************************************************)
(* known_algorithms()                                                      *)
(***************************************************************************)
\* kept is what there is of the first n codes when those that do not resolve
\* are left out: pos says where each of it stands among the codes.
Picks(e, codes, n, kept, pos) ==
    /\ kept \in Seq(Nat) /\ Len(kept) <= n
    /\ pos \in [1..Len(kept) -> 1..n]
    /\ \A j \in 1..Len(kept) : kept[j] = codes[pos[j]] /\ Resolves(e, codes[pos[j]])
    /\ \A j, l \in 1..Len(kept) : j < l => pos[j] < pos[l]
    /\ \A k \in 1..n : Resolves(e, codes[k]) => \E j \in 1..Len(kept) : pos[j] = k

Found(e, c) == IF Resolves(e, c) THEN << c >> ELSE << >>

LEMMA FoundPicks ==
    ASSUME NEW e, NEW codes \in Seq(Nat), NEW n \in Nat, n + 1 \in 1..Len(codes),
           NEW kept, NEW pos, Picks(e, codes, n, kept, pos)
    PROVE  \E q : Picks(e, codes, n + 1,
                        kept \o Found(e, codes[n + 1]), q)
<1> DEFINE c == codes[n + 1]
           next == kept \o Found(e, c)
<1>0. c \in Nat /\ kept \in Seq(Nat) /\ Len(kept) \in Nat
      BY DEF Picks
<1>1. CASE Resolves(e, c)
  <2> DEFINE m == Len(kept)
             q == [j \in 1..(m + 1) |-> IF j = m + 1 THEN n + 1 ELSE pos[j]]
  <2>1. next = kept \o << c >>
        BY <1>1 DEF Found
  <2>2. /\ pos \in [1..m -> 1..n] /\ m <= n
        /\ \A j, l \in 1..m : j < l => pos[j] < pos[l]
        BY DEF Picks
  <2>3. ASSUME NEW j \in 1..m
        PROVE  q[j] = pos[j] /\ pos[j] \in 1..n /\ j \in 1..(m + 1)
    <3>1. j \in 1..(m + 1) /\ j # m + 1
          BY <1>0
    <3>2. pos[j] \in 1..n
          BY <2>2
    <3> QED BY <3>1, <3>2
  <2>4. /\ q[m + 1] = n + 1 /\ q \in [1..(m + 1) -> 1..(n + 1)]
        BY <1>0, <2>2, SMTT(30)
  <2> HIDE DEF q, next, c
  <2>5. next \in Seq(Nat) /\ Len(next) = m + 1 /\ next[m + 1] = c
        BY <1>0, <2>1
  <2>6. \A j \in 1..m : next[j] = kept[j]
        BY <1>0, <2>1
  <2>7. ASSUME NEW j \in 1..(m + 1)
        PROVE  next[j] = codes[q[j]] /\ Resolves(e, codes[q[j]])
    <3>1. CASE j = m + 1
          BY <1>1, <2>4, <2>5, <3>1 DEF c
    <3>2. CASE j \in 1..m
          BY <2>3, <2>6, <3>2 DEF Picks
    <3>3. m \in Nat
          BY <1>0
    <3> HIDE DEF m
    <3>4. j = m + 1 \/ j \in 1..m
          BY <3>3
    <3> QED BY <3>1, <3>2, <3>4
  <2>8. ASSUME NEW j \in 1..(m + 1), NEW l \in 1..(m + 1), j < l PROVE q[j] < q[l]
    <3> HIDE DEF m
    <3>1. m \in Nat /\ j \in 1..m
          BY <1>0, <2>8 DEF m
    <3>2. CASE l = m + 1
      <4>1. q[j] = pos[j] /\ pos[j] \in 1..n
            BY <2>3, <3>1
      <4>2. q[l] = n + 1
            BY <2>4, <3>2
      <4> QED BY <4>1, <4>2
    <3>3. CASE l \in 1..m
          BY <2>2, <2>3, <2>8, <3>1, <3>3
    <3> QED BY <3>1, <3>2, <3>3
  <2>9. ASSUME NEW k \in 1..(n + 1), Resolves(e, codes[k])
        PROVE  \E j \in 1..(m + 1) : q[j] = k
    <3>1. CASE k = n + 1
          BY <1>0, <2>4, <3>1
    <3>2. CASE k \in 1..n
      <4>1. PICK j \in 1..m : pos[j] = k
            BY <2>9, <3>2 DEF Picks
      <4>2. j \in 1..(m + 1) /\ q[j] = k
            BY <1>0, <2>3, <4>1
      <4> QED BY <4>2
    <3> QED BY <3>1, <3>2
  <2>10. Picks(e, codes, n + 1, next, q)
    <3>1. Len(next) <= n + 1
          BY <1>0, <2>2, <2>5
    <3> QED BY <2>4, <2>5, <2>7, <2>8, <2>9, <3>1 DEF Picks
  <2> QED BY <2>10 DEF next, c
<1>2. CASE ~Resolves(e, c)
  <2>1. next = kept
        BY <1>0, <1>2 DEF Found
  <2>2. pos \in [1..Len(kept) -> 1..(n + 1)] /\ Len(kept) <= n + 1
        BY <1>0 DEF Picks
  <2>3. \A k \in 1..(n + 1) : Resolves(e, codes[k]) => \E j \in 1..Len(kept) : pos[j] = k
        BY <1>2 DEF Picks
  <2> HIDE DEF next
  <2>4. Picks(e, codes, n + 1, next, pos)
        BY <2>1, <2>2, <2>3 DEF Picks
  <2> QED BY <2>4 DEF next
<1> QED BY <1>1, <1>2

LEMMA KnownPart ==
    ASSUME NEW e, NEW codes \in Seq(Nat)
    PROVE  \E pos : Picks(e, codes, Len(codes), KnownAlgorithms(e, codes), pos)
<1> DEFINE items == [i \in DOMAIN codes |-> Found(e, codes[i])]
           n == Len(codes)
<1>1. n \in Nat /\ DOMAIN codes = 1..n /\ \A i \in 1..n : codes[i] \in Nat
      OBVIOUS
<1>2. items \in Seq(Seq(Nat)) /\ Len(items) = n
  <2>1. \A i \in 1..n : Found(e, codes[i]) \in Seq(Nat)
        BY <1>1 DEF Found
  <2>2. items \in [1..n -> Seq(Nat)] /\ DOMAIN items = 1..n
        BY <1>1, <2>1
  <2> HIDE DEF items
  <2> QED BY <1>1, <2>2
<1>3. \A i \in 1..n : items[i] = Found(e, codes[i])
      BY <1>1
<1>4. KnownAlgorithms(e, codes) = FlattenSeq(items)
      BY Zenon DEF KnownAlgorithms, Found
<1> HIDE DEF items
<1>5. PICK acc \in [0..Len(items) -> Seq(Nat)] :
            /\ acc[0] = << >>
            /\ \A i \in 1..Len(items) : acc[i] = acc[i - 1] \o items[i]
            /\ FlattenSeq(items) = acc[Len(items)]
      BY <1>2, FlattenRun, Zenon
<1> DEFINE T == {k \in Nat : k <= n => \E pos : Picks(e, codes, k, acc[k], pos)}
<1>6. 0 \in T
  <2>1. Picks(e, codes, 0, acc[0], << >>)
        BY <1>5 DEF Picks
  <2> QED BY <2>1
<1>7. ASSUME NEW k \in T PROVE k + 1 \in T
  <2>1. SUFFICES ASSUME k + 1 <= n
                 PROVE  \E pos : Picks(e, codes, k + 1, acc[k + 1], pos)
        OBVIOUS
  <2>2. PICK pos : Picks(e, codes, k, acc[k], pos)
        BY <1>1, <2>1
  <2>3. k \in Nat /\ k + 1 \in 1..n /\ (k + 1) - 1 = k
        BY <1>1, <2>1
  <2>4. acc[k + 1] = acc[k] \o Found(e, codes[k + 1])
        BY <1>2, <1>3, <1>5, <2>3
  <2> QED BY <2>2, <2>3, <2>4, FoundPicks
<1> HIDE DEF T
<1>8. T = Nat
  <2>1. T \subseteq Nat
        BY DEF T
  <2> QED BY <1>6, <1>7, <2>1, Induction
<1>9. n \in T
      BY <1>1, <1>8
<1> QED BY <1>1, <1>2, <1>4, <1>5, <1>9 DEF T

-----------------------------------------------------------------------------
(***************************************************************************)
(* What is heard                                                           *)
(***************************************************************************)
\* A list within the bound is decoded from its encoding.
LEMMA HelloDecodes ==
    ASSUME NEW codes \in Seq(0..U16_MAX), Fits(codes)
    PROVE  FromBytes("Hello", Encoded(codes)) = Ok(Hello(codes)) /\ Codes(Hello(codes)) = codes
<1> DEFINE fields == Fields("Hello")
           field  == BoundedVec(MAX_HELLO_ALGS, << U16 >>)
           n      == Len(codes)
           list   == [i \in DOMAIN codes |-> << codes[i] >>]
<1>1. fields \in Seq(Types) /\ fields = << field >>
      BY MessageTypes DEF Fields, Kinds
<1>2. n \in Nat /\ DOMAIN codes = 1..n /\ codes = [i \in 1..n |-> codes[i]]
      /\ \A i \in 1..n : codes[i] \in 0..U16_MAX
  <2> DEFINE U == 0..U16_MAX
  <2> HIDE DEF U
  <2>1. codes \in Seq(U)
        BY DEF U
  <2>2. n \in Nat /\ codes \in [1..n -> U]
        BY <2>1
  <2> QED BY <2>2 DEF U
<1>3. n \in 0..MAX_HELLO_ALGS
      BY <1>2, BoundsAssumption DEF Fits
<1> HIDE DEF n
<1>4. Hello(codes) = << list >>
      BY DEF Hello
<1>5. list = [i \in 1..n |-> << codes[i] >>]
      BY <1>2
<1> HIDE DEF list
<1>6. Codes(Hello(codes)) = codes
  <2>1. DOMAIN list = 1..n /\ \A i \in 1..n : list[i][1] = codes[i]
        BY <1>5
  <2>2. Hello(codes)[1] = list
        BY <1>4
  <2>3. Codes(Hello(codes)) = [i \in DOMAIN list |-> list[i][1]]
        BY <2>2 DEF Codes
  <2>4. [i \in DOMAIN list |-> list[i][1]] = [i \in 1..n |-> codes[i]]
        BY <2>1
  <2> QED BY <1>2, <2>3, <2>4
<1>7. Holds(field, list)
  <2>1. ASSUME NEW i \in 1..n PROVE HoldsItems(<< U16 >>, list[i])
    <3>1. list[i] = << codes[i] >> /\ codes[i] \in 0..U16_MAX
          BY <1>2, <1>5
    <3>2. HoldsItem(U16, codes[i])
          BY <3>1 DEF HoldsItem, U16
    <3>3. << codes[i] >> = [j \in DOMAIN << U16 >> |-> << codes[i] >>[j]]
          OBVIOUS
    <3> QED BY <3>1, <3>2, <3>3 DEF HoldsItems
  <2>2. field.type = "seq" /\ field.max = MAX_HELLO_ALGS /\ field.items = << U16 >>
        BY DEF BoundedVec
  <2>3. list = [i \in 1..n |-> list[i]]
        BY <1>5
  <2> HIDE DEF field
  <2> QED BY <1>3, <2>1, <2>2, <2>3, Zenon DEF Holds
<1> HIDE DEF field
<1>8. Hello(codes) \in MessageValues(fields)
  <2>1. DOMAIN fields = 1..1 /\ fields[1] = field
        BY <1>1
  <2>2. << list >> = [i \in DOMAIN fields |-> << list >>[i]]
        BY <2>1
  <2>3. \A i \in DOMAIN fields : Holds(fields[i], << list >>[i])
        BY <1>7, <2>1
  <2> HIDE DEF fields
  <2> QED BY <1>1, <1>4, <2>2, <2>3, HeldIsMessage
<1> HIDE DEF fields
<1>9. DecodeExact(fields, ToAllocVec(fields, Hello(codes))) = Ok(Hello(codes))
      BY <1>1, <1>8, EncodedDecodes
<1>10. Encoded(codes) = ToAllocVec(fields, Hello(codes))
       BY DEF Encoded, ToBytes, Ok, fields
<1>11. \A b : FromBytes("Hello", b) = DecodeExact(fields, b)
       BY DEF FromBytes, fields
<1> QED BY <1>6, <1>9, <1>10, <1>11

LEMMA CodesAreNumbers ==
    ASSUME NEW codes \in Seq(0..U16_MAX) PROVE codes \in Seq(Nat)
<1> DEFINE U == 0..U16_MAX
<1>1. U \subseteq Nat
      OBVIOUS
<1>2. codes \in Seq(U)
      BY DEF U
<1> HIDE DEF U
<1>3. Len(codes) \in Nat /\ codes \in [1..Len(codes) -> U]
      BY <1>2
<1>4. codes \in [1..Len(codes) -> Nat]
      BY <1>1, <1>3
<1> QED BY <1>2, <1>3, <1>4

\* What is known of a list within the bound is within it.
LEMMA KnownFits ==
    ASSUME NEW e, NEW codes \in Seq(0..U16_MAX), Fits(codes)
    PROVE  KnownAlgorithms(e, codes) \in Seq(0..U16_MAX) /\ Fits(KnownAlgorithms(e, codes))
<1> DEFINE known == KnownAlgorithms(e, codes)
<1> DEFINE U == 0..U16_MAX
<1>1. codes \in Seq(U) /\ codes \in Seq(Nat)
      BY CodesAreNumbers DEF U
<1> HIDE DEF U
<1>2. PICK pos : Picks(e, codes, Len(codes), known, pos)
      BY <1>1, KnownPart
<1> HIDE DEF known
<1>3. /\ known \in Seq(Nat) /\ Len(known) <= Len(codes)
      /\ pos \in [1..Len(known) -> 1..Len(codes)]
      /\ \A j \in 1..Len(known) : known[j] = codes[pos[j]]
      BY <1>2 DEF Picks
<1>4. \A j \in 1..Len(known) : known[j] \in U
      BY <1>1, <1>3
<1>5. known \in Seq(U)
  <2>1. Len(known) \in Nat /\ known \in [1..Len(known) -> Nat]
        BY <1>3
  <2>2. known \in [1..Len(known) -> U]
        BY <1>4, <2>1, Zenon
  <2> QED BY <2>1, <2>2
<1>6. Fits(known)
  <2>1. Len(known) \in Nat /\ Len(codes) \in Nat
        BY <1>1, <1>3
  <2>2. MAX_HELLO_ALGS \in Nat
    <3>1. MAX_HELLO_ALGS \in 0..TWO_BYTES
          BY Lengths, Zenon
    <3> QED BY <3>1 DEF TWO_BYTES
  <2> QED BY <1>3, <2>1, <2>2 DEF Fits
<1> QED BY <1>5, <1>6 DEF known, U

\* A frame in each direction at most, received as it was sent and decoded.
FrameInv ==
    /\ DOMAIN sent = Peers /\ DOMAIN got = Peers /\ DOMAIN heard = Peers
    /\ \A e \in Peers :
         /\ sent[e] = << >> \/ sent[e] = << sent[e][1] >>
         /\ \/ got[e] = << >> /\ heard[e] = << >>
            \/ /\ sent[Peer(e)] # << >> /\ got[e] = sent[Peer(e)]
               /\ heard[e] = << FromBytes("Hello", sent[Peer(e)][1]) >>

\* Our client sends one of the lists; our server answers with the known part
\* of the list it heard.
AdvertInv == Ours(Client) /\ sent[Client] # << >> =>
               \E codes \in Adverts : Fits(codes) /\ sent[Client][1] = Encoded(codes)
AnswerInv == Ours(Server) /\ sent[Server] # << >> =>
               /\ heard[Server] # << >> /\ Good(heard[Server][1])
               /\ sent[Server][1] = Encoded(KnownAlgorithms(Server, Codes(heard[Server][1].value)))

HInv == FrameInv /\ AdvertInv /\ AnswerInv

LEMMA PeerIs ==
    ASSUME NEW e \in Peers
    PROVE  Peer(e) \in Peers /\ Peer(e) # e /\ Transport!Peer(e) = Peer(e)
           /\ Peer(Client) = Server /\ Peer(Server) = Client
BY Endpoints DEF Peers, Peer, Transport!Peer

LEMMA HInit == Init => HInv
<1> SUFFICES ASSUME Init PROVE HInv
    OBVIOUS
<1>1. \A e \in Peers : sent[e] = << >> /\ got[e] = << >> /\ heard[e] = << >>
      BY DEF Init, Transport!Init, Transport!Peers, Peers
<1>2. FrameInv
      BY <1>1 DEF Init, FrameInv, Transport!Init, Transport!Peers, Peers
<1>3. AdvertInv /\ AnswerInv
      BY <1>1, Endpoints DEF AdvertInv, AnswerInv
<1> QED BY <1>2, <1>3 DEF HInv


LEMMA SendKeeps ==
    ASSUME HInv, NEW e \in Peers, NEW p, Send(e, p),
           Ours(e) /\ e = Client => \E codes \in Adverts : Fits(codes) /\ p = Encoded(codes),
           Ours(e) /\ e = Server =>
             /\ heard[e] # << >> /\ Good(heard[e][1])
             /\ p = Encoded(KnownAlgorithms(e, Codes(heard[e][1].value)))
    PROVE  HInv'
<1>1. /\ sent[e] = << >> /\ sent' = [sent EXCEPT ![e] = << p >>]
      /\ UNCHANGED << program, got, heard >>
      BY DEF Send, Transport!Complete
<1>2. sent'[e] = << p >> /\ \A d \in Peers : d # e => sent'[d] = sent[d]
      BY <1>1 DEF HInv, FrameInv
<1>3. FrameInv'
  <2>1. DOMAIN sent' = Peers /\ DOMAIN got' = Peers /\ DOMAIN heard' = Peers
        BY <1>1 DEF HInv, FrameInv
  <2>2. ASSUME NEW d \in Peers PROVE sent'[d] = << >> \/ sent'[d] = << sent'[d][1] >>
        BY <1>2 DEF HInv, FrameInv
  <2>3. ASSUME NEW d \in Peers
        PROVE  \/ got[d] = << >> /\ heard[d] = << >>
               \/ /\ sent'[Peer(d)] # << >> /\ got[d] = sent'[Peer(d)]
                  /\ heard[d] = << FromBytes("Hello", sent'[Peer(d)][1]) >>
    <3>1. CASE Peer(d) = e
          BY <1>1, <3>1 DEF HInv, FrameInv
    <3>2. CASE Peer(d) # e
      <4>1. sent'[Peer(d)] = sent[Peer(d)]
            BY <1>2, <3>2, PeerIs
      <4> QED BY <4>1 DEF HInv, FrameInv
    <3> QED BY <3>1, <3>2
  <2> QED BY <1>1, <2>1, <2>2, <2>3 DEF FrameInv
<1>4. AdvertInv'
  <2> SUFFICES ASSUME Ours(Client), sent'[Client] # << >>
               PROVE  \E codes \in Adverts : Fits(codes) /\ sent'[Client][1] = Encoded(codes)
      BY <1>1, KindsStay, Endpoints DEF AdvertInv
  <2>1. CASE e = Client
        BY <1>2, <2>1
  <2>2. CASE e # Client
        BY <1>2, <2>2, Endpoints DEF HInv, AdvertInv
  <2> QED BY <2>1, <2>2
<1>5. AnswerInv'
  <2> SUFFICES ASSUME Ours(Server), sent'[Server] # << >>
               PROVE  /\ heard[Server] # << >> /\ Good(heard[Server][1])
                      /\ sent'[Server][1] =
                           Encoded(KnownAlgorithms(Server, Codes(heard[Server][1].value)))
    <3>1. KnownAlgorithms(Server, Codes(heard[Server][1].value))'
            = KnownAlgorithms(Server, Codes(heard[Server][1].value))
          BY <1>1 DEF KnownAlgorithms, Resolves
    <3>2. Ours(Server)' = Ours(Server)
          BY <1>1, KindsStay, Endpoints
    <3>3. Encoded(KnownAlgorithms(Server, Codes(heard[Server][1].value)))'
            = Encoded(KnownAlgorithms(Server, Codes(heard[Server][1].value)))
          BY <3>1, Zenon DEF Encoded, Hello
    <3>4. heard' = heard
          BY <1>1
    <3> QED BY <3>2, <3>3, <3>4, Zenon DEF AnswerInv
  <2>1. CASE e = Server
        BY <1>2, <2>1
  <2>2. CASE e # Server
        BY <1>2, <2>2, Endpoints DEF HInv, AnswerInv
  <2> QED BY <2>1, <2>2
<1> QED BY <1>3, <1>4, <1>5 DEF HInv

LEMMA ReceiveKeeps ==
    ASSUME HInv, NEW e \in Peers, Receive(e) PROVE HInv'
<1> DEFINE p == sent[Peer(e)][Len(got[e]) + 1]
<1>1. /\ UNCHANGED << program, sent >>
      /\ Len(got[e]) < Len(sent[Peer(e)])
      /\ got' = [got EXCEPT ![e] = Append(@, p)]
      /\ heard' = [heard EXCEPT ![e] = Append(@, FromBytes("Hello", p))]
      BY PeerIs DEF Receive, Transport!Deliver
<1>2. sent[Peer(e)] = << sent[Peer(e)][1] >> /\ sent[Peer(e)] # << >>
  <2>1. sent[Peer(e)] = << >> \/ sent[Peer(e)] = << sent[Peer(e)][1] >>
        BY PeerIs DEF HInv, FrameInv
  <2>2. sent[Peer(e)] # << >>
    <3>1. CASE got[e] = << >>
          BY <1>1, <3>1
    <3>2. CASE got[e] # << >>
          BY <3>2 DEF HInv, FrameInv
    <3> QED BY <3>1, <3>2
  <2> QED BY <2>1, <2>2
<1>3. got[e] = << >> /\ heard[e] = << >> /\ p = sent[Peer(e)][1]
  <2>1. got[e] # sent[Peer(e)]
    <3>1. \A x : Len(<< x >>) = 1
          OBVIOUS
    <3>2. Len(sent[Peer(e)]) = 1
          BY <1>2, <3>1, Zenon
    <3> QED BY <1>1, <3>2
  <2>2. got[e] = << >> /\ heard[e] = << >>
        BY <2>1 DEF HInv, FrameInv
  <2> QED BY <2>2
<1> HIDE DEF p
<1>4. /\ got'[e] = << p >> /\ heard'[e] = << FromBytes("Hello", p) >>
      /\ \A d \in Peers : d # e => got'[d] = got[d] /\ heard'[d] = heard[d]
      BY <1>1, <1>3 DEF HInv, FrameInv
<1>5. FrameInv'
  <2>1. DOMAIN sent' = Peers /\ DOMAIN got' = Peers /\ DOMAIN heard' = Peers
        BY <1>1 DEF HInv, FrameInv
  <2>2. ASSUME NEW d \in Peers
        PROVE  \/ got'[d] = << >> /\ heard'[d] = << >>
               \/ /\ sent[Peer(d)] # << >> /\ got'[d] = sent[Peer(d)]
                  /\ heard'[d] = << FromBytes("Hello", sent[Peer(d)][1]) >>
    <3>1. CASE d = e
          BY <1>2, <1>3, <1>4, <3>1
    <3>2. CASE d # e
          BY <1>4, <3>2 DEF HInv, FrameInv
    <3> QED BY <3>1, <3>2
  <2>3. ASSUME NEW d \in Peers PROVE sent'[d] = << >> \/ sent'[d] = << sent'[d][1] >>
        BY <1>1 DEF HInv, FrameInv
  <2> QED BY <1>1, <2>1, <2>2, <2>3 DEF FrameInv
<1>6. AdvertInv'
      BY <1>1, KindsStay, Endpoints DEF HInv, AdvertInv, Fits, Encoded
<1>7. AnswerInv'
  <2> SUFFICES ASSUME Ours(Server), sent[Server] # << >>
               PROVE  /\ heard'[Server] # << >> /\ Good(heard'[Server][1])
                      /\ sent[Server][1] =
                           Encoded(KnownAlgorithms(Server, Codes(heard'[Server][1].value)))
    <3>1. KnownAlgorithms(Server, Codes(heard[Server][1].value))'
            = KnownAlgorithms(Server, Codes(heard'[Server][1].value))
          BY <1>1 DEF KnownAlgorithms, Resolves
    <3>2. Ours(Server)' = Ours(Server)
          BY <1>1, KindsStay, Endpoints
    <3>3. Encoded(KnownAlgorithms(Server, Codes(heard[Server][1].value)))'
            = Encoded(KnownAlgorithms(Server, Codes(heard'[Server][1].value)))
          BY <3>1, Zenon DEF Encoded, Hello
    <3>4. sent' = sent
          BY <1>1
    <3> QED BY <3>2, <3>3, <3>4, Zenon DEF AnswerInv
  <2>1. heard[Server] # << >>
        BY DEF HInv, AnswerInv
  <2>2. heard'[Server] = heard[Server]
        BY <1>3, <1>4, <2>1, Endpoints
  <2> QED BY <2>1, <2>2 DEF HInv, AnswerInv
<1> QED BY <1>5, <1>6, <1>7 DEF HInv

LEMMA HStep == HInv /\ [Next]_vars => HInv'
<1> SUFFICES ASSUME HInv, [Next]_vars PROVE HInv'
    OBVIOUS
<1>1. ASSUME NEW e \in Peers, Advertise(e) PROVE HInv'
  <2>1. PICK codes \in Adverts : Fits(codes) /\ Send(e, Encoded(codes))
        BY <1>1 DEF Advertise
  <2>2. e = Client
        BY <1>1 DEF Advertise
  <2> QED BY <2>1, <2>2, Endpoints, SendKeeps
<1>2. ASSUME NEW e \in Peers, Respond(e) PROVE HInv'
  <2>1. /\ heard[e] # << >> /\ Good(heard[e][1]) /\ e = Server
        /\ Send(e, Encoded(KnownAlgorithms(e, Codes(heard[e][1].value))))
        BY <1>2 DEF Respond
  <2> QED BY <2>1, Endpoints, SendKeeps
<1>3. ASSUME NEW e \in Peers, Foreign(e) PROVE HInv'
  <2>1. ~Ours(e) /\ \E p : Send(e, p)
        BY <1>3 DEF Foreign
  <2> QED BY <2>1, SendKeeps
<1>4. ASSUME NEW e \in Peers, Receive(e) PROVE HInv'
      BY <1>4, ReceiveKeeps
<1>5. CASE UNCHANGED << program, sent, got, heard >>
  <2>1. FrameInv' /\ AdvertInv'
        BY <1>5, KindsStay, Endpoints DEF HInv, FrameInv, AdvertInv, Fits, Encoded
  <2>2. AnswerInv'
        BY <1>5, KindsStay, Endpoints DEF HInv, AnswerInv, Encoded, KnownAlgorithms, Resolves
  <2> QED BY <2>1, <2>2 DEF HInv
<1>6. ASSUME NEW e \in Peers,
             \/ Install(e) \/ Configure(e) \/ ConfigRefused(e) \/ Connect(e) \/ Accept(e)
             \/ Answer(e) \/ Verified(e) \/ Finish(e) \/ Fail(e) \/ Leave(e)
      PROVE  HInv'
  <2>1. UNCHANGED << program, sent, got, heard >>
        BY <1>6 DEF Install, Configure, ConfigRefused, Connect, Accept, Answer, Verified,
                    Finish, Fail, Leave, frames
  <2> QED BY <1>5, <2>1
<1>7. CASE Break
      BY <1>5, <1>7 DEF Break, frames
<1>8. CASE UNCHANGED vars
      BY <1>5, <1>8 DEF vars, frames
<1> QED BY <1>1, <1>2, <1>3, <1>4, <1>6, <1>7, <1>8 DEF Next, Step

\* An answer made of known_algorithms() is heard as the list, in order, of all
\* codes advertised that the answering build resolves and none it does not
\* (hello.rs:50-77).
THEOREM AnswersAreTheKnownPart == Spec => []AnswerIsTheKnownPart
<1>1. HInv => AnswerIsTheKnownPart
  <2> SUFFICES ASSUME HInv, Ours(Client), Ours(Server), heard[Client] # << >>
               PROVE  /\ Good(heard[Client][1])
                      /\ \A offered \in Adverts :
                           Fits(offered) /\ Encoded(offered) = sent[Client][1] =>
                             LET answer == Codes(heard[Client][1].value)
                             IN  /\ ToSet(answer) = {c \in ToSet(offered) : Resolves(Server, c)}
                                 /\ \A i, j \in DOMAIN answer : i < j =>
                                      \E k, l \in DOMAIN offered :
                                        k < l /\ offered[k] = answer[i] /\ offered[l] = answer[j]
      BY DEF AnswerIsTheKnownPart
  <2>1. sent[Server] # << >> /\ heard[Client][1] = FromBytes("Hello", sent[Server][1])
        BY PeerIs, Endpoints DEF HInv, FrameInv
  <2>2. /\ heard[Server] # << >>
        /\ sent[Server][1] = Encoded(KnownAlgorithms(Server, Codes(heard[Server][1].value)))
        BY <2>1 DEF HInv, AnswerInv
  <2>3. sent[Client] # << >> /\ heard[Server][1] = FromBytes("Hello", sent[Client][1])
        BY <2>2, PeerIs, Endpoints DEF HInv, FrameInv
  <2>4. ASSUME NEW offered \in Adverts, Fits(offered), Encoded(offered) = sent[Client][1]
        PROVE  /\ offered \in Seq(Nat)
               /\ heard[Client][1] = Ok(Hello(KnownAlgorithms(Server, offered)))
               /\ Codes(heard[Client][1].value) = KnownAlgorithms(Server, offered)
    <3>1. offered \in Seq(0..U16_MAX)
          BY SessionAssumption
    <3>2. heard[Server][1] = Ok(Hello(offered)) /\ Codes(Hello(offered)) = offered
          BY <2>3, <2>4, <3>1, HelloDecodes
    <3>3. Codes(heard[Server][1].value) = offered
          BY <3>2 DEF Ok
    <3> DEFINE known == KnownAlgorithms(Server, offered)
    <3>4. known \in Seq(0..U16_MAX) /\ Fits(known)
          BY <2>4, <3>1, KnownFits
    <3>5. sent[Server][1] = Encoded(known)
          BY <2>2, <3>3
    <3> HIDE DEF known
    <3>6. heard[Client][1] = Ok(Hello(known)) /\ Codes(Hello(known)) = known
          BY <2>1, <3>4, <3>5, HelloDecodes
    <3>7. offered \in Seq(Nat)
          BY <3>1, CodesAreNumbers
    <3> QED BY <3>6, <3>7 DEF Ok, known
  <2>5. Good(heard[Client][1])
    <3>1. PICK codes \in Adverts : Fits(codes) /\ sent[Client][1] = Encoded(codes)
          BY <2>3 DEF HInv, AdvertInv
    <3>2. heard[Client][1] = Ok(Hello(KnownAlgorithms(Server, codes)))
          BY <2>4, <3>1
    <3> QED BY <3>2 DEF Good, Ok
  <2>6. ASSUME NEW offered \in Adverts, Fits(offered), Encoded(offered) = sent[Client][1]
        PROVE  LET answer == Codes(heard[Client][1].value)
               IN  /\ ToSet(answer) = {c \in ToSet(offered) : Resolves(Server, c)}
                   /\ \A i, j \in DOMAIN answer : i < j =>
                        \E k, l \in DOMAIN offered :
                          k < l /\ offered[k] = answer[i] /\ offered[l] = answer[j]
    <3> DEFINE answer == Codes(heard[Client][1].value)
    <3>1. offered \in Seq(Nat) /\ answer = KnownAlgorithms(Server, offered)
          BY <2>4, <2>6
    <3> HIDE DEF answer
    <3>2. PICK pos : Picks(Server, offered, Len(offered), answer, pos)
          BY <3>1, KnownPart
    <3>3. /\ answer \in Seq(Nat) /\ pos \in [1..Len(answer) -> 1..Len(offered)]
          /\ DOMAIN answer = 1..Len(answer) /\ DOMAIN offered = 1..Len(offered)
          /\ \A j \in 1..Len(answer) : answer[j] = offered[pos[j]] /\ Resolves(Server, offered[pos[j]])
          BY <3>1, <3>2 DEF Picks
    <3>4. ToSet(answer) = {c \in ToSet(offered) : Resolves(Server, c)}
      <4>1. ASSUME NEW c \in ToSet(answer) PROVE c \in ToSet(offered) /\ Resolves(Server, c)
        <5>1. PICK j \in 1..Len(answer) : c = answer[j]
              BY <3>3 DEF ToSet
        <5>2. pos[j] \in DOMAIN offered /\ c = offered[pos[j]]
              BY <3>3, <5>1
        <5> QED BY <3>3, <5>1, <5>2 DEF ToSet
      <4>2. ASSUME NEW c \in ToSet(offered), Resolves(Server, c) PROVE c \in ToSet(answer)
        <5>1. PICK k \in 1..Len(offered) : c = offered[k]
              BY <3>3 DEF ToSet
        <5>2. PICK j \in 1..Len(answer) : pos[j] = k
              BY <3>2, <4>2, <5>1 DEF Picks
        <5>3. j \in DOMAIN answer /\ c = answer[j]
              BY <3>3, <5>1, <5>2
        <5> QED BY <5>3 DEF ToSet
      <4> QED BY <4>1, <4>2
    <3>5. ASSUME NEW i \in DOMAIN answer, NEW j \in DOMAIN answer, i < j
          PROVE  \E k, l \in DOMAIN offered : k < l /\ offered[k] = answer[i] /\ offered[l] = answer[j]
      <4>1. pos[i] < pos[j]
            BY <3>2, <3>3, <3>5 DEF Picks
      <4> QED BY <3>3, <4>1
    <3> QED BY <3>4, <3>5 DEF answer
  <2> QED BY <2>5, <2>6
<1> QED BY <1>1, HInit, HStep, PTL DEF Spec
=============================================================================
