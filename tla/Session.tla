------------------------------- MODULE Session -------------------------------
(***************************************************************************)
(* Two endpoints establish a channel (mw-transport: lib.rs, channel.rs,    *)
(* verify.rs) and advertise their algorithms over it (mw-proto: hello.rs). *)
(* An endpoint runs this code, with the registry of this build or of a     *)
(* newer one, or is some other TLS peer.  Both may run in one process and  *)
(* share its provider.  Once established, frames travel as FrameTransport  *)
(* promises, which FramedChannel is proved to implement; their payloads    *)
(* are bytes, written and read by the codec of AuthMessages.               *)
(*                                                                         *)
(* rustls is external: it negotiates the highest common version and asks   *)
(* the verifier the client configuration holds. There are no timeouts.     *)
(***************************************************************************)
EXTENDS AuthMessages

CONSTANTS Client, Server,    \* the two endpoints
          Adverts,           \* lists of codes that are advertised
          NewCodes           \* codes that only a newer build resolves

Peers   == {Client, Server}
Peer(e) == IF e = Client THEN Server ELSE Client

ASSUME SessionAssumption == /\ Client # Server
                            /\ Adverts \subseteq Seq(0..U16_MAX)

VARIABLES
  program,   \* program[e]: what runs behind e
  provider,  \* the process has a default CryptoProvider
  stage,     \* stage[e]: how far e has come
  flight,    \* flight[e]: the handshake message on its way to e
  broken,    \* the connection was lost
  asked,     \* the version for which our client had a signature verified, or 0
  agreed,    \* agreed[e]: the version e settled for, or 0
  sent, got, torn, lost,     \* FrameTransport
  heard      \* heard[e]: what Hello::from_bytes made of each frame of got[e]

frames == <<sent, got, torn, lost, heard>>
vars == <<program, provider, stage, flight, broken, asked, agreed, frames>>

Transport == INSTANCE FrameTransport

Ours(e) == program[e] \in {"this", "newer"}
Nothing == [tag |-> "nothing"]

\* Ended: the endpoint dropped its stream, and its peer will notice.
Ended(e)       == stage[e] \in {"panicked", "refused", "failed", "left"}
Established(e) == stage[e] = "established"
Handshaking(e) == stage[e] \in {"greeting", "accepting", "answered"}
Down           == broken \/ \E e \in Peers : Ended(e)

-----------------------------------------------------------------------------
(* Configuration and handshake.                                            *)

\* Bug: the configurations keep rustls' default versions.
Bug_DefaultVersions(e) == IF program[e] = "tls12" THEN {12} ELSE {12, 13}

Versions(e) == CASE Ours(e)            -> {13}
                 [] program[e] = "tls12"  -> {12}
                 [] program[e] = "other"  -> {12, 13}
                 [] program[e] = "imposter" -> {13}

\* devcert::generate(): a fresh key of e's, and a certificate of its public key.
Generate(e) == [certified |-> e, key |-> e]

\* What a server shows and signs with; an imposter shows the certificate of
\* another's key.
Credentials(e) == IF program[e] = "imposter"
                  THEN [Generate(e) EXCEPT !.certified = Peer(e)]
                  ELSE Generate(e)

Become(e, s) == stage' = [stage EXCEPT ![e] = s]

\* Bug: only the client configuration installs the provider.
Bug_ClientInstalls(e) ==
  /\ stage[e] = "start" /\ Ours(e)
  /\ provider' = (provider \/ e = Client)
  /\ Become(e, "installed")
  /\ UNCHANGED <<program, flight, broken, asked, agreed, frames>>

\* install_default_provider(): the first of the process sticks.
Install(e) == /\ stage[e] = "start" /\ Ours(e)
              /\ provider' = TRUE
              /\ Become(e, "installed")
              /\ UNCHANGED <<program, flight, broken, asked, agreed, frames>>

\* client_config(), server_config(): the builders and AcceptAnyServerCert::new
\* take the default provider and panic when there is none.
Configure(e) == /\ stage[e] = "installed"
                /\ Become(e, IF provider THEN "configured" ELSE "panicked")
                /\ UNCHANGED <<program, provider, flight, broken, asked, agreed, frames>>

\* with_single_cert() refuses the certificate or key: Error::Tls.
ConfigRefused(e) == /\ stage[e] = "installed" /\ e = Server /\ provider
                    /\ Become(e, "refused")
                    /\ UNCHANGED <<program, provider, flight, broken, asked, agreed, frames>>

\* connect(): the client sends its hello and waits.
Connect(e) == /\ e = Client
              /\ stage[e] = IF Ours(e) THEN "configured" ELSE "start"
              /\ Become(e, "greeting")
              /\ flight' = [flight EXCEPT ![Server] =
                              [tag |-> "ClientHello", versions |-> Versions(e)]]
              /\ UNCHANGED <<program, provider, broken, asked, agreed, frames>>

\* accept(): the server waits for a hello.
Accept(e) == /\ e = Server
             /\ stage[e] = IF Ours(e) THEN "configured" ELSE "start"
             /\ Become(e, "accepting")
             /\ UNCHANGED <<program, provider, flight, broken, asked, agreed, frames>>

\* The server answers with a version, its certificate and a signature by the
\* key it has; no common version ends it.
Answer(e) ==
  /\ stage[e] = "accepting" /\ ~broken
  /\ flight[e].tag = "ClientHello"
  /\ LET common == Versions(e) \cap flight[e].versions
     IN  IF common = {}
         THEN /\ Become(e, "failed")
              /\ flight' = [flight EXCEPT ![e] = Nothing]
              /\ UNCHANGED agreed
         ELSE /\ Become(e, "answered")
              /\ agreed' = [agreed EXCEPT ![e] = Max(common)]
              /\ flight' = [flight EXCEPT ![e] = Nothing, ![Client] =
                   [tag |-> "Answer", version |-> Max(common),
                    certified |-> Credentials(e).certified,
                    signed_by |-> Credentials(e).key]]
  /\ UNCHANGED <<program, provider, broken, asked, frames>>

\* Bug: the handshake signature is waved through like the certificate.
Bug_AcceptAnySignature(answer) == TRUE

\* AcceptAnyServerCert: any certificate will do, but the handshake signature
\* must be by its key; for TLS 1.2 no signature is accepted.
VerifySignature(answer) ==
  answer.version = 13 /\ answer.signed_by = answer.certified

\* connect() ends: the client verifies, and answers before it is established.
Verified(e) ==
  /\ stage[e] = "greeting" /\ ~broken
  /\ flight[e].tag = "Answer"
  /\ asked' = IF Ours(e) THEN flight[e].version ELSE asked
  /\ IF Ours(e) => VerifySignature(flight[e])
     THEN /\ Become(e, "established")
          /\ agreed' = [agreed EXCEPT ![e] = flight[e].version]
          /\ flight' = [flight EXCEPT ![e] = Nothing,
                                     ![Server] = [tag |-> "Finished"]]
     ELSE /\ Become(e, "failed")
          /\ flight' = [flight EXCEPT ![e] = Nothing]
          /\ UNCHANGED agreed
  /\ UNCHANGED <<program, provider, broken, frames>>

\* Bug: what arrived behind the client's last flight is dropped.
Bug_FinishDropsFrames(e) ==
  /\ stage[e] = "answered" /\ ~broken
  /\ flight[e].tag = "Finished"
  /\ Become(e, "established")
  /\ flight' = [flight EXCEPT ![e] = Nothing]
  /\ got' = [got EXCEPT ![e] = sent[Client]]
  /\ UNCHANGED <<program, provider, broken, asked, agreed, sent, torn, lost, heard>>

\* accept() ends. Frames may have arrived behind the client's last flight.
Finish(e) ==
  /\ stage[e] = "answered" /\ ~broken
  /\ flight[e].tag = "Finished"
  /\ Become(e, "established")
  /\ flight' = [flight EXCEPT ![e] = Nothing]
  /\ UNCHANGED <<program, provider, broken, asked, agreed, frames>>

\* Bug: the lost handshake is not reported.
Bug_FailureSwallowed(e) ==
  /\ Handshaking(e)
  /\ broken \/ Ended(Peer(e))
  /\ UNCHANGED vars

\* The connection is gone or the peer has dropped it: Error::Handshake.
Fail(e) == /\ Handshaking(e)
           /\ broken \/ Ended(Peer(e))
           /\ Become(e, "failed")
           /\ UNCHANGED <<program, provider, flight, broken, asked, agreed, frames>>

\* The future of connect() or accept(), or the channel, is dropped.
Leave(e) == /\ Handshaking(e) \/ Established(e)
            /\ Become(e, "left")
            /\ UNCHANGED <<program, provider, flight, broken, asked, agreed, frames>>

Break == /\ ~broken
         /\ broken' = TRUE
         /\ UNCHANGED <<program, provider, stage, flight, asked, agreed, frames>>

-----------------------------------------------------------------------------
(* Advertisement.                                                          *)

Resolves(e, c) == AlgOf(c) # {} \/ (program[e] = "newer" /\ c \in NewCodes)

\* What Hello::new() takes, what it makes of it, and algorithm_codes().
Fits(codes)    == Len(codes) <= MAX_HELLO_ALGS
Hello(codes)   == <<[i \in DOMAIN codes |-> <<codes[i]>>]>>
Codes(hello)   == [i \in DOMAIN hello[1] |-> hello[1][i][1]]
Encoded(codes) == ToBytes("Hello", Hello(codes)).value

\* Bug: the first code that does not resolve ends the list.
Bug_StopsAtUnknown(e, codes) ==
  LET known == {n \in 0..Len(codes) : \A i \in 1..n : Resolves(e, codes[i])}
  IN  SubSeq(codes, 1, Max(known))

\* known_algorithms(), by their codes; from_algorithms() takes them back.
KnownAlgorithms(e, codes) ==
  FlattenSeq([i \in DOMAIN codes |->
                IF Resolves(e, codes[i]) THEN <<codes[i]>> ELSE <<>>])

Send(e, payload) == /\ Established(e) /\ ~broken
                    /\ sent[e] = <<>>
                    /\ Transport!Complete(e, payload)
                    /\ UNCHANGED <<program, provider, stage, flight, broken, asked, agreed, heard>>

\* Our client advertises what Hello::new() takes; our server answers with the
\* algorithms it knows of those.  Another peer sends lists that are too long
\* as well, and cut short or with a byte behind.
Advertise(e) == /\ Ours(e) /\ e = Client
                /\ \E codes \in Adverts : Fits(codes) /\ Send(e, Encoded(codes))
Respond(e) == /\ Ours(e) /\ e = Server
              /\ heard[e] # <<>> /\ Good(heard[e][1])
              /\ Send(e, Encoded(KnownAlgorithms(e, Codes(heard[e][1].value))))
Foreign(e) == /\ ~Ours(e)
              /\ \E codes \in Adverts :
                   \E payload \in {Encoded(codes), Front(Encoded(codes)),
                                  Append(Encoded(codes), 0)} : Send(e, payload)

\* recv() returns the next frame; its payload is decoded.
Receive(e) ==
  /\ Ours(e) /\ Established(e)
  /\ Transport!Deliver(e)
  /\ heard' = [heard EXCEPT ![e] =
                 Append(@, FromBytes("Hello", sent[Peer(e)][Len(got[e]) + 1]))]
  /\ UNCHANGED <<program, provider, stage, flight, broken, asked, agreed>>

-----------------------------------------------------------------------------
Init == /\ program \in {k \in [Peers -> {"this", "newer", "other", "tls12", "imposter"}] :
                      /\ k[Client] # "imposter"
                      /\ \E e \in Peers : k[e] \in {"this", "newer"}}
        /\ provider = FALSE
        /\ stage = [e \in Peers |-> "start"]
        /\ flight = [e \in Peers |-> Nothing]
        /\ broken = FALSE
        /\ asked = 0
        /\ agreed = [e \in Peers |-> 0]
        /\ Transport!Init
        /\ heard = [e \in Peers |-> <<>>]

Step(e) == \/ Install(e) \/ Configure(e) \/ Connect(e) \/ Accept(e)
           \/ Answer(e) \/ Verified(e) \/ Finish(e) \/ Fail(e)
           \/ Advertise(e) \/ Respond(e) \/ Receive(e)

Next == \/ \E e \in Peers : Step(e) \/ ConfigRefused(e) \/ Leave(e) \/ Foreign(e)
        \/ Break

Spec == Init /\ [][Next]_vars

\* The runtime polls a task of ours that can go on; nothing is promised of
\* other peers, of the connection, or of the users of a channel beyond these
\* calls.
FairSpec == Spec /\ \A e \in Peers : WF_vars(Ours(e) /\ Step(e))

\* An endpoint of ours is established, or has sent or received a frame, only
\* with TLS 1.3 and, on the client, a server that holds the key of the
\* certificate it showed, whatever versions and certificates the peer offers
\* (channel.rs:66-90, verify.rs:8-14); the verifier's answer for TLS 1.2 is
\* "unreachable" (verify.rs:54).
EstablishedIsConfidential ==
  /\ asked # 12
  /\ \A e \in Peers : Ours(e) =>
       /\ Established(e) \/ sent[e] # <<>> \/ got[e] # <<>> => agreed[e] = 13
       /\ Established(Client) /\ e = Client => program[Server] # "imposter"

\* An answer made of known_algorithms() is heard as the list of all codes the
\* client advertised that the answering build resolves, in order, and none it
\* does not, though the two builds differ and neither refuses the other's
\* codes (hello.rs:50-77).
AnswerIsTheKnownPart ==
  Ours(Client) /\ Ours(Server) /\ heard[Client] # <<>> =>
    /\ Good(heard[Client][1])
    /\ LET answer == Codes(heard[Client][1].value)
       IN  \A offered \in {codes \in Adverts : Fits(codes) /\ Encoded(codes) = sent[Client][1]} :
             /\ ToSet(answer) = {c \in ToSet(offered) : Resolves(Server, c)}
             /\ \A i, j \in DOMAIN answer : i < j =>
                  \E k, l \in DOMAIN offered :
                    k < l /\ offered[k] = answer[i] /\ offered[l] = answer[j]

\* Between two endpoints of ours configuration, connect() and accept() end,
\* established or with an error, also when the connection is lost or the peer
\* gives up; and never in the panic of a configuration without a provider,
\* whichever of them is the first of the process (verify.rs:22-24).
EstablishmentEnds ==
  \A e \in Peers :
    Ours(Client) /\ Ours(Server) ~>
      (Established(e) \/ stage[e] \in {"refused", "failed", "left"})

\* A hello the client sends once connect() has returned is heard, though the
\* server may not have finished accept() when its bytes arrive.
HelloIsHeard ==
  Ours(Server) /\ sent[Client] # <<>> ~> (heard[Server] # <<>> \/ Down)
=============================================================================
