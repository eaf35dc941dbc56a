---------------------------- MODULE MCControlPlane ----------------------------
(***************************************************************************)
(* The components around the request path, in one run: the admin server's   *)
(* login guard, accounts and routes, the managed feed and its registration,  *)
(* the rule catalog, the policy directory, the configuration file, the       *)
(* request recorder, the table of unmatched requests, what a connection      *)
(* meets first: certificates, the peek and the CRYPTO frames of QUIC; and a   *)
(* state file.  They share no state: part says which of them moves in a       *)
(* behaviour, and the others stay where they started.                        *)
(***************************************************************************)
EXTENDS LoginGuard, AdminServer, AdminEndpoints, ManagedFeed, FeedRegistration,
        RuleCatalog, PolicyFiles, ConfigFile, Traffic, UnmatchedRequests,
        CertIssuer, Passthrough, InitialCrypto, StateFile, TLC

VARIABLE part

Parts == {"guard", "admin", "endpoints", "feed", "registration", "catalog", "policy",
          "config", "traffic", "unmatched", "issuer", "connection", "initial", "file"}

MCSymmetry == Permutations(Client)

MCGroupRole == [ops |-> "admin"]

\* The target's name is resolved, with the automatic switch: the settings under which a
\* generation takes all its steps.
MCFeedConfigs == {[resolved |-> TRUE, auto |-> TRUE, enabled |-> TRUE]}

\* A tightening, and back.
MCRecOptions == {[mode |-> m, redact |-> m = "debug"] : m \in {"debug", "stats"}}

MCRule(name, prio, reqs) == [name |-> name, prio |-> prio, reqs |-> reqs, ok |-> TRUE]

\* What is in the two files while another part moves.
MCFirstDocs == <<[rules |-> <<MCRule("a", 1, {"q1"})>>, def |-> NoDefault],
                 [rules |-> <<MCRule("b", 1, {"q1", "q2"}), MCRule("c", 0, {"q2"})>>,
                  def |-> "asis"]>>

\* Rules of one priority in two files, a name used twice, a rule that does not compile.
MCPolicyDocs ==
  {MCFirstDocs[1], MCFirstDocs[2],
   [rules |-> <<MCRule("d", 2, {"q1"}), MCRule("e", 1, {"q1", "q2"})>>, def |-> SafeDefault],
   [rules |-> <<MCRule("a", 0, {"q2"})>>, def |-> "scrub"],
   [rules |-> <<[MCRule("f", 0, {"q1"}) EXCEPT !.ok = FALSE]>>, def |-> NoDefault]}

\* Every file of up to two lines, and some with two or three sections, also with
\* headers that have a comment behind them.
MCSectionKeys == [target |-> {"mode", "ips"}, scheduler |-> {"enabled"}]
MCLines == {Header("target"), Header("scheduler"), Header("other"), Noted("target"),
            Assign("mode", "v1"), ArrayOpen("ips", "v1"), Assign("enabled", "v1"), ArrayRest}
MCShort == UNION {[1..n -> MCLines] : n \in 0..2}
MCLong ==
  {<<Header("target"), Assign("mode", "v1"), Header("other"), Assign("mode", "v1"),
     Header("scheduler"), Assign("enabled", "v1")>>,
   <<Header("scheduler"), Assign("enabled", "v1"), Header("other"), Assign("enabled", "v1"),
     Header("target"), ArrayOpen("ips", "v1"), ArrayRest>>,
   <<Noted("target"), Assign("mode", "v1"), Header("scheduler")>>,
   <<Header("target"), Noted("other"), Assign("mode", "v1"), Header("scheduler")>>,
   <<Header("target"), Noted("scheduler"), Assign("enabled", "v1")>>}
MCConfFiles == {f \in MCShort \cup MCLong : WellFormed(f)}

\* The first of the CAs ends within the time there is.
MCCAEnd == [c \in CA |-> c]

\* Hellos in one record and in several, more records than are looked at, and streams
\* that do not start with a hello or break it off.
MCRecord(kind, len) == [kind |-> kind, len |-> len]
MCStream(recs, hello, pinned) == [recs |-> recs, hello |-> hello, pinned |-> pinned]
MCClientStreams ==
  {MCStream(recs, hello, pinned) :
     recs \in {<<MCRecord("handshake", 3), MCRecord("other", 1)>>,
              <<MCRecord("handshake", 1), MCRecord("handshake", 2), MCRecord("other", 1)>>,
              <<MCRecord("handshake", 1), MCRecord("handshake", 1), MCRecord("handshake", 1)>>,
              <<MCRecord("handshake", 1), MCRecord("other", 1)>>,
              <<MCRecord("handshake", 1), MCRecord("handshake", 0)>>,
              <<MCRecord("other", 1)>>},
     hello \in {2, 3}, pinned \in BOOLEAN}

\* Every stretch of the hello, also empty, two in one datagram, and one that is hidden.
MCDatagrams ==
  {<<Crypto(p[1], p[2])>> : p \in {q \in (0..3) \X (0..4) : q[1] + q[2] <= 4}}
    \cup {Undecryptable, <<FrameSkip, Crypto(2, 2), Crypto(0, 1)>>,
          <<Crypto(1, 1), FrameStop, Crypto(0, 1)>>}

Starts(p, start) == part # p => start

MCInit ==
  /\ part \in Parts
  /\ GuardInit /\ EndpointInit /\ UnmatchedInit
  /\ AdminInit /\ Starts("admin", saved = NoAccounts)
  /\ FeedInit
  /\ RegistrationInit /\ Starts("registration", filters = <<>>)
  /\ CatInit /\ Starts("catalog", DOMAIN catFile = {})
  /\ PolicyInit /\ Starts("policy", policyDir = MCFirstDocs)
  /\ ConfigInit /\ Starts("config", confFile = <<>>)
  /\ TrafficInit /\ Starts("traffic", recOpts.mode = "debug")
  /\ IssuerInit /\ Starts("issuer", ca = 1)
  /\ PassInit /\ Starts("connection", client = MCStream(<<MCRecord("other", 1)>>, 3, FALSE))
  /\ InitialInit /\ Init

MCNext ==
  \/ /\ part = "guard" /\ GuardNext
     /\ UNCHANGED <<part, adminVars, endpointVars, feedVars, registrationVars, catVars,
                    policyVars, configVars, trafficVars, unmatchedVars, issuerVars, passVars,
                    initialVars, vars>>
  \/ /\ part = "admin" /\ AdminNext
     /\ UNCHANGED <<part, guardVars, endpointVars, feedVars, registrationVars, catVars,
                    policyVars, configVars, trafficVars, unmatchedVars, issuerVars, passVars,
                    initialVars, vars>>
  \/ /\ part = "endpoints" /\ EndpointNext
     /\ UNCHANGED <<part, guardVars, adminVars, feedVars, registrationVars, catVars,
                    policyVars, configVars, trafficVars, unmatchedVars, issuerVars, passVars,
                    initialVars, vars>>
  \/ /\ part = "feed" /\ FeedNext
     /\ UNCHANGED <<part, guardVars, adminVars, endpointVars, registrationVars, catVars,
                    policyVars, configVars, trafficVars, unmatchedVars, issuerVars, passVars,
                    initialVars, vars>>
  \/ /\ part = "registration" /\ RegistrationNext
     /\ UNCHANGED <<part, guardVars, adminVars, endpointVars, feedVars, catVars, policyVars,
                    configVars, trafficVars, unmatchedVars, issuerVars, passVars,
                    initialVars, vars>>
  \/ /\ part = "catalog" /\ CatNext
     /\ UNCHANGED <<part, guardVars, adminVars, endpointVars, feedVars, registrationVars,
                    policyVars, configVars, trafficVars, unmatchedVars, issuerVars, passVars,
                    initialVars, vars>>
  \/ /\ part = "policy" /\ PolicyNext
     /\ UNCHANGED <<part, guardVars, adminVars, endpointVars, feedVars, registrationVars,
                    catVars, configVars, trafficVars, unmatchedVars, issuerVars, passVars,
                    initialVars, vars>>
  \/ /\ part = "config" /\ ConfigNext
     /\ UNCHANGED <<part, guardVars, adminVars, endpointVars, feedVars, registrationVars,
                    catVars, policyVars, trafficVars, unmatchedVars, issuerVars, passVars,
                    initialVars, vars>>
  \/ /\ part = "traffic" /\ TrafficNext
     /\ UNCHANGED <<part, guardVars, adminVars, endpointVars, feedVars, registrationVars,
                    catVars, policyVars, configVars, unmatchedVars, issuerVars, passVars,
                    initialVars, vars>>
  \/ /\ part = "unmatched" /\ UnmatchedNext
     /\ UNCHANGED <<part, guardVars, adminVars, endpointVars, feedVars, registrationVars,
                    catVars, policyVars, configVars, trafficVars, issuerVars, passVars,
                    initialVars, vars>>
  \/ /\ part = "issuer" /\ IssuerNext
     /\ UNCHANGED <<part, guardVars, adminVars, endpointVars, feedVars, registrationVars,
                    catVars, policyVars, configVars, trafficVars, unmatchedVars, passVars,
                    initialVars, vars>>
  \/ /\ part = "connection" /\ PassNext
     /\ UNCHANGED <<part, guardVars, adminVars, endpointVars, feedVars, registrationVars,
                    catVars, policyVars, configVars, trafficVars, unmatchedVars, issuerVars,
                    initialVars, vars>>
  \/ /\ part = "initial" /\ InitialNext
     /\ UNCHANGED <<part, guardVars, adminVars, endpointVars, feedVars, registrationVars,
                    catVars, policyVars, configVars, trafficVars, unmatchedVars, issuerVars,
                    passVars, vars>>
  \/ /\ part = "file" /\ Next
     /\ UNCHANGED <<part, guardVars, adminVars, endpointVars, feedVars, registrationVars,
                    catVars, policyVars, configVars, trafficVars, unmatchedVars, issuerVars,
                    passVars, initialVars>>

mcVars == <<part, guardVars, adminVars, endpointVars, feedVars, registrationVars, catVars,
            policyVars, configVars, trafficVars, unmatchedVars, issuerVars, passVars,
            initialVars, vars>>

MCSpec == MCInit /\ [][MCNext]_mcVars

\* Every variable of every part has the values that its module declares for it.
ControlPlaneTypeOK ==
  /\ part = "guard" => GuardTypeOK
  /\ part = "admin" => AdminTypeOK
  /\ part = "endpoints" => EndpointTypeOK
  /\ part = "feed" => FeedTypeOK
  /\ part = "registration" => RegistrationTypeOK
  /\ part = "catalog" => CatTypeOK
  /\ part = "policy" => PolicyTypeOK
  /\ part = "config" => ConfigTypeOK
  /\ part = "traffic" => TrafficTypeOK
  /\ part = "unmatched" => UnmatchedTypeOK
  /\ part = "issuer" => IssuerTypeOK
  /\ part = "connection" => PassTypeOK
  /\ part = "initial" => InitialTypeOK
  /\ part = "file" => TypeOK
=============================================================================
