------------------------- MODULE ConnectionAttempts -------------------------
(***************************************************************************)
(* How a connection is tried and what protects it: PostgreSQL's SSL modes  *)
(* (buildConfig, tlsConfigs and verifyCAConfig of pgpool), Redis's TLS     *)
(* options (buildOptions of redisclient) and those of the OTLP exporters   *)
(* (tlsClientConfig of otel).  Each turns its options into attempts, which *)
(* the library dials in order until one succeeds.                          *)
(*                                                                         *)
(* Certificates, the server and the libraries' dialling are external.      *)
(***************************************************************************)
EXTENDS Sequences, Naturals, FiniteSetsExt

CONSTANTS
  Host,         \* the configured host, and
  DefaultHost   \* the one pgx derives from PG* variables and its defaults

ASSUME HostAssumption == Host # DefaultHost

VARIABLES
  options,    \* client, mode and CA bundle
  server,     \* what the configured host is; the default host accepts anything
  attempts,   \* attempts not yet made, of the form [host, tls, roots]
  dialled,    \* history: hosts that were dialled
  outcome     \* building, dialling, invalid, refused, or how it is connected

dialVars == <<options, server, attempts, dialled, outcome>>

Modes == {"", "disable", "allow", "prefer", "require", "verify-ca",
          "verify-full", "unknown"}
CAs == {"none", "good", "bad"}   \* no CAPEM, certificates, or none in it
Roots == {"system", "ca", "any"}

\* What an attempt asks of TLS: none, any certificate, a chain to its roots,
\* or a chain and the host's name.
Protections == {"plain", "unverified", "chain", "full"}

Options ==
  [client : {"postgres"}, mode : Modes, ca : CAs] \cup
  [client : {"redis", "otlp"}, mode : {"off", "insecure", "on"}, ca : CAs]

Servers ==
  [speaks : SUBSET {"plain", "tls"}, issuer : {"system", "ca", "nobody"},
   named : BOOLEAN]

DialTypeOK ==
  /\ options \in Options /\ server \in Servers
  /\ attempts \in Seq([host : {Host, DefaultHost}, tls : Protections,
                       roots : Roots])
  /\ dialled \subseteq {Host, DefaultHost}
  /\ outcome \in {"building", "dialling", "invalid", "refused"} \cup Protections

-----------------------------------------------------------------------------
(* From options to attempts                                                *)

Attempt(tls, roots) == [host |-> Host, tls |-> tls, roots |-> roots]
Plain == Attempt("plain", "any")
Unverified == Attempt("unverified", "any")

\* The CA bundle if there is one: no roots of its own means the system's.
RootsOf(ca) == IF ca = "none" THEN "system" ELSE "ca"

Mode == IF options.mode = "" THEN "prefer" ELSE options.mode

(* libpq: with a root certificate, require is verify-ca.                   *)
Effective == IF Mode = "require" /\ options.ca # "none" THEN "verify-ca" ELSE Mode

TLSConfigs ==
  CASE Effective = "disable"     -> <<Plain>>
    [] Effective = "allow"       -> <<Plain, Unverified>>
    [] Effective = "prefer"      -> <<Unverified, Plain>>
    [] Effective = "require"     -> <<Unverified>>
    [] Effective = "verify-ca"   -> <<Attempt("chain", RootsOf(options.ca))>>
    [] Effective = "verify-full" -> <<Attempt("full", RootsOf(options.ca))>>

\* Mutant of PostgresAttempts: the fallbacks of the base configuration stay.
PostgresAttemptsBase ==
  IF options.ca = "bad" \/ Mode = "unknown" THEN {}
  ELSE {TLSConfigs \o <<[Plain EXCEPT !.host = DefaultHost]>>}

(* buildConfig: every mode rejects a CA bundle it cannot read.             *)
PostgresAttempts ==
  IF options.ca = "bad" \/ Mode = "unknown" THEN {} ELSE {TLSConfigs}

(* buildOptions of redisclient, which rejects such a bundle if TLS is on.  *)
RedisAttempts ==
  CASE options.mode = "off" -> {<<Plain>>}
    [] options.mode # "off" /\ options.ca = "bad" -> {}
    [] options.mode = "insecure" /\ options.ca # "bad" -> {<<Unverified>>}
    [] OTHER -> {<<Attempt("full", RootsOf(options.ca))>>}

\* Mutant of OtlpVerified: an unreadable bundle turns verification off.
OtlpUnreadable ==
  <<IF options.ca = "bad" THEN Unverified ELSE Attempt("full", RootsOf(options.ca))>>

(* tlsClientConfig: an unreadable bundle is logged, and the system's roots *)
(* verify instead.                                                         *)
OtlpVerified ==
  <<Attempt("full", IF options.ca = "good" THEN "ca" ELSE "system")>>

OtlpAttempts ==
  CASE options.mode = "off" -> {<<Plain>>}
    [] options.mode = "insecure" -> {<<Unverified>>}
    [] OTHER -> {OtlpVerified}

\* The attempts, if the options are accepted.
Attempts ==
  CASE options.client = "postgres" -> PostgresAttempts
    [] options.client = "redis" -> RedisAttempts
    [] options.client = "otlp" -> OtlpAttempts

-----------------------------------------------------------------------------

DialInit ==
  /\ options \in Options /\ server \in Servers
  /\ attempts = <<>> /\ dialled = {} /\ outcome = "building"

Build ==
  /\ outcome = "building"
  /\ IF Attempts = {} THEN outcome' = "invalid" /\ attempts' = <<>>
     ELSE outcome' = "dialling" /\ attempts' \in Attempts
  /\ UNCHANGED <<options, server, dialled>>

(* The leaf must chain to the roots; no roots are the system's.            *)
Chains(roots) == server.issuer = roots

\* What the server and the TLS library make of an attempt.
Succeeds(a) ==
  \/ a.host = DefaultHost
  \/ a.tls = "plain" /\ "plain" \in server.speaks
  \/ /\ a.tls # "plain" /\ "tls" \in server.speaks
     /\ a.tls \in {"chain", "full"} => Chains(a.roots)
     /\ a.tls = "full" => server.named

Dial ==
  /\ outcome = "dialling" /\ attempts # <<>>
  /\ dialled' = dialled \cup {Head(attempts).host}
  /\ attempts' = Tail(attempts)
  /\ outcome' = IF Succeeds(Head(attempts)) THEN Head(attempts).tls
                ELSE "dialling"
  /\ UNCHANGED <<options, server>>

GiveUp ==
  /\ outcome = "dialling" /\ attempts = <<>>
  /\ outcome' = "refused"
  /\ UNCHANGED <<options, server, attempts, dialled>>

DialNext == Build \/ Dial \/ GiveUp

DialSpec == DialInit /\ [][DialNext]_dialVars

-----------------------------------------------------------------------------

(* What the modes promise (the table of libpq that SSLMode is documented   *)
(* to follow, with pgpool's own rules for the CA bundle), from the         *)
(* server's side: the ways a connection may end up protected, the          *)
(* preferred one first, and what each asks of a server.                    *)
Wanted ==
  IF options.ca = "bad" THEN <<>> ELSE
  CASE Mode = "unknown" -> <<>>
    [] Mode = "disable" -> <<"plain">>
    [] Mode = "allow" -> <<"plain", "unverified">>
    [] Mode = "prefer" -> <<"unverified", "plain">>
    [] Mode = "require" ->
         IF options.ca = "none" THEN <<"unverified">> ELSE <<"chain">>
    [] Mode = "verify-ca" -> <<"chain">>
    [] Mode = "verify-full" -> <<"full">>

Trusted == server.issuer = IF options.ca = "good" THEN "ca" ELSE "system"

Offered ==
  {p \in Protections :
     IF p = "plain" THEN "plain" \in server.speaks
     ELSE /\ "tls" \in server.speaks
          /\ p \in {"chain", "full"} => Trusted
          /\ p = "full" => server.named}

(* A pool ends up connected as its mode promises, for every CA bundle and  *)
(* server: as preferred if the server offers that, otherwise as second     *)
(* best, and not at all rather than with less, or with another host.  The  *)
(* promise is libpq's but for two things: a CA bundle that does not parse  *)
(* is refused in every mode, and verify-* without one means the system's   *)
(* roots.                                                                  *)
FollowsLibpq ==
  options.client = "postgres" /\ outcome \notin {"building", "dialling"} =>
    LET possible == {i \in DOMAIN Wanted : Wanted[i] \in Offered}
    IN  /\ dialled \subseteq {Host}
        /\ IF possible = {} THEN outcome \in {"refused", "invalid"}
           ELSE outcome = Wanted[Min(possible)]

(* Redis and OTLP connections are encrypted and verified unless the        *)
(* options say otherwise: no CA bundle, not even an unreadable one, makes  *)
(* the channel weaker, and a readable one is what the server is held to.   *)
NeverWeaker ==
  options.client # "postgres" /\ options.mode = "on" /\ outcome \in Protections =>
    /\ outcome = "full" /\ server.named
    /\ server.issuer = IF options.ca = "good" THEN "ca" ELSE "system"

=============================================================================
