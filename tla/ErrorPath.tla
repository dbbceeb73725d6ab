----------------------------- MODULE ErrorPath ------------------------------
(***************************************************************************)
(* The way of one error from the database driver to the client of an RPC:  *)
(* the data layer hands it to dbutil, the layers above wrap it, locate it  *)
(* (errinfo) and turn it into a connect error, and the interceptors of     *)
(* rpcobs count it by reason and attach the reason for the client.         *)
(*                                                                         *)
(* An error is its Unwrap chain, outermost link first, and nil is the      *)
(* empty chain, so errors.As finds the first link of a kind.  The wording  *)
(* of an error is not modelled: all formatted errors are the link Text.    *)
(***************************************************************************)
EXTENDS Naturals, Sequences, SequencesExt

CONSTANTS
  Codes,           \* SQLSTATE codes
  Reasons,         \* the reasons of errinfo sentinels
  MaxLength,       \* layers above dbutil add links up to this length
  MaxInterceptors  \* interceptors installed, inner to outer

ASSUME PathAssumption ==
  /\ MaxLength \in Nat /\ MaxInterceptors \in Nat
  /\ {"UNSPECIFIED", "own"} \cap Reasons = {}

VARIABLES
  handler,  \* dbutil.Handler, with the noRowsErr argument of the call
  stage,    \* call, data, service, intercepted or client
  raised,   \* history: what the driver returned
  via,      \* history: the dbutil function the data layer called
  handled,  \* history: the error was replaced by a caller-owned one
  err,      \* the error on its way
  counted   \* the reasons rpc.server.errors was increased for

vars == <<handler, stage, raised, via, handled, err, counted>>

-----------------------------------------------------------------------------
(* Errors *)

\* info: the reasons of the ErrorInfo details on a connect error.
Link(kind, tag) == [is |-> kind, tag |-> tag, info |-> <<>>]

Nil == <<>>
Text == Link("text", "")
NoRows == Link("norows", "")
Pg(code) == Link("pg", code)
Sentinel(reason) == Link("sentinel", reason)

Places(e, kind) == {i \in DOMAIN e : e[i].is = kind}
Has(e, kind) == Places(e, kind) # {}
FirstAt(e, kind) == Min(Places(e, kind))
First(e, kind) == e[FirstAt(e, kind)]

\* What callers of the kit declare for their own errors.
Owned == {<<Text>>} \cup {<<Sentinel(r)>> : r \in Reasons}

\* What a query returns: success, a driver error, bare or wrapped, possibly
\* located by a helper below the data layer.
DriverErrors ==
  LET Bare == {<<NoRows>>, <<Text>>} \cup {<<Pg(c)>> : c \in Codes}
  IN  {Nil} \cup Bare \cup {<<Text>> \o e : e \in Bare}
            \cup {<<Link("origin", "query")>> \o e : e \in Bare}

Callbacks == {"none", "returns nil", "wraps", "own"}

Handlers ==
  [maps : UNION {[S -> Owned \cup {Nil}] : S \in SUBSET Codes},  \* ErrorMappings
   override : Owned \cup {Nil},         \* noRowsErr[0]
   callback : Callbacks,                \* NoRowsHandler
   fixed : Owned \cup {Nil}]            \* NoRowsError

Links ==
  [is : {"text", "norows", "pg", "sentinel", "origin", "connect"},
   tag : {"", "query", "data", "service"} \cup Codes \cup Reasons,
   info : Seq(Reasons \cup {"own"})]

TypeOK ==
  /\ handler \in Handlers
  /\ stage \in {"call", "data", "service", "intercepted", "client"}
  /\ raised \in DriverErrors
  /\ via \in {"none", "HandleError", "WrapError", "MustHandleError"}
  /\ handled \in BOOLEAN
  /\ err \in Seq(Links)
  /\ counted \in Seq(Reasons \cup {"UNSPECIFIED"})

-----------------------------------------------------------------------------
(* errinfo *)

\* Mutant of ReasonOf: a type assertion instead of errors.As.
ReasonOfOutermost(e) ==
  IF e # Nil /\ e[1].is = "sentinel" THEN e[1].tag ELSE "UNSPECIFIED"

ReasonOf(e) ==
  IF Has(e, "sentinel") THEN First(e, "sentinel").tag ELSE "UNSPECIFIED"

\* Mutant of HereAt: every layer records its own place.
HereAlways(place, e) ==
  IF e = Nil THEN Nil ELSE <<Link("origin", place)>> \o e

(* HereSkip: the place closest to the fault is kept.                       *)
HereAt(place, e) ==
  IF e = Nil \/ Has(e, "origin") THEN e ELSE <<Link("origin", place)>> \o e

-----------------------------------------------------------------------------
(* dbutil *)

Answer(e, own) == [err |-> e, handled |-> own]

CallbackAnswer(e) ==
  CASE handler.callback = "returns nil" -> Nil
    [] handler.callback = "wraps" -> <<Text>> \o e
    [] handler.callback = "own" -> <<Text>>

\* What a handler makes of pgx.ErrNoRows, and fallback where it says nothing.
NoRowsAnswer(e, override, fallback) ==
  IF override # Nil THEN Answer(override, TRUE)
  ELSE IF handler.callback # "none" THEN Answer(CallbackAnswer(e), TRUE)
  ELSE IF handler.fixed # Nil THEN Answer(handler.fixed, TRUE)
  ELSE Answer(fallback, FALSE)

Code(e) == First(e, "pg").tag
Mapped(e) == Code(e) \in DOMAIN handler.maps

\* Mutant of PgAnswer: the lookup does not ask whether the code is mapped.
PgAnswerUnchecked(e, fallback) ==
  Answer(IF Mapped(e) THEN handler.maps[Code(e)] ELSE Nil, TRUE)

(* Only an unmapped code falls back: one mapped to nil is a success.       *)
PgAnswer(e, fallback) ==
  IF Mapped(e) THEN Answer(handler.maps[Code(e)], TRUE)
  ELSE Answer(fallback, FALSE)

handleError(e, override) ==
  IF Has(e, "norows") THEN NoRowsAnswer(e, override, e)
  ELSE IF Has(e, "pg") THEN PgAnswer(e, e)
  ELSE Answer(e, FALSE)

(* The same, but what nobody maps is formatted, and so loses its chain.    *)
mustHandleError(e, override) ==
  IF Has(e, "norows") THEN NoRowsAnswer(e, override, <<Text>>)
  ELSE IF Has(e, "pg") THEN PgAnswer(e, <<Text>>)
  ELSE Answer(e, FALSE)

Return(function, answer) ==
  /\ stage = "data"
  /\ stage' = "service"
  /\ via' = function
  /\ handled' = answer.handled
  /\ err' = HereAt("data", answer.err)
  /\ UNCHANGED <<handler, raised, counted>>

HandleError == Return("HandleError", handleError(err, handler.override))

MustHandleError ==
  Return("MustHandleError", mustHandleError(err, handler.override))

\* Mutant of Wrapped: %v instead of %w.
WrappedOpaquely(e) == <<Text>>

Wrapped(e) == <<Text>> \o e

(* Nothing asks WrapError whether its argument is nil.                     *)
WrapError ==
  LET answer == handleError(err, Nil)
  IN  Return("WrapError",
             IF answer.handled THEN answer ELSE Answer(Wrapped(err), FALSE))

-----------------------------------------------------------------------------
(* The query, the layers above, and rpcobs *)

Init ==
  /\ handler \in Handlers
  /\ stage = "call"
  /\ raised = Nil /\ err = Nil
  /\ via = "none" /\ handled = FALSE
  /\ counted = <<>>

Query(e) ==
  /\ stage = "call"
  /\ stage' = "data"
  /\ raised' = e /\ err' = e
  /\ UNCHANGED <<handler, via, handled, counted>>

(* A layer adds context, locates the error, or makes a connect error of    *)
(* it, with or without an ErrorInfo of its own.                            *)
Propagate ==
  /\ stage \in {"service", "intercepted"}
  /\ err # Nil /\ Len(err) < MaxLength /\ Len(counted) < MaxInterceptors
  /\ stage' = "service"
  /\ \/ err' = <<Text>> \o err
     \/ err' = HereAt("service", err)
     \/ \E info \in {<<>>, <<"own">>} :
          err' = <<[Link("connect", "") EXCEPT !.info = info]>> \o err
  /\ UNCHANGED <<handler, raised, via, handled, counted>>

\* The connect error errors.As finds.
ConnectAt(e) == FirstAt(e, "connect")

\* Mutant of attachErrorInfo: an ErrorInfo that is there is not looked for.
attachAlways(e, reason) ==
  IF reason = "UNSPECIFIED" \/ ~Has(e, "connect") THEN e
  ELSE [e EXCEPT ![ConnectAt(e)].info = Append(@, reason)]

attachErrorInfo(e, reason) ==
  IF reason = "UNSPECIFIED" \/ ~Has(e, "connect") THEN e
  ELSE IF e[ConnectAt(e)].info # <<>> THEN e
  ELSE [e EXCEPT ![ConnectAt(e)].info = Append(@, reason)]

(* WrapUnary around a call that failed.                                    *)
Intercept ==
  /\ stage \in {"service", "intercepted"}
  /\ err # Nil /\ Len(counted) < MaxInterceptors
  /\ stage' = "intercepted"
  /\ counted' = Append(counted, ReasonOf(err))
  /\ err' = attachErrorInfo(err, ReasonOf(err))
  /\ UNCHANGED <<handler, raised, via, handled>>

(* The outermost interceptor returns, or there is no error to intercept.   *)
Deliver ==
  /\ \/ stage = "intercepted"
     \/ stage = "service" /\ err = Nil
  /\ stage' = "client"
  /\ UNCHANGED <<handler, raised, via, handled, err, counted>>

Next ==
  \/ \E e \in DriverErrors : Query(e)
  \/ HandleError \/ WrapError \/ MustHandleError
  \/ Propagate \/ Intercept \/ Deliver

Spec == Init /\ [][Next]_vars

-----------------------------------------------------------------------------

Answered == stage \in {"service", "intercepted", "client"}

(* The reported place is where the error entered the kit: the data layer,  *)
(* or the deeper place it already carried, whichever layers above call     *)
(* Here again.                                                             *)
OriginIsInnermost ==
  Answered /\ err # Nil =>
    /\ \E i \in DOMAIN err : Places(err, "origin") = {i}
    /\ First(err, "origin").tag =
         IF IsSuffix(raised, err) /\ Has(raised, "origin") THEN "query" ELSE "data"

(* A client that gets a declared reason gets it once, as it was counted,   *)
(* with any number of interceptors and re-wrapped connect errors, unless   *)
(* a layer attached an ErrorInfo of its own.                               *)
ClientLearnsReason ==
  stage \in {"intercepted", "client"} /\ Has(err, "connect") =>
    LET info == First(err, "connect").info
    IN  /\ Len(info) <= 1
        /\ Last(counted) # "UNSPECIFIED" => info \in {<<Last(counted)>>, <<"own">>}

(* A mapped SQLSTATE is counted under its sentinel's reason, however the   *)
(* driver error was wrapped and whatever the layers above add.             *)
MappingDecidesReason ==
  Has(raised, "pg") /\ Mapped(raised) =>
    \A i \in DOMAIN counted : counted[i] = ReasonOf(handler.maps[Code(raised)])

(* MustHandleError lets no PgError and no ErrNoRows reach a client, except *)
(* where the application's own NoRowsHandler wraps it (any other error it  *)
(* returns as it is); the other functions keep the cause in reach of       *)
(* errors.Is and errors.As for every layer above, unless it was replaced   *)
(* by a caller-owned error.                                                *)
CauseKeptOrHidden ==
  Answered =>
    IF via = "MustHandleError"
    THEN handler.callback # "wraps" => ~Has(err, "pg") /\ ~Has(err, "norows")
    ELSE ~handled => IsSuffix(raised, err)

(* A failure stays a failure, unless the application maps it to nil by its *)
(* NoRowsHandler or a mapping, and a success a success, except in          *)
(* WrapError, which makes an error of nil.                                 *)
VerdictStays ==
  Answered =>
    /\ raised # Nil /\ err = Nil =>
         \/ Has(raised, "norows") /\ handler.callback = "returns nil"
         \/ /\ Has(raised, "pg") /\ Mapped(raised)
            /\ handler.maps[Code(raised)] = Nil
    /\ raised = Nil /\ err # Nil => via = "WrapError"

=============================================================================
