---------------------------- MODULE MCServerEnv ----------------------------
(* Model values for ServerEnv: the Echoer service of the repository's      *)
(* README, with one method of each call shape.                             *)
EXTENDS ServerEnv, TLC

MCMethodShape ==
    ("Echo" :> "unary") @@ ("EchoServerStream" :> "serverStream")
    @@ ("EchoClientStream" :> "clientStream") @@ ("EchoBidiStream" :> "bidi")

\* Dispatch: each method under the full service name, a call with the
\* service omitted, an invalid one naming neither, one to another service and an unknown method.
MCDispatchTargets ==
    { <<"echo.Echoer", m>> : m \in DOMAIN MCMethodShape }
    \cup { <<"", "Echo">>, <<"", "">>, <<"other.Svc", "Echo">>, <<"echo.Echoer", "Nope">> }

\* Streaming: the two shapes whose user code receives, one of them with
\* the service omitted.
MCStreamTargets ==
    { <<"echo.Echoer", "EchoClientStream">>, <<"", "EchoBidiStream">> }
\* Both: every dispatch case and the receiving shape with the service omitted.
MCCallTargets == MCDispatchTargets \cup MCStreamTargets
=============================================================================
