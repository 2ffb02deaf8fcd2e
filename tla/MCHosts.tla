------------------------------ MODULE MCHosts ------------------------------
(* The long-running parts of the two modes of KALUA on small instances.  They *)
(* share no state; a behaviour is one of serve mode's network side, its HTTP  *)
(* dispatch, its MQTT hub or its log, or run mode's web server or the timers  *)
(* of a session.                                                              *)
EXTENDS ServeNet, Endpoints, MQTTHub, LogSink, WebSessions, SessionTimers

VARIABLE part

\* Three routes of which the second is refused and a middleware that does not
\* exist; a route without a handler and nothing to fall back to; no routes.
ServeApps == {
  [routes |-> <<[on |-> {1}, fn |-> "f"], [on |-> {1, 2}, fn |-> "g"], [on |-> {2}, fn |-> "h"]>>,
   mw |-> <<"auth", "missing", "log">>, http |-> TRUE, context |-> TRUE, soap |-> TRUE],
  [routes |-> <<[on |-> {1}, fn |-> "missing"]>>,
   mw |-> <<>>, http |-> FALSE, context |-> FALSE, soap |-> FALSE],
  [routes |-> <<>>, mw |-> <<>>, http |-> TRUE, context |-> FALSE, soap |-> TRUE] }

hostvars == <<part, netvars, httpvars, mqttvars, logvars, webvars, timervars>>

Init ==
    /\ part \in {"net", "http", "mqtt", "log", "web", "timers"}
    /\ NetInit /\ EndpointsInit /\ MqttInit /\ LogInit /\ WebInit /\ TimersInit
    /\ part # "http" => Head(apps).routes = <<>>

Net == part = "net" /\ NetNext /\ UNCHANGED <<part, httpvars, mqttvars, logvars, webvars, timervars>>
Http == part = "http" /\ EndpointsNext /\ UNCHANGED <<part, netvars, mqttvars, logvars, webvars, timervars>>
Mqtt == part = "mqtt" /\ MqttNext /\ UNCHANGED <<part, httpvars, netvars, logvars, webvars, timervars>>
Log == part = "log" /\ LogNext /\ UNCHANGED <<part, httpvars, netvars, mqttvars, webvars, timervars>>
Web == part = "web" /\ WebNext /\ UNCHANGED <<part, httpvars, netvars, mqttvars, logvars, timervars>>
Timers == part = "timers" /\ TimersNext /\ UNCHANGED <<part, httpvars, netvars, mqttvars, logvars, webvars>>

Next == Net \/ Http \/ Mqtt \/ Log \/ Web \/ Timers

\* Listeners, accept loop and connections run; a callback gets its turn at a full
\* inbox; the watcher polls.
Fairness ==
    /\ WF_netvars(part = "net" /\ NetRun)
    /\ \A c \in Conn : WF_netvars(part = "net" /\ NetConn(c))
    /\ WF_timervars(part = "timers" /\ handleTimer)
    /\ \A t \in T : SF_timervars(part = "timers" /\ PostTimer(t))
    /\ WF_webvars(part = "web" /\ readScript("watch"))
    /\ \A r \in Reloader : WF_webvars(part = "web" /\ ReloadStep(r))

Spec == Init /\ [][Next]_hostvars /\ Fairness
=============================================================================
