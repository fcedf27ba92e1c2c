--------------------------- MODULE MCSyncAdapter ---------------------------
(* Small instances of SyncAdapter. *)
EXTENDS SyncAdapter

CONSTANTS h1, h2, plain, split, backend

Listener(http, tcp) == [http |-> http, tcp |-> tcp]
NoHTTP == [h \in Hosts |-> <<>>]

\* One listener: without routes, with one host whose rules change, with two
\* hosts, or TCP.
MCSnapshots ==
    {[i \in Listeners |-> Listener(http, {})] :
        http \in {f \in [Hosts -> {<<>>, <<plain>>, <<split>>, <<plain, split>>}] :
                     /\ f[h1] \in {<<>>, <<split>>, <<plain, split>>}
                     /\ f[h2] = <<>> \/ (f[h2] = <<plain>> /\ f[h1] = <<plain, split>>)}}
    \cup {[i \in Listeners |-> Listener(NoHTTP, {backend})]}

\* Two HTTP listeners that share a hostname.
MCSharedHost ==
    [Listeners -> {Listener(http, {}) : http \in [Hosts -> {<<>>, <<plain>>, <<split>>}]}]
=============================================================================
