------------------------------- MODULE MCSession -------------------------------
(* One process, the peers and the signals of one session.                   *)
EXTENDS Session, TLC

CONSTANTS w1, w2, w3

MCWorkers == {w1, w2, w3}

\* The environments that lack one promise.
But(p) == AllPromises \ {p}

ButSilentPeersClose == But("silent_peers_close")
ButNoStartAfterStop == But("no_start_after_stop")
ButStopAfterRtp == But("stop_after_rtp")
ButStopWhileWaiting == But("stop_while_waiting")

===============================================================================
