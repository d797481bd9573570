---------------------------- MODULE MCHandshake ----------------------------
(* Limits small enough to enumerate, valid and invalid ones, below and     *)
(* above a built-in ceiling, for both peers; matching and other builds.    *)
EXTENDS Handshake

MCCeiling == [key \in LimitKeys |-> CASE key = "max_frame_bytes" -> 3
                                      [] key = "max_payload_bytes" -> 2
                                      [] key = "max_in_flight" -> 1
                                      [] key = "max_pending_replies" -> 2
                                      [] key = "max_queued_bytes" -> 6
                                      [] OTHER -> 2]

MCLimits ==
  {[key \in LimitKeys |-> CASE key = "max_frame_bytes" -> frame
                            [] key = "max_payload_bytes" -> payload
                            [] key = "max_in_flight" -> inFlight
                            [] key = "max_pending_replies" -> pending
                            [] key = "max_queued_bytes" -> queued
                            [] OTHER -> 2] :
     frame \in 2..4, payload \in 1..2, inFlight \in 1..2, pending \in 2..3, queued \in {4, 6, 9}}

\* One side ranges over everything, the other over a valid narrow, a valid
\* wide and an invalid choice.
Fixed ==
  {l \in MCLimits : l["max_payload_bytes"] = 1 /\ l["max_in_flight"] = 1
                    /\ l["max_pending_replies"] = 2
                    /\ <<l["max_frame_bytes"], l["max_queued_bytes"]>> \in {<<2, 4>>, <<4, 9>>, <<3, 4>>}}

MCHosts ==
  [version : {"0.7.0"}, digest : {"bundled"}, override : BOOLEAN, limits : MCLimits]
    \cup [version : {"0.7.0"}, digest : {"other"}, override : {FALSE}, limits : Fixed]
MCWorkers == [version : {"0.7.0", "0.6.0"}, digest : {"bundled"}, limits : Fixed]

\* A welcome of another worker program: one that raises the in-flight limit above any hello, and one
\* whose queue cannot hold its own frames
MCForeign ==
  {[version |-> "0.7.0", digest |-> "bundled",
    limits |-> l] : l \in {[MCCeiling EXCEPT !["max_in_flight"] = 3, !["max_pending_replies"] = 4],
                          [MCCeiling EXCEPT !["max_queued_bytes"] = 2]}}
============================================================================
