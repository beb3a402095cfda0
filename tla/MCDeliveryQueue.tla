-------------------------- MODULE MCDeliveryQueue ---------------------------
(* DeliveryQueue on a small instance: a delivery of two payloads, and a    *)
(* later one of one payload, so that one recovery meets both.              *)
EXTENDS DeliveryQueue

TwoAndOne == <<2, 1>>

\* Each kind first, and each kind second but for "strict" after "strict".
Mixed == {<<"strict", "best effort, onError">>, <<"best effort, onError", "strict">>,
          <<"best effort", "best effort">>}

=============================================================================
