---------------------------- MODULE MCBrokerPool ----------------------------
(* Instances of BrokerPool for TLC. *)
EXTENDS BrokerPool

CONSTANTS s1, s2, rabbit, mosquitto

Url(scheme, host) == [scheme |-> scheme, host |-> host, name |-> TRUE, qos |-> ""]

(* Good and bad URLs of each kind. *)
MixedTargets ==
    {Url("amqp", rabbit), Url("mqtt", mosquitto), Url("http", rabbit), Url("other", rabbit),
     [Url("amqp", rabbit) EXCEPT !.name = FALSE], [Url("mqtt", mosquitto) EXCEPT !.qos = "0"],
     [Url("mqtt", mosquitto) EXCEPT !.qos = "3"],
     [Url("mqtt", mosquitto) EXCEPT !.name = FALSE], [Url("amqp", rabbit) EXCEPT !.host = None]}
=============================================================================
