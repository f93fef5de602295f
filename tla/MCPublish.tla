----------------------------- MODULE MCPublish -----------------------------
(* Publish for TLC: what the requests carry, and who may do what.            *)
EXTENDS Publish

CONSTANTS acme, globex, news, room, misnamed, a1, a2, g1, app, guest

MCKind == [n \in Requested |->
             IF n = room THEN "private" ELSE IF n = misnamed THEN "invalid" ELSE "public"]

MCOwner == [c \in Sockets \union Subjects |-> IF c = g1 THEN globex ELSE acme]

MCReadable == [c \in Subjects |-> {news, room}]

One(name, channels, socket) ==
    [name |-> name, json |-> TRUE, channels |-> channels, socket |-> socket]

Call(by, body) ==
    [door |-> "route", by |-> by, app |-> TRUE, declared |-> TRUE, decoded |-> TRUE,
     join |-> TRUE, body |-> body]

Said(by, name, channel) ==
    [Call(by, <<One(name, <<channel>>, None)>>) EXCEPT !.door = "socket"]

Driver(body) == [Call(app, body) EXCEPT !.door = "broadcaster"]

Good == Call(app, <<One("app", <<news, room>>, a1)>>)

\* Bodies with one element and with several, each refusal of the route, the
\* broadcaster and client events in and out of place.
MCInputs ==
    { Good,
      [Good EXCEPT !.app = FALSE], [Good EXCEPT !.by = None], [Good EXCEPT !.by = guest],
      [Good EXCEPT !.declared = FALSE], [Good EXCEPT !.decoded = FALSE],
      Call(app, <<One("client", <<room>>, None), One("app", <<news>>, None)>>),
      Call(app, <<One("app", <<news>>, None), One("reserved", <<news>>, None)>>),
      Call(app, <<One("app", <<room, misnamed, news>>, None)>>),
      Call(app, <<One("app", <<>>, None)>>),
      Call(app, <<>>),
      [Good EXCEPT !.body[1].json = FALSE],
      Driver(<<One("app", <<news, room>>, a1)>>),
      [Driver(<<One("app", <<news>>, None)>>) EXCEPT !.join = FALSE],
      Driver(<<One("app", <<>>, None)>>), Driver(<<One("reserved", <<news>>, None)>>),
      Said(a1, "client", room), Said(a1, "client", news), Said(g1, "client", room),
      Said(a1, "reserved", room), Said(a1, "app", room) }

=============================================================================
