-------------------------- MODULE MCControlServer ---------------------------
EXTENDS ControlServer

\* Programs that ask on without waiting, and focl's `stop`.
MCScripts ==
  [c \in Clients |-> {<<"garbage", "events_subscribe", "ping">>,
                      <<"archive", "peer">>,
                      <<"unsupported", "shutdown">>}]
=============================================================================
