---------------------------- MODULE StreamServer ----------------------------
(***************************************************************************)
(* stream/server.go composed with the registrar.  The server keeps one     *)
(* stream per SDK and an index of streams by SDK key.  Its run goroutine   *)
(* takes the ids the registrar publishes, looks the client up and creates, *)
(* resets or closes the stream, while the registrar keeps working: the     *)
(* client it found, and that client's keys, may be stale at every step.    *)
(* What a stream does with its connections is module Stream.               *)
(***************************************************************************)
EXTENDS Registrar

CONSTANT StreamIds  \* names for the streams that get created: numbers

NoStream == 0

ASSUME StreamServerAssumption == StreamIds \subseteq Nat \ {NoStream}

VARIABLES
  streams,     \* per id: the stream, or NoStream
  streamByKey, \* streamsBySdkKey
  stream,      \* per stream: [state, sdkClient]
  serve        \* where server.run is: its place, and the id, stream, client and
               \* replaced client at hand

svars == <<streams, streamByKey, stream, serve>>
vars == <<rvars, svars>>

UnusedStream == [state |-> "unused", sdkClient |-> NoClient]
FreshStream(x) == x \in StreamIds /\ stream[x] = UnusedStream
                    /\ \A y \in StreamIds : stream[y] = UnusedStream => x <= y
Waiting == [at |-> "select", id |-> NoSdk, str |-> NoStream, sdkClient |-> NoClient,
            old |-> NoClient]

(* NewServer: one stream per client of the registrar; which names they get *)
(* does not matter, here the smallest ones in the order of the clients.    *)
Named(f) ==
  /\ \A id \in Ids : f[id] = NoStream <=> sdkClients[id] = NoClient
  /\ \A i, j \in Ids : f[i] <= f[j] <=> sdkClients[i] <= sdkClients[j]
  /\ \A id \in Ids, x \in StreamIds : x < f[id] => \E j \in Ids : f[j] = x

ServerInit ==
  /\ Init
  /\ streams \in [Ids -> StreamIds \cup {NoStream}] /\ Named(streams)
  /\ stream = [x \in StreamIds |->
                 IF \E id \in Ids : streams[id] = x
                   THEN [state |-> "open",
                         sdkClient |-> sdkClients[CHOOSE id \in Ids : streams[id] = x]]
                   ELSE UnusedStream]
  /\ streamByKey = [k \in Keys |-> IF byKey[k] = NoClient THEN NoStream ELSE streams[Owner[k]]]
  /\ serve = Waiting

-----------------------------------------------------------------------------
(* Plausible bugs *)

\* a known id keeps its stream on the old client
MutHandleReset ==
  /\ serve.at = "reset"
  /\ serve' = [serve EXCEPT !.at = "store"]
  /\ UNCHANGED <<rvars, streams, streamByKey, stream>>

\* the id of a removed SDK is ignored
MutHandleClose ==
  /\ serve.at = "close"
  /\ serve' = Waiting
  /\ UNCHANGED <<rvars, streams, streamByKey, stream>>

-----------------------------------------------------------------------------
(* handleSdkId *)

(* The registrar lookup and LoadOrCompute or LoadAndDelete of the stream.  *)
HandleSdkId ==
  LET id == Head(notices)
      c == sdkClients[id]
      here == streams[id]
      next(at, x) == [Waiting EXCEPT !.at = at, !.id = id, !.str = x, !.sdkClient = c]
  IN  /\ serve.at = "select" /\ notices # <<>>
      /\ TakeNotice
      /\ \/ /\ c # NoClient /\ here = NoStream
            /\ \E x \in StreamIds :
                 /\ FreshStream(x)
                 /\ streams' = [streams EXCEPT ![id] = x]
                 /\ stream' = [stream EXCEPT ![x] = [state |-> "open", sdkClient |-> c]]
                 /\ serve' = next("subscribe", x)
         \/ /\ c # NoClient /\ here # NoStream
            /\ serve' = next("unlink", here)
            /\ UNCHANGED <<streams, stream>>
         \/ /\ c = NoClient /\ here # NoStream
            /\ streams' = [streams EXCEPT ![id] = NoStream]
            /\ serve' = next("close", here)
            /\ UNCHANGED stream
         \/ /\ c = NoClient /\ here = NoStream
            /\ UNCHANGED <<streams, stream, serve>>
      /\ UNCHANGED streamByKey

(* Delete the keys the stream's client has by now. *)
UnlinkKeys(x) ==
  [k \in Keys |-> IF k \in SdkKeys(stream[x].sdkClient) THEN NoStream ELSE streamByKey[k]]

HandleUnlink ==
  /\ serve.at = "unlink"
  /\ streamByKey' = UnlinkKeys(serve.str)
  /\ serve' = [serve EXCEPT !.at = "reset"]
  /\ UNCHANGED <<rvars, streams, stream>>

(* ResetSdk swaps the client, then unsubscribes from the old one and       *)
(* subscribes to the new one.                                              *)
HandleReset ==
  /\ serve.at = "reset"
  /\ stream' = [stream EXCEPT ![serve.str].sdkClient = serve.sdkClient]
  /\ serve' = [serve EXCEPT !.at = "unsubscribe", !.old = stream[serve.str].sdkClient]
  /\ UNCHANGED <<rvars, streams, streamByKey>>

(* The SDK is gone: delete the stream's keys, close stop, unsubscribe.     *)
HandleClose ==
  /\ serve.at = "close"
  /\ streamByKey' = UnlinkKeys(serve.str)
  /\ stream' = [stream EXCEPT ![serve.str].state = "closed"]
  /\ serve' = [serve EXCEPT !.at = "leave", !.old = stream[serve.str].sdkClient]
  /\ UNCHANGED <<rvars, streams>>

(* Publisher.Subscribe and Unsubscribe poll stop and return if the client  *)
(* is closed; otherwise they wait for the publisher's worker.              *)
Polls == [unsubscribe |-> "unsubscribing", subscribe |-> "subscribing", leave |-> "leaving"]
Returns == [unsubscribing |-> "subscribe", subscribing |-> "store", leaving |-> "select"]
Proceed(at) == serve' = IF at = "select" THEN Waiting ELSE [serve EXCEPT !.at = at]

HandlePoll ==
  LET c == IF serve.at = "subscribe" THEN serve.sdkClient ELSE serve.old
  IN  /\ serve.at \in DOMAIN Polls
      /\ Proceed(IF Live(c) THEN Polls[serve.at] ELSE Returns[Polls[serve.at]])
      /\ UNCHANGED <<rvars, streams, streamByKey, stream>>

(* The worker serves the call.  If the client is closed by then, its       *)
(* select may just as well have picked stop: nobody takes the call.        *)
HandleCall ==
  LET c == IF serve.at = "subscribing" THEN serve.sdkClient ELSE serve.old
  IN  /\ serve.at \in DOMAIN Returns
      /\ \/ Proceed(Returns[serve.at])
         \/ ~Live(c) /\ Proceed("stuck")
      /\ UNCHANGED <<rvars, streams, streamByKey, stream>>

(* Store the keys of the client found at the start. *)
HandleStore ==
  /\ serve.at = "store"
  /\ streamByKey' = [k \in Keys |-> IF k \in SdkKeys(serve.sdkClient) THEN serve.str
                                    ELSE streamByKey[k]]
  /\ serve' = Waiting
  /\ UNCHANGED <<rvars, streams, stream>>

HandleStep ==
  HandleUnlink \/ HandleReset \/ HandleClose \/ HandlePoll \/ HandleCall \/ HandleStore

ServerNext == (RegistrarStep /\ UNCHANGED svars) \/ HandleSdkId \/ HandleStep

ServerSpec == ServerInit /\ [][ServerNext]_vars

(* Both goroutines run whenever they can. *)
FairServerSpec ==
  /\ ServerSpec
  /\ WF_vars(HandleSdkId \/ HandleStep)
  /\ WF_vars(RefreshStep /\ step # Idle /\ UNCHANGED svars)

-----------------------------------------------------------------------------
(* Properties *)

Settled == /\ Ready("idle") /\ closing = "open"
           /\ notices = <<>> /\ serve.at = "select"

(* Once every notice is handled there is one open stream per SDK of the    *)
(* profile, it evaluates with the registrar's client for that SDK, and all *)
(* current keys of the SDK lead to it (server.go:71-106), although the     *)
(* registrar went on changing clients and keys while they were handled.    *)
StreamsFollowRegistrar ==
  Settled =>
    /\ \A id \in Ids :
         IF sdkClients[id] = NoClient THEN streams[id] = NoStream
         ELSE /\ streams[id] # NoStream
              /\ stream[streams[id]] = [state |-> "open", sdkClient |-> sdkClients[id]]
    /\ \A k \in Keys : byKey[k] # NoClient => streamByKey[k] = streams[Owner[k]]

(* A stream that was dropped from the server is closed in the end, so that *)
(* its handlers leave (server.go:95,103).                                  *)
DroppedStreamsClose ==
  Settled => \A x \in StreamIds : stream[x].state = "open" => \E id \in Ids : streams[id] = x

(* "test that stream closed on removed sdk" (stream/server_test.go:101):    *)
(* when the registrar has dropped an SDK its stream goes, unless the SDK    *)
(* comes back or the registrar is closed.                                  *)
StreamClosedOnRemovedSdk ==
  \A id \in Ids :
    (streams[id] # NoStream /\ sdkClients[id] = NoClient)
      ~> (streams[id] = NoStream \/ sdkClients[id] # NoClient \/ closing # "open")
=============================================================================
