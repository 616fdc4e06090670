------------------------------ MODULE Requests ------------------------------
(***************************************************************************)
(* The unary endpoints: web/api, web/ofrep, web/cdnproxy, web/webhook and  *)
(* the unary calls of grpc/flag_service.go, behind the middlewares that    *)
(* web/router.go puts around them, on top of a client that reloads,        *)
(* refreshes and closes at the same time (module Client).                  *)
(*                                                                         *)
(* One peer of one endpoint sends one request after another and keeps what *)
(* it was last given.  A flag's value is named by the config and the user  *)
(* it was evaluated for; the hash behind an ETag is free of collisions.    *)
(***************************************************************************)
EXTENDS Client

CONSTANTS
  Users,         \* the users the peer evaluates for: functions attribute -> value
  DefaultAttrs   \* global and SDK default attributes, merged

(* A value is <<type, text>>; type: "string", "number", "list", "time" or  *)
(* "other" for what JSON has besides.                                      *)
Ops == {<<"api", "eval">>, <<"api", "all">>, <<"api", "keys">>, <<"api", "refresh">>,
        <<"ofrep", "eval">>, <<"ofrep", "all">>, <<"cdn", "config">>, <<"hook", "refresh">>,
        <<"grpc", "eval">>, <<"grpc", "all">>, <<"grpc", "keys">>, <<"grpc", "refresh">>}

NoUser == [a \in {} |-> <<"other", "">>]
NoTag == <<Empty, {}>>
Flags(config) == CASE config = "a" -> {"f"} [] config = "b" -> {"f", "g"} [] OTHER -> {}

VARIABLES
  peer,   \* the endpoint the peer talks to: api, ofrep, cdn, hook or grpc
  req,    \* the request: place in the handler, operation, user, flag, ETag; the last answer
  held    \* what the peer keeps: the CDN body; a bulk evaluation and its ETag

reqVars == <<peer, req, held>>

NoRequest(code) ==
  [at |-> "idle", op |-> <<"none", "none">>, user |-> NoUser, flag |-> "f", tag |-> NoTag, code |-> code]

RInit ==
  /\ Init
  /\ peer \in {op[1] : op \in Ops}
  /\ req = NoRequest("none")
  /\ held = [body |-> Empty, tag |-> NoTag, user |-> NoUser, config |-> Empty]

-----------------------------------------------------------------------------
(* model/user_attrs.go *)

(* unmarshalFrom: other types are refused, a list becomes a []string. *)
Unmarshals(user) == \A k \in DOMAIN user : user[k][1] \in {"string", "number", "list"}

(* Discriminator: strings and numbers by their text; a []string, which     *)
(* unmarshalFrom and getUserAttrs make of every list, matches no case of   *)
(* the switch, and neither does a time.                                    *)
Discriminator(user) ==
  {<<k, IF user[k][1] \in {"string", "number"} THEN user[k][2] ELSE "">> : k \in DOMAIN user}

MergeUserAttrs(base, over) ==
  [k \in DOMAIN base \cup DOMAIN over |-> IF k \in DOMAIN over THEN over[k] ELSE base[k]]

mapTargetingKeyToIdentifier(user) ==
  IF "targetingKey" \in DOMAIN user
  THEN MergeUserAttrs(user, [a \in {"Identifier"} |-> user["targetingKey"]])
  ELSE user

-----------------------------------------------------------------------------
(* Middlewares and request parsing: what turns a request away before the   *)
(* client is asked.  A fault is what is wrong with the request.            *)

Faults == {"options", "credentials", "body", "no target", "unknown target", "no key", "signature"}

Options(op) ==        \* AutoOptions answers before HeaderAuth looks
  CASE op[1] \in {"api", "ofrep", "cdn"} -> "204"
    [] op[1] = "hook" -> "405"
    [] OTHER -> "accepted"

HeaderAuth(op) == IF op[1] \in {"api", "ofrep", "hook"} THEN "401" ELSE "accepted"

(* a body that is no JSON, or a user that does not unmarshal *)
parseRequest(op) ==
  IF op[1] \in {"api", "ofrep"} /\ op[2] \in {"eval", "all"} THEN "400" ELSE "accepted"

getSDKClient(op, fault) ==
  CASE op[1] = "grpc" -> "InvalidArgument"
    [] op[1] = "ofrep" \/ (fault = "no target" /\ op[1] \in {"api", "hook"}) -> "400"
    [] OTHER -> "404"

(* validateSignature: a header is missing, no signature matches, or the    *)
(* timestamp is before now - validFor.                                     *)
validateSignature(op) == IF op[1] = "hook" THEN "400" ELSE "accepted"

Rejection(op, fault) ==
  CASE fault = "options" -> Options(op)
    [] fault = "credentials" -> HeaderAuth(op)
    [] fault = "body" -> parseRequest(op)
    [] fault = "no key" -> IF op = <<"grpc", "eval">> THEN "InvalidArgument" ELSE "accepted"
    [] fault \in {"no target", "unknown target"} -> getSDKClient(op, fault)
    [] fault = "signature" -> validateSignature(op)

InvalidState(op) == IF op[1] = "grpc" THEN "Internal" ELSE "500"

-----------------------------------------------------------------------------
(* Plausible bugs *)

\* the ETag of a bulk evaluation is the config's
MutcalcEtag(user, config) == <<config, {}>>

\* a handler that waits for the client does not watch its context
MutCheck ==
  /\ req.at = "check" /\ first = "done" /\ ~ClientClosed
  /\ req' = IF entry = Empty THEN NoRequest(InvalidState(req.op))
            ELSE [req EXCEPT !.at = IF req.op[2] = "refresh" THEN "refreshing" ELSE "serve"]
  /\ UNCHANGED <<vars, peer, held>>

\* the valid state is the first refresh, not an entry
MutInvalid == FALSE

-----------------------------------------------------------------------------
(* Handlers *)

(* The users, flags and conditional headers a request comes with, where    *)
(* the operation looks at them.                                            *)
UsersOf(op) == IF op = <<"ofrep", "all">> THEN Users ELSE {NoUser}
FlagsOf(op) == IF op[2] = "eval" THEN {"f", "g"} ELSE {"f"}
TagsOf(op) ==
  CASE op = <<"ofrep", "all">> -> {NoTag, held.tag}
    [] op = <<"cdn", "config">> -> {NoTag, <<held.body, {}>>}
    [] OTHER -> {NoTag}

Reject(op, fault) ==
  /\ req.at = "idle" /\ Rejection(op, fault) # "accepted"
  /\ req' = NoRequest(Rejection(op, fault))
  /\ UNCHANGED <<vars, peer, held>>

(* The webhook and gRPC refresh a client in whatever state it is. *)
Receive(op) ==
  /\ req.at = "idle" /\ closing = "open"
  /\ \E user \in UsersOf(op), flag \in FlagsOf(op), tag \in TagsOf(op) :
       /\ Unmarshals(user)
       /\ req' = [at |-> IF op[2] = "refresh" /\ op[1] # "api" THEN "refreshing" ELSE "check",
                  op |-> op, user |-> user, flag |-> flag, tag |-> tag, code |-> "none"]
  /\ UNCHANGED <<vars, peer, held>>

KeyNotFound(op) == CASE op[1] = "grpc" -> "NotFound" [] op[1] = "api" -> "400" [] OTHER -> "404"
EvalFailed(op) == IF op[1] = "grpc" THEN "Unknown" ELSE "500"
Invalid == entry = Empty

(* IsInValidState, once ensureReady lets the handler go on *)
Check ==
  /\ req.at = "check" /\ Ready
  /\ req' = IF Invalid THEN NoRequest(InvalidState(req.op))
            ELSE [req EXCEPT !.at = IF req.op[2] = "refresh" THEN "refreshing" ELSE "serve"]
  /\ UNCHANGED <<vars, peer, held>>

(* cdnproxy.ServeHTTP: one look at the entry for the ETag and the body *)
ServeConfig ==
  /\ req.at = "serve" /\ req.op[2] = "config"
  /\ IF req.tag = <<entry, {}>>
     THEN req' = NoRequest("304") /\ UNCHANGED held
     ELSE req' = NoRequest("200") /\ held' = [held EXCEPT !.body = entry]
  /\ UNCHANGED <<vars, peer>>

calcEtag(user, config) == <<config, Discriminator(user)>>

(* ofrep.EvalAll up to its 304: the ETag is made from the entry ... *)
ServeBulk ==
  /\ req.at = "serve" /\ req.op = <<"ofrep", "all">>
  /\ LET tag == calcEtag(req.user, entry)
     IN  req' = IF req.tag = tag THEN NoRequest("304")
                ELSE [req EXCEPT !.at = "evaluate", !.tag = tag]
  /\ UNCHANGED <<vars, peer, held>>

(* ... and the flags come from the SDK. *)
EvalUser(user) == MergeUserAttrs(DefaultAttrs, mapTargetingKeyToIdentifier(user))

EvaluateBulk ==
  /\ req.at = "evaluate"
  /\ req' = NoRequest("200")
  /\ held' = [held EXCEPT !.tag = req.tag, !.config = sdk, !.user = EvalUser(req.user)]
  /\ UNCHANGED <<vars, peer>>

(* Eval, EvalAll and Keys of the API, OFREP's Eval, gRPC.  The evaluation  *)
(* of one flag may fail for another reason than its key.                   *)
Evaluate ==
  /\ req.at = "serve" /\ req.op[2] \in {"eval", "all", "keys"} /\ req.op # <<"ofrep", "all">>
  /\ \/ req' = IF req.op[2] = "eval" /\ req.flag \notin Flags(sdk)
               THEN NoRequest(KeyNotFound(req.op)) ELSE NoRequest("200")
     \/ req.op[2] = "eval" /\ req' = NoRequest(EvalFailed(req.op))
  /\ UNCHANGED <<vars, peer, held>>

(* Refresh of the API, the webhook and gRPC, with the request's context;   *)
(* the webhook hides an error.                                             *)
RefreshRequest ==
  /\ \E place \in {"idle", "waiting"} :
       /\ Refresh(req.at, place, "idle", FALSE)
       /\ req' = IF place = "waiting" THEN [req EXCEPT !.at = place]
                 ELSE NoRequest(IF req.op[1] = "hook" \/ Offline THEN "200"
                                ELSE IF req.op[1] = "grpc" THEN "Unknown" ELSE "500")
  /\ UNCHANGED <<kind, srcVars, watchVars, storeVars, entry, first, listener, hooks, initialized,
                 seen, closing, peer, held>>

Handler == Check \/ ServeConfig \/ ServeBulk \/ EvaluateBulk \/ Evaluate \/ RefreshRequest

(* Set ends the request a refresh waits for. *)
Woken == req' = IF req.at = "waiting" /\ fetch.at = "installed" /\ fetch'.at = "none"
                THEN NoRequest("200") ELSE req

RNext ==
  \/ Next /\ Woken /\ UNCHANGED <<peer, held>>
  \/ \E op \in {o \in Ops : o[1] = peer} :
       Receive(op) \/ \E fault \in Faults : Reject(op, fault)
  \/ Handler

(* A handler that can go on does. *)
RSpec == RInit /\ [][RNext]_<<vars, reqVars>> /\ Fairness /\ WF_<<vars, reqVars>>(Handler)

-----------------------------------------------------------------------------
(* Properties *)

(* OFREP's 304 (ofrep.go:133) tells a peer that the flags it holds are the *)
(* ones an evaluation for this request's user would give (ofrep_test.go,   *)
(* "etag user").  They were evaluated for this user or one whom            *)
(* Discriminator (user_attrs.go:32) does not tell from him: it sees        *)
(* neither what is in a list nor whether a text is a string or a number.   *)
(* And they were evaluated with the stored config, unless the evaluation,  *)
(* which takes its ETag from the entry and its flags from the SDK, was out *)
(* of step with its ETag.                                                  *)
Alike(x, y) ==
  LET blank(v) == v[1] = "list" \/ v[2] = ""
  IN  x = y \/ (blank(x) /\ blank(y)) \/ ({x[1], y[1]} \subseteq {"string", "number"} /\ x[2] = y[2])
SameUser(u, v) == DOMAIN u = DOMAIN v /\ \A k \in DOMAIN u : Alike(u[k], v[k])
NotModifiedIsTrue ==
  [][req.op = <<"ofrep", "all">> /\ req'.code = "304" =>
       /\ SameUser(held.user, EvalUser(req.user))
       /\ held.config = entry \/ held.config # held.tag[1]]_<<vars, reqVars>>

(* IsInValidState looks at the entry (sdk.go:274), the evaluation at the   *)
(* SDK: a handler that was let through finds a config in the SDK, except   *)
(* for an offline client whose SDK has not been told of its first config.  *)
ServesAConfig ==
  req.at \in {"serve", "evaluate"} => entry # Empty /\ (sdk = Empty => Offline /\ ~Quiet)

(* Every request is answered, by a client that is still fetching its first *)
(* config or is being closed too (ensureReady, sdk.go:199).                *)
Answered == req.at # "idle" ~> req.at = "idle"
=============================================================================
