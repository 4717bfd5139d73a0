----------------------------- MODULE BeaconServer -----------------------------
(***************************************************************************)
(* The HTTP face of the orchestrator (pkg/beaconapi/server.go): what each  *)
(* handler makes of a request and of the backend's answer.  The server     *)
(* keeps no state; a request is answered by calling the backend once.      *)
(*                                                                         *)
(* The last segment of a path is represented by its kind: "slot" (a        *)
(* decimal uint64), "root" (0x and 64 hex digits), "name" (genesis, head,  *)
(* finalized or justified), "hex" (any other 0x string), "nothing" (empty, *)
(* or with a further slash) or "garbage".  The backend's result is "ok",   *)
(* "notfound" (ErrNotFound) or "error".                                    *)
(***************************************************************************)
EXTENDS Integers

OK == 200
BadRequest == 400
NotFound == 404
MethodNotAllowed == 405
NotAcceptable == 406
InternalServerError == 500

Results == {"ok", "notfound", "error"}

(* Bug: every failure of the backend is reported as a missing object. *)
AnyErrorIsNotFound(result) == IF result = "ok" THEN OK ELSE NotFound

(* writeSSZ or writeJSON, and writeBackendError. *)
writeBackendResult(result) ==
  CASE result = "ok" -> OK
    [] result = "notfound" -> NotFound
    [] result = "error" -> InternalServerError

(* acceptsSSZ: no Accept header, or an item that matches and is not q=0. *)
acceptsSSZ(accept) ==
  \/ accept = {}
  \/ \E item \in accept : /\ item.type \in {"application/octet-stream", "application/*", "*/*"}
                          /\ item.q # 0

(* parseBlockID: names other than slots and roots are understood, but not   *)
(* supported.                                                               *)
parseBlockID(id) ==
  CASE id \in {"slot", "root"} -> id
    [] id = "name" -> "unsupported"
    [] id \in {"hex", "garbage"} -> "invalid"

handleBlock(r, result) ==
  CASE ~ acceptsSSZ(r.accept) -> NotAcceptable
    [] acceptsSSZ(r.accept) /\ r.id = "nothing" -> NotFound
    [] acceptsSSZ(r.accept) /\ r.id # "nothing" ->
         CASE parseBlockID(r.id) \in {"slot", "root"} -> writeBackendResult(result)
           [] parseBlockID(r.id) = "unsupported" -> NotFound
           [] parseBlockID(r.id) = "invalid" -> BadRequest

(* handleState: a slot or the genesis state; state roots are not served. *)
handleState(r, result) ==
  CASE ~ acceptsSSZ(r.accept) -> NotAcceptable
    [] acceptsSSZ(r.accept) ->
         CASE r.id = "slot" -> writeBackendResult(result)
           [] r.id = "name" -> IF r.name = "genesis" THEN writeBackendResult(result)
                               ELSE BadRequest
           [] r.id \in {"nothing", "root", "hex"} -> NotFound
           [] r.id = "garbage" -> BadRequest

handleGenesis(result) == writeBackendResult(result)

(* handlePlan: both bounds are required and in order. *)
handlePlan(r, result) ==
  IF r.from \in Nat /\ r.to \in Nat /\ r.from <= r.to
  THEN writeBackendResult(result) ELSE BadRequest

(* Bug: the first slot after the checkpoint is refused. *)
handleSlotTooLate(r, result) ==
  CASE r.id = "nothing" -> NotFound
    [] r.id \notin {"nothing", "slot"} -> BadRequest
    [] r.id = "slot" -> IF r.warmup \in Nat /\ r.slot > r.warmup + 1
                        THEN writeBackendResult(result) ELSE BadRequest

(* handleSlot: the slot lies after the worker's checkpoint. *)
handleSlot(r, result) ==
  CASE r.id = "nothing" -> NotFound
    [] r.id \notin {"nothing", "slot"} -> BadRequest
    [] r.id = "slot" -> IF r.warmup \in Nat /\ r.slot > r.warmup
                        THEN writeBackendResult(result) ELSE BadRequest

(* serveHTTP: the method, then the route. *)
serveHTTP(r, result) ==
  IF r.method # "GET" THEN MethodNotAllowed
  ELSE CASE r.path = "blocks" -> handleBlock(r, result)
         [] r.path = "states" -> handleState(r, result)
         [] r.path = "genesis" -> handleGenesis(result)
         [] r.path = "slot" -> handleSlot(r, result)
         [] r.path = "plan" -> handlePlan(r, result)
         [] OTHER -> NotFound
===============================================================================
