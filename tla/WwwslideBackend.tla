-------------------------- MODULE WwwslideBackend --------------------------
(***************************************************************************)
(* photo-provider's wwwslide backend (wwwslide_backend.c).  D-Bus setters  *)
(* record the wanted rendering in three separate atomics and raise          *)
(* needs_register; all HTTP is done by the cache worker, inside             *)
(* pp_wwwslide_backend_fetch_next, whose progress is the variable call:     *)
(*   none      the worker is not in the backend                             *)
(*   register  needs_register cleared, /client_register in flight           *)
(*   load_h, load_qr  reregister reads the three atomics one at a time      *)
(*   push      pushing embed_qr and target_size for the new client id       *)
(*   image     /get_next_img in flight                                      *)
(* A photo is rendered by the server as its client id was configured, so    *)
(* client stands for the id in use by the configuration pushed for it.      *)
(***************************************************************************)
EXTENDS Integers

CONSTANTS
  IMG_MIN_SZ, IMG_MAX_SZ,   \* accepted range of a width or a height
  InitialConfig,            \* target_w, target_h, embed_qr of the config file
  NoClient                  \* client_id before the first registration

Size == IMG_MIN_SZ .. IMG_MAX_SZ
Config == [w : Size, h : Size, qr : BOOLEAN]

ASSUME SizeAssumption == IMG_MIN_SZ \in Nat /\ IMG_MAX_SZ \in Nat
ASSUME ConfigAssumption == InitialConfig \in Config /\ NoClient \notin Config

VARIABLES
  target_w, target_h, embed_qr,   \* atomics written by the setters
  needs_register,                 \* atomic_bool
  call,                           \* where fetch_next is
  pushing,                        \* reregister's locals tw, th, qr
  client,                         \* configuration of client_id, or NoClient
  known,                          \* which of our ids the server knows: "new",
                                  \* being registered, "current", client_id
  stale                           \* last_activity_s is over CLIENT_STALE_S ago

targetVars == <<target_w, target_h, embed_qr>>
backendVars == <<target_w, target_h, embed_qr, needs_register, call, pushing,
                 client, known, stale>>

Target == [w |-> target_w, h |-> target_h, qr |-> embed_qr]

Calls == {"none", "register", "load_h", "load_qr", "push", "image"}

BackendInit ==
  /\ target_w = InitialConfig.w
  /\ target_h = InitialConfig.h
  /\ embed_qr = InitialConfig.qr
  /\ needs_register = TRUE
  /\ call = "none"
  /\ pushing = InitialConfig
  /\ client = NoClient
  /\ known = {}
  /\ stale \in BOOLEAN        \* the machine's uptime may be over the limit

-----------------------------------------------------------------------------
(* The worker's side: one call of fetch_next. *)

\* Mutant of EnterFetch: an idle client keeps its id.
EnterFetchKeepsIdle ==
  /\ call = "none"
  /\ call' = IF needs_register THEN "register" ELSE "image"
  /\ needs_register' = FALSE
  /\ UNCHANGED <<target_w, target_h, embed_qr, pushing, client, known, stale>>

\* An idle client is re-registered; the flag is cleared before registering.
EnterFetch ==
  /\ call = "none"
  /\ call' = IF needs_register \/ stale THEN "register" ELSE "image"
  /\ needs_register' = FALSE
  /\ UNCHANGED <<target_w, target_h, embed_qr, pushing, client, known, stale>>

\* /client_register answers with a new id; target_w is read.
Register ==
  /\ call = "register"
  /\ known' = known \cup {"new"}
  /\ pushing' = [pushing EXCEPT !.w = target_w]
  /\ call' = "load_h"
  /\ UNCHANGED <<target_w, target_h, embed_qr, needs_register, client, stale>>

LoadHeight ==
  /\ call = "load_h"
  /\ pushing' = [pushing EXCEPT !.h = target_h]
  /\ call' = "load_qr"
  /\ UNCHANGED <<target_w, target_h, embed_qr, needs_register, client, known,
                 stale>>

LoadQr ==
  /\ call = "load_qr"
  /\ pushing' = [pushing EXCEPT !.qr = embed_qr]
  /\ call' = "push"
  /\ UNCHANGED <<target_w, target_h, embed_qr, needs_register, client, known,
                 stale>>

\* Mutant of PushConfig: the flag is cleared once the registration is done.
PushConfigClearsFlag ==
  /\ call = "push"
  /\ "new" \in known
  /\ client' = pushing
  /\ known' = {"current"}
  /\ stale' = FALSE
  /\ call' = "image"
  /\ needs_register' = FALSE
  /\ UNCHANGED <<target_w, target_h, embed_qr, pushing>>

\* Both pushes succeeded: the new id becomes client_id.
PushConfig ==
  /\ call = "push"
  /\ "new" \in known
  /\ client' = pushing
  /\ known' = {"current"}
  /\ stale' = FALSE
  /\ call' = "image"
  /\ UNCHANGED <<target_w, target_h, embed_qr, needs_register, pushing>>

\* reregister failed: the flag goes back up, client_id keeps its old value.
RegistrationFails ==
  /\ call \in {"register", "push"}
  /\ needs_register' = TRUE
  /\ known' = known \ {"new"}
  /\ call' = "none"
  /\ UNCHANGED <<target_w, target_h, embed_qr, pushing, client, stale>>

\* The image (and its metadata, or "{}" for it) arrived.
ImageArrives ==
  /\ call = "image"
  /\ "current" \in known
  /\ stale' = FALSE
  /\ call' = "none"
  /\ UNCHANGED <<target_w, target_h, embed_qr, needs_register, pushing, client,
                 known>>

ImageFails ==
  /\ call = "image"
  /\ call' = "none"
  /\ UNCHANGED <<target_w, target_h, embed_qr, needs_register, pushing, client,
                 known, stale>>

-----------------------------------------------------------------------------
(* The setters' side: each atomic operation of the D-Bus thread is a step. *)

InRange(w, h) == w \in Size /\ h \in Size

ExchangeWidth(w) ==
  /\ target_w' = w
  /\ UNCHANGED <<target_h, embed_qr, needs_register, call, pushing, client,
                 known, stale>>

ExchangeHeight(h) ==
  /\ target_h' = h
  /\ UNCHANGED <<target_w, embed_qr, needs_register, call, pushing, client,
                 known, stale>>

ExchangeQr(v) ==
  /\ embed_qr' = v
  /\ UNCHANGED <<target_w, target_h, needs_register, call, pushing, client,
                 known, stale>>

RaiseNeedsRegister ==
  /\ needs_register' = TRUE
  /\ UNCHANGED <<target_w, target_h, embed_qr, call, pushing, client, known,
                 stale>>

-----------------------------------------------------------------------------
(* The environment. *)

\* CLIENT_STALE_S pass without a registration or a fetch succeeding.
TimePasses ==
  /\ ~stale
  /\ stale' = TRUE
  /\ UNCHANGED <<target_w, target_h, embed_qr, needs_register, call, pushing,
                 client, known>>

\* The server restarts or evicts its clients: the ids it gave are unknown.
ServerForgets ==
  /\ known # {}
  /\ known' = {}
  /\ UNCHANGED <<target_w, target_h, embed_qr, needs_register, call, pushing,
                 client, stale>>

-----------------------------------------------------------------------------
BackendTypeOK ==
  /\ target_w \in Size /\ target_h \in Size /\ embed_qr \in BOOLEAN
  /\ needs_register \in BOOLEAN
  /\ call \in Calls
  /\ pushing \in Config
  /\ client \in Config \cup {NoClient}
  /\ known \in SUBSET {"new", "current"}
  /\ stale \in BOOLEAN

\* The server can only know client_id once there is one.
ClientConfigured == "current" \in known => client \in Config
=============================================================================
