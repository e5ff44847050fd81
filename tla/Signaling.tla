------------------------------ MODULE Signaling ------------------------------
(***************************************************************************)
(* What a device (Endpoint) and a relay (Relay) have in common: the DIDs,  *)
(* the ids, the signalling messages and the clock.                         *)
(***************************************************************************)
EXTENDS Integers, Sequences, FiniteSets

CONSTANTS Device,        \* the devices modelled here
          Party,         \* every DID: devices and identities, here and elsewhere
          IdentityOf,    \* the identity behind every DID (context.identities)
          Nobody,        \* no DID (Python's None)
          Sid,           \* session ids: ULIDs, only their order matters
          UpdateId       \* ids of update messages: ULIDs as well

ASSUME PartyAssumption == /\ Device \subseteq Party
                          /\ IdentityOf \in [Party -> Party]
                          /\ Nobody \notin Party
ASSUME IdAssumption == /\ Sid \subseteq Nat /\ IsFiniteSet(Sid)
                       /\ UpdateId \subseteq Nat \ {0}

VARIABLE lapsed   \* the invites whose expires_at has passed

-----------------------------------------------------------------------------

(* A message carries its sender, its addressee, its session, a tag (reason *)
(* or status) and the update it is or answers (0 when there is none).      *)
Msg(type, from, to, i, tag, u) ==
  [type |-> type, from |-> from, to |-> to, sid |-> i, tag |-> tag, upd |-> u]

RejectReason == {"user.declined", "user.no-answer", "endpoint.busy", "session.expired",
                 "session.glare", "policy.first-contact-required", "other.unknown"}
CancelReason == {"user.cancelled", "session.timeout", "session.glare",
                 "session.answered-elsewhere"}
ByeReason == {"user.hangup", "session.already-answered", "session.cancelled",
              "session.failed"}
ErrorReason == {"session.unknown-session", "session.invalid-state",
                "session.update-pending", "transport.no-response",
                "transport.unknown-recipient"}
Status == {"ringing", "queued", "trying", "unheard-of"}
Tag == RejectReason \cup CancelReason \cup ByeReason \cup ErrorReason \cup Status \cup {"none"}

TagsOf(type) ==
  CASE type = "reject" -> RejectReason
    [] type = "cancel" -> CancelReason
    [] type = "bye" -> ByeReason
    [] type = "error" -> ErrorReason
    [] type = "progress" -> Status
    [] OTHER -> {"none"}

UpdatesOf(type) ==
  CASE type = "update" -> UpdateId
    [] type \in {"answer", "reject"} -> UpdateId \cup {0}
    [] OTHER -> {0}

MessageType == {"invite", "progress", "answer", "reject", "cancel", "update", "info",
                "bye", "error"}
Message == [type : MessageType, from : Party, to : Party, sid : Sid, tag : Tag,
            upd : UpdateId \cup {0}]
=============================================================================
