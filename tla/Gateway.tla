------------------------------- MODULE Gateway -------------------------------
(***************************************************************************)
(* One call through a PSTN gateway: class GatewayCall of                   *)
(* impl/tools/dsipvec/gateway.py, a back-to-back controller between a DSIP *)
(* leg and a SIP leg.  An outbound call comes from DSIP, an inbound one    *)
(* from SIP.                                                               *)
(*                                                                         *)
(* The DSIP engine of the leg is in the same process, so leg, the state of *)
(* its session, changes in the step that tells it to or that it reports;   *)
(* what the engine is told when the session has ended it ignores.  The SIP *)
(* party is remote: toSip and fromSip are what is under way.  Requests and *)
(* responses that only pass through (update, info, REFER, ACK) are left    *)
(* out, with the codes of reasons and responses.                           *)
(***************************************************************************)
EXTENDS Integers, Sequences

CONSTANTS EarlyMedia,  \* early_media is not "never"
          MaxUnderWay  \* bound: provisional responses are sent while fewer are under way

ASSUME GatewayAssumption == EarlyMedia \in BOOLEAN /\ MaxUnderWay \in Nat

VARIABLES direction, dsip, sip, answered, cancelled,  \* the controller
          leg,      \* the session at the DSIP engine
          media,    \* "none", "bridged" or "released"
          party,    \* the SIP party: idle, ringing, up, cancelling or gone
          toSip, fromSip,
          gaveUp    \* Timer C has fired

controllerVars == <<direction, dsip, sip, answered, cancelled, media>>
sipVars == <<party, toSip, fromSip>>
gatewayVars == <<controllerVars, leg, sipVars, gaveUp>>

GatewayInit ==
  /\ direction \in {"outbound", "inbound"}
  /\ dsip = "idle" /\ sip = "idle" /\ answered = FALSE /\ cancelled = FALSE
  /\ leg = "none"
  /\ media = "none"
  /\ party = "idle"
  /\ toSip = <<>> /\ fromSip = <<>>
  /\ gaveUp = FALSE

Emit(msgs) == toSip' = toSip \o msgs

-----------------------------------------------------------------------------
(* What the DSIP engine reports.                                           *)

FromDsip == UNCHANGED <<direction, party, fromSip, gaveUp>>

DsipInvite ==
  /\ direction = "outbound" /\ leg = "none"
  /\ leg' = "offered"
  /\ dsip' = "inviting" /\ sip' = "calling"
  /\ Emit(<<"INVITE">>)
  /\ FromDsip /\ UNCHANGED <<answered, cancelled, media>>

DsipCancel ==
  /\ direction = "outbound" /\ leg = "offered"
  /\ leg' = "ended"
  /\ cancelled' = TRUE
  /\ dsip' = "ended"
  /\ Emit(IF sip \in {"calling", "early"} THEN <<"CANCEL">> ELSE <<>>)
  /\ FromDsip /\ UNCHANGED <<sip, answered, media>>

DsipProgress ==
  /\ direction = "inbound" /\ leg = "offered"
  /\ dsip = "offered"
  /\ dsip' = "alerting"
  /\ Emit(<<"180">>)
  /\ FromDsip /\ UNCHANGED <<leg, sip, answered, cancelled, media>>

DsipAnswer ==
  /\ direction = "inbound" /\ leg = "offered"
  /\ leg' = "active"
  /\ dsip' = "active" /\ sip' = "confirmed" /\ answered' = TRUE
  /\ media' = "bridged"
  /\ Emit(<<"200">>)
  /\ FromDsip /\ UNCHANGED cancelled

DsipReject ==
  /\ direction = "inbound" /\ leg = "offered"
  /\ leg' = "ended"
  /\ dsip' = "ended" /\ sip' = "terminated"
  /\ Emit(<<"failure">>)
  /\ FromDsip /\ UNCHANGED <<answered, cancelled, media>>

DsipBye ==
  /\ leg = "active"
  /\ leg' = "ended"
  /\ dsip' = "ended"
  /\ IF sip \in {"calling", "early", "confirmed"}
     THEN Emit(<<"BYE">>) /\ sip' = "terminated"
     ELSE UNCHANGED <<toSip, sip>>
  /\ media' = "released"
  /\ FromDsip /\ UNCHANGED <<answered, cancelled>>

-----------------------------------------------------------------------------
(* What arrives from the SIP side.                                         *)

Arrives(msg) ==
  /\ fromSip # <<>>
  /\ Head(fromSip) = msg
  /\ fromSip' = Tail(fromSip)
  /\ UNCHANGED <<direction, party, gaveUp>>

Told(from, to) == leg' = IF leg = from THEN to ELSE leg

\* The DSIP leg is answered by the gateway, once, and the media bridged.
AnsweredByGateway ==
  IF answered THEN UNCHANGED <<answered, dsip, leg, media>>
  ELSE /\ answered' = TRUE
       /\ dsip' = "active"
       /\ Told("offered", "active")
       /\ media' = "bridged"

\* The DSIP leg is ended because the SIP leg has; a rejection before the answer.
EndedBySip ==
  IF dsip = "ended" THEN UNCHANGED <<dsip, leg, media>>
  ELSE /\ dsip' = "ended"
       /\ IF answered THEN Told("active", "ended") /\ media' = "released"
          ELSE Told("offered", "ended") /\ UNCHANGED media

\* 180, or 183 with media, which may be let through before the answer.
SipProvisional(msg) ==
  /\ msg \in {"180", "183"}
  /\ direction = "outbound"
  /\ Arrives(msg)
  /\ IF cancelled THEN sip' = "terminated" /\ UNCHANGED <<dsip, answered, media, leg>>
     ELSE /\ sip' = "early"
          /\ IF msg = "183" /\ EarlyMedia /\ ~answered THEN AnsweredByGateway
             ELSE /\ dsip' = IF dsip = "inviting" THEN "proceeding" ELSE dsip
                  /\ UNCHANGED <<answered, media, leg>>
  /\ UNCHANGED <<cancelled, toSip>>

\* Mutant: an answer that crosses CANCEL is acknowledged and not torn down.
SipAnswerKept ==
  /\ direction = "outbound"
  /\ Arrives("200")
  /\ Emit(<<"ACK">>)
  /\ IF cancelled
     THEN sip' = "terminated" /\ UNCHANGED <<dsip, answered, media, leg>>
     ELSE sip' = "confirmed" /\ AnsweredByGateway
  /\ UNCHANGED cancelled

\* 12.5 rule 3: an answer that crosses CANCEL is acknowledged and torn down.
SipAnswer ==
  /\ direction = "outbound"
  /\ Arrives("200")
  /\ IF cancelled
     THEN Emit(<<"ACK", "BYE">>) /\ sip' = "terminated" /\ UNCHANGED <<dsip, answered, media, leg>>
     ELSE Emit(<<"ACK">>) /\ sip' = "confirmed" /\ AnsweredByGateway
  /\ UNCHANGED cancelled

SipFailure ==
  /\ direction = "outbound"
  /\ Arrives("failure")
  /\ sip' = "terminated"
  /\ IF cancelled THEN UNCHANGED <<dsip, media, leg>> ELSE EndedBySip
  /\ UNCHANGED <<answered, cancelled, toSip>>

SipInvite ==
  /\ direction = "inbound"
  /\ Arrives("INVITE")
  /\ dsip' = "offered" /\ sip' = "early"
  /\ Told("none", "offered")
  /\ UNCHANGED <<answered, cancelled, media, toSip>>

SipCancel ==
  /\ direction = "inbound"
  /\ Arrives("CANCEL")
  /\ sip' = "terminated"
  /\ IF dsip \in {"offered", "alerting"}
     THEN dsip' = "ended" /\ Told("offered", "ended") /\ Emit(<<"failure">>)
     ELSE UNCHANGED <<dsip, leg, toSip>>
  /\ UNCHANGED <<answered, cancelled, media>>

SipBye ==
  /\ Arrives("BYE")
  /\ sip' = "terminated"
  /\ EndedBySip
  /\ UNCHANGED <<answered, cancelled, toSip>>

\* Timer C, which fires once for an INVITE: no final response has come and
\* nothing was answered.
TimerC ==
  /\ ~gaveUp
  /\ direction = "outbound"
  /\ sip \in {"calling", "early"}
  /\ ~answered
  /\ sip' = "terminated" /\ dsip' = "ended"
  /\ Told("offered", "ended")
  /\ Emit(<<"CANCEL">>)
  /\ gaveUp' = TRUE
  /\ UNCHANGED <<direction, answered, cancelled, media, party, fromSip>>

-----------------------------------------------------------------------------
(* The SIP party (RFC 3261).                                               *)

PartySends(state, msgs) ==
  /\ party' = state
  /\ fromSip' = fromSip \o msgs
  /\ UNCHANGED <<controllerVars, leg, gaveUp>>

\* Called or calling, it rings, answers, refuses, calls, gives up or hangs up.
PartyActs ==
  /\ \/ party = "ringing" /\ direction = "outbound"
        /\ \/ Len(fromSip) < MaxUnderWay /\ \E msg \in {"180", "183"} : PartySends("ringing", <<msg>>)
           \/ PartySends("up", <<"200">>)
           \/ PartySends("gone", <<"failure">>)
     \/ party = "idle" /\ direction = "inbound" /\ PartySends("ringing", <<"INVITE">>)
     \/ party = "ringing" /\ direction = "inbound" /\ PartySends("cancelling", <<"CANCEL">>)
     \/ party = "up" /\ PartySends("gone", <<"BYE">>)
  /\ UNCHANGED toSip

\* It is rung, cancelled before its answer, hung up on, answered or refused; an
\* answer to a call it has cancelled is torn down by it.
PartyReceives ==
  /\ toSip # <<>>
  /\ toSip' = Tail(toSip)
  /\ LET msg == Head(toSip) IN
     CASE msg = "INVITE" -> PartySends("ringing", <<>>)
       [] msg \in {"CANCEL", "BYE"} /\ party = "ringing" -> PartySends("gone", <<"failure">>)
       [] msg = "BYE" /\ party = "up" -> PartySends("gone", <<>>)
       [] msg = "200" /\ party = "ringing" -> PartySends("up", <<>>)
       [] msg = "200" /\ party = "cancelling" -> PartySends("gone", <<"BYE">>)
       [] msg = "failure" -> PartySends("gone", <<>>)
       [] OTHER -> PartySends(party, <<>>)

GatewayNext ==
  \/ DsipInvite \/ DsipCancel \/ DsipProgress \/ DsipAnswer \/ DsipReject \/ DsipBye
  \/ \E msg \in {"180", "183"} : SipProvisional(msg)
  \/ SipAnswer \/ SipFailure \/ SipInvite \/ SipCancel \/ SipBye
  \/ TimerC
  \/ PartyActs \/ PartyReceives

GatewaySpec == GatewayInit /\ [][GatewayNext]_gatewayVars

-----------------------------------------------------------------------------
(* Properties.                                                             *)

AtRest == toSip = <<>> /\ fromSip = <<>>

\* With nothing under way neither half of the call outlives the other, and media
\* is bridged only for a call that is up on the DSIP side.
HalvesAgree ==
  /\ leg = "ended" => party \in {"idle", "gone"}
  /\ party = "gone" => leg = "ended"
  /\ media = "bridged" => leg = "active"

\* The halves end together, whichever side cancels, answers, refuses or hangs up
\* first and whatever crosses on the way, when Timer C has not fired.
LegsEndTogether == AtRest /\ ~gaveUp => HalvesAgree

\* The same when Timer C has fired: an answer that crosses its CANCEL is torn
\* down, and nothing is bridged for a call that was rejected.
TimerCEndsTheCall == AtRest /\ gaveUp => HalvesAgree
=============================================================================
