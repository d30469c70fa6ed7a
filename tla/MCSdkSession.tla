---------------------------- MODULE MCSdkSession ----------------------------
(* Small instances of the session and its twin for TLC. *)
EXTENDS SdkSession

\* The shortest way to an agreement, and offers, which count rounds and leave a mark on a
\* behavior record.  Rejections come by WithdrawReactivatable and expiry by the host.
ShortKinds == {"accept_session", "offer", "accept"}

\* The kinds that open a session and agree it.
DeliveryKinds == {"open", "accept_session", "offer", "accept"}
=============================================================================
