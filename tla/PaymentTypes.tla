---------------------------- MODULE PaymentTypes ----------------------------
(***************************************************************************)
(* The data of the payment service: what a Payment is, which statuses it   *)
(* may carry and the key that its order number is looked up by.            *)
(*                                                                         *)
(* A Payment keeps the fields that some step of the program reads or that  *)
(* a property speaks of.  Amount, subject, metadata, the provider's trade  *)
(* number, the pay URL, the error texts and the timestamps are carried     *)
(* along by the code without a decision ever depending on them; the one    *)
(* thing they do decide is how long the payment's JSON line is, and that   *)
(* is the field "big".                                                     *)
(***************************************************************************)
EXTENDS Naturals

CONSTANTS
    Ids,        \* what newID can return
    Envs,       \* the env types in use
    Channels,   \* the configured payment channels
    Trades,     \* merchants' order numbers (out_trade_no)
    NULL        \* "no such entry" of a Go map

EnvType == {"test", "release"}

\* A webhook's status is stored as it comes, without a check: "other" stands
\* for every string that is none of the StatusXxx constants.
PaymentStatus ==
    {"created", "pending", "paid", "closed", "failed", "refunded", "lost", "other"}

CallbackStatus == {"none", "pending", "success", "failed", "lost"}

\* notify: the payment has a notify_url.  big: its JSON does not fit the
\* scanner's 64 KiB token buffer.
Payment ==
    [ id       : Ids,
      env      : Envs,
      channel  : Channels,
      trade    : Trades,
      notify   : BOOLEAN,
      big      : BOOLEAN,
      status   : PaymentStatus,
      callback : CallbackStatus,
      attempts : Nat ]

\* The separator is a NUL byte, which no env type and no configured channel
\* name contains, so the string is as injective as the triple.
indexKey(p) == <<p.env, p.channel, p.trade>>

Keys == Envs \X Channels \X Trades

\* The record Service.Create hands to the store.
NewPayment(id, key, notify, big) ==
    [ id |-> id, env |-> key[1], channel |-> key[2], trade |-> key[3],
      notify |-> notify, big |-> big,
      status |-> "created", callback |-> "none", attempts |-> 0 ]

ASSUME EnvsAssumption == Envs \subseteq EnvType

ASSUME NullAssumption == NULL \notin Ids /\ NULL \notin Payment
=============================================================================
