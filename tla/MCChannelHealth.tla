--------------------------- MODULE MCChannelHealth ---------------------------
(* Small instances of ChannelHealth for TLC. *)
EXTENDS ChannelHealth, TLC

CONSTANTS monitor, root

Channel(name, options, environments) ==
    [name |-> name, enabled |-> TRUE, options |-> options, environments |-> environments]

Asked == [health_url |-> "https://alipay.example/health"]
None == [env \in {} |-> <<>>]

\* alipay is asked; the first wechat is replaced by the second, which has a fixed
\* status, for release another than the shared one, and leaves a key behind that
\* nobody checks; mock is not enabled.
TwoTargets ==
    << Channel("alipay", Asked, None),
       [Channel("mock", Asked, None) EXCEPT !.enabled = FALSE],
       Channel("wechat", [health_status |-> "down"],
               [test |-> [health_status |-> "down"],
                release |-> [health_status |-> "ok"]]),
       Channel("wechat", [health_status |-> "ok"],
               [release |-> [health_status |-> "degraded"]]) >>

OneTarget == << Channel("alipay", Asked, None) >>

TwoSweeps == [c \in {monitor, root} |-> IF c = monitor THEN 2 ELSE 1]
OneSweep == [c \in {monitor, root} |-> 1]
=============================================================================
