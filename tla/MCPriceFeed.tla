---------------------------- MODULE MCPriceFeed ----------------------------
(* The price feed with two racing calls of start().  One time unit stands   *)
(* for RetryDelay; the other durations keep the order the code's values     *)
(* have: RetryDelay < RefreshInterval < CycleMax < StaleMaxAge.             *)
EXTENDS PriceFeed

MC_MaxRetries      == 2
MC_RefreshInterval == 2
MC_RetryDelay      == 1
MC_FetchMax        == 1
MC_MaxLag          == 1
MC_StaleMaxAge     == 12
MC_MaxCount        == 2
=============================================================================
