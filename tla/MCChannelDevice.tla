--------------------------- MODULE MCChannelDevice ---------------------------
(* Small instance of ChannelDevice: the broadcast channel and an allocated   *)
(* one, each of which carries foreign reports while the other is bound; two  *)
(* goroutines that close.                                                    *)
EXTENDS ChannelDevice
=============================================================================
