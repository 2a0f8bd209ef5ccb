---------------------------- MODULE BindAddress -----------------------------
(***************************************************************************)
(* Which addresses the sink of a run may listen on: the checks of          *)
(* runner.Run on HOLDOUT_SINK_BIND_ADDR and those of sink.StartOn.         *)
(*                                                                         *)
(* A literal address is its family and four bytes: all of an IPv4 address, *)
(* however it is written; the first two and the last two of an IPv6        *)
(* address whose others are zero.                                          *)
(***************************************************************************)
EXTENDS Integers

CONSTANT Bytes   \* the values a byte may have
ASSUME ByteAssumption == Bytes \subseteq 0..255

VARIABLES address, listener   \* "run", "start", "listening", "refused"
bindVars == <<address, listener>>

Literals == [family : {"v4", "v6"}, b : Bytes \X Bytes \X Bytes \X Bytes]

(* The variable is unset, names a host, or has no port. *)
NoLiteral == [family |-> "none", b |-> <<0, 0, 0, 0>>]

BindInit == address \in Literals \cup {NoLiteral} /\ listener = "run"

-----------------------------------------------------------------------------
(* Package net. *)
IsUnspecified(ip) == ip.b = <<0, 0, 0, 0>>
IsLoopback(ip) ==
  IF ip.family = "v4" THEN ip.b[1] = 127 ELSE ip.b = <<0, 0, 0, 1>>
IsLinkLocalUnicast(ip) ==
  IF ip.family = "v4" THEN ip.b[1] = 169 /\ ip.b[2] = 254
  ELSE ip.b[1] = 254 /\ ip.b[2] \div 64 = 2

(* Mistake: 172.16/12 is given its lower bound only. *)
PrivateIPv4Open(ip) ==
  /\ ip.family = "v4"
  /\ ip.b[1] = 10 \/ (ip.b[1] = 172 /\ ip.b[2] >= 16) \/ (ip.b[1] = 192 /\ ip.b[2] = 168)

PrivateIPv4(ip) ==
  /\ ip.family = "v4"
  /\ \/ ip.b[1] = 10
     \/ ip.b[1] = 172 /\ ip.b[2] >= 16 /\ ip.b[2] <= 31
     \/ ip.b[1] = 192 /\ ip.b[2] = 168

PrivateIPv6(ip) == ip.family = "v6" /\ ip.b[1] \div 2 = 126   \* ip[0] & 0xfe = 0xfc

ValidBindAddress(ip) ==
  /\ ~IsUnspecified(ip)
  /\ IsLoopback(ip) \/ IsLinkLocalUnicast(ip) \/ PrivateIPv4(ip) \/ PrivateIPv6(ip)

(* Run takes no host name and no loopback address. *)
RunChecks ==
  /\ listener = "run"
  /\ listener' = IF address # NoLiteral /\ ~IsLoopback(address) THEN "start" ELSE "refused"
  /\ UNCHANGED address

(* StartOn; the listener itself may fail on a good address. *)
StartOn ==
  /\ listener = "start"
  /\ listener' \in (IF ValidBindAddress(address) THEN {"listening", "refused"} ELSE {"refused"})
  /\ UNCHANGED address

BindSpec == BindInit /\ [][RunChecks \/ StartOn]_bindVars

-----------------------------------------------------------------------------
(* The ranges of RFC 1918, RFC 4193 and the link-local ones, by the number *)
(* the first two bytes make.                                               *)
Prefix(ip) == 256 * ip.b[1] + ip.b[2]
PrivateRanges == [v4 |-> (2560..2815) \cup (44048..44063) \cup {49320}, v6 |-> 64512..65023]
LinkLocalRanges == [v4 |-> {43518}, v6 |-> 65152..65215]

(* No sink of a run listens on a public, unspecified or loopback address,  *)
(* and none of the others is refused by the checks: the masks and bounds   *)
(* of privateIPv4 and privateIPv6 are those of the ranges.                 *)
ListensPrivately ==
  LET allowed == /\ address # NoLiteral
                 /\ Prefix(address) \in PrivateRanges[address.family]
                                          \cup LinkLocalRanges[address.family]
  IN  /\ listener = "listening" => allowed
      /\ listener = "start" /\ allowed => ValidBindAddress(address)

-----------------------------------------------------------------------------
(* runner.go line 109: the address must be a non-loopback private IP.      *)
OnlyPrivateAddresses ==
  listener = "listening" => Prefix(address) \in PrivateRanges[address.family]
=============================================================================
