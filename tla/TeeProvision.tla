---------------------------- MODULE TeeProvision ----------------------------
(* Provisioning of identities and tokens: tee_connector.c, the teeprov tool,   *)
(* the FRU command of droidboot.c, pmdb.c and the BOM token of updater.c.      *)
(* The TEE and the PMDB are outside the repository and stand here with what    *)
(* their callers see of them.                                                  *)
(*                                                                             *)
(* A byte is a pair of nibbles <<high, low>>; a FRU value is a string of       *)
(* nibbles, two to a byte.  A token of a data group is a sequence of           *)
(* subgroups, each a sequence of items, each a sequence of bytes.              *)
EXTENDS Integers, Sequences, FiniteSets, SequencesExt, Functions

CONSTANTS Nibbles,          \* the hexadecimal digits
          FruSize,          \* PMDB_FRU_SIZE, in bytes
          Groups,           \* tokens of the other data groups
          PayloadMax,       \* PAYLOAD_MAX_SIZE
          PrintMax,         \* PRINT_BUFFER_SIZE
          BomZips,          \* archives for flash_bom_token: sequences of entries
          MaxTeeFaults

FruStrings == [1..(2 * FruSize) -> Nibbles]
TeeAssumption ==
  /\ Nibbles \subseteq 0..15 /\ FruSize \in Nat \ {0} /\ PayloadMax \in Nat /\ PrintMax \in Nat
  /\ MaxTeeFaults \in Nat
ASSUME TeeAssumption

VARIABLES teeBuild,    \* TEE_FRAMEWORK is defined
          teeFru,      \* the FRU item of the TEE, or the write-many area of the PMDB
          teeAsked,    \* the FRU string last set with success
          teeWalk,     \* parse_token in progress
          teeOut,      \* what the last command printed
          teeRet,      \* how it ended
          teeTokens,   \* the tokens written and committed
          teeSession,  \* an update session: its tokens, or closed
          teeBom,      \* the archive flash_bom_token works on and its place in it
          teeKeys,     \* the files generate wrote: [pub, prv]
          teeFaults
teeVars == <<teeBuild, teeFru, teeAsked, teeWalk, teeOut, teeRet, teeTokens, teeSession, teeBom, teeKeys, teeFaults>>

NoWalk == [left |-> <<>>, group |-> "", buf |-> <<>>]
NoBom == [left |-> <<>>, on |-> FALSE]
NoSession == [open |-> FALSE, tokens |-> {}]
NoFru == <<>>
TeeRunning == "running"

TeeTypeOK ==
  /\ teeBuild \in BOOLEAN
  /\ teeFru = NoFru \/ DOMAIN teeFru.bytes = 1..FruSize
  /\ teeAsked = NoFru \/ teeAsked \in FruStrings
  /\ Len(teeWalk.buf) < PrintMax
  /\ teeRet \in {"none", "ok", "fail", "t", "continue", "abort", TeeRunning}
  /\ teeTokens \subseteq {"bom", "other"} /\ teeSession.tokens \subseteq {"bom", "other"}
  /\ teeKeys \in [pub : 0..2, prv : 0..2] /\ teeFaults \in 0..MaxTeeFaults

TeeInit ==
  /\ teeBuild \in BOOLEAN
  /\ teeFru = NoFru /\ teeAsked = NoFru /\ teeWalk = NoWalk /\ teeOut = <<>> /\ teeRet = "none"
  /\ teeTokens = {} /\ teeSession = NoSession /\ teeBom = NoBom
  /\ teeKeys = [pub |-> 0, prv |-> 0] /\ teeFaults = 0

TeeIdle == teeRet # TeeRunning
TeeFault == teeFaults < MaxTeeFaults /\ teeFaults' = teeFaults + 1
-----------------------------------------------------------------------------
(* The FRU *)

\* oem_fru_handler reads each pair of digits low nibble first.
FruBytes(str) == [i \in 1..FruSize |-> <<str[2 * i], str[2 * i - 1]>>]
Value8(byte) == byte[1] * 16 + byte[2]
SumOf(bytes) == FoldFunction(LAMBDA b, sum : Value8(b) + sum, 0, bytes)
\* twoscomplement: one byte, modulo 256.
twoscomplement(bytes) == (256 - (SumOf(bytes) % 256)) % 256

\* pmdb_write_fru: with the TEE a temporary token, otherwise the bytes and their
\* checksum in the write-many area, read and written back as a whole.
pmdb_write_fru(bytes) ==
  teeFru' = [bytes |-> bytes, cs |-> IF teeBuild THEN 0 ELSE twoscomplement(bytes)]

\* A digit that is not hexadecimal is reported and the byte is left unset.
oem_fru_handler ==
  /\ TeeIdle
  /\ \E str \in FruStrings, hex \in BOOLEAN :
       \/ /\ hex /\ pmdb_write_fru(FruBytes(str)) /\ teeAsked' = str /\ teeRet' = "ok"
          /\ UNCHANGED teeFaults
       \/ /\ ~hex /\ pmdb_write_fru(FruBytes(str)) /\ teeAsked' = NoFru /\ teeRet' = "fail"
          /\ UNCHANGED teeFaults
       \/ /\ hex /\ TeeFault /\ teeRet' = "fail" /\ UNCHANGED <<teeBuild, teeFru, teeAsked>>
  /\ teeOut' = <<>>
  /\ UNCHANGED <<teeBuild, teeWalk, teeTokens, teeSession, teeBom, teeKeys>>
-----------------------------------------------------------------------------
(* parse_token: get-fru and read-token-payload *)

FruToken == IF teeFru = NoFru THEN <<>> ELSE <<<<teeFru.bytes>>>>
Token(group) == IF group = "fru" THEN FruToken ELSE Groups[group]
Items(token) == FlattenSeq(token)
Whole(token) == FlattenSeq(Items(token))

ParseStart ==
  /\ TeeIdle
  /\ \E group \in DOMAIN Groups \cup {"fru"} :
       /\ group = "fru" => teeBuild
       /\ teeWalk' = [left |-> Items(Token(group)), group |-> group, buf |-> <<>>]
  /\ teeOut' = <<>> /\ teeRet' = TeeRunning
  /\ UNCHANGED <<teeBuild, teeFru, teeAsked, teeTokens, teeSession, teeBom, teeKeys, teeFaults>>

\* Each byte of the FRU is turned round before it is printed.
Printed(group, bytes) ==
  IF group = "fru" THEN [i \in DOMAIN bytes |-> <<bytes[i][2], bytes[i][1]>>] ELSE bytes

\* What was collected is printed even when an error ends the walk.
ParseEnd(ret) == teeWalk' = NoWalk /\ teeOut' = Printed(teeWalk.group, teeWalk.buf) /\ teeRet' = ret
Fits(item) == Len(item) <= PayloadMax /\ Len(teeWalk.buf) + Len(item) < PrintMax

\* A faulty variant; no step uses it.
ParseFails_skips == teeWalk' = [teeWalk EXCEPT !.left = Tail(@)] /\ UNCHANGED <<teeOut, teeRet>>

\* A TEE call fails, or an item or the whole does not fit.
ParseFails == ParseEnd("fail")

parse_token ==
  /\ teeWalk # NoWalk
  /\ \/ teeWalk.left = <<>> /\ ParseEnd("ok") /\ UNCHANGED teeFaults
     \/ /\ teeWalk.left # <<>> /\ Fits(Head(teeWalk.left)) /\ UNCHANGED <<teeOut, teeRet, teeFaults>>
        /\ teeWalk' = [teeWalk EXCEPT !.left = Tail(@), !.buf = @ \o Head(teeWalk.left)]
     \/ /\ teeWalk.left # <<>> /\ ParseFails
        /\ IF Fits(Head(teeWalk.left)) THEN TeeFault ELSE UNCHANGED teeFaults
  /\ UNCHANGED <<teeBuild, teeFru, teeAsked, teeTokens, teeSession, teeBom, teeKeys>>

\* read_token answers success even when tee_token_read failed.
read_token ==
  /\ TeeIdle /\ teeBuild
  /\ \E group \in DOMAIN Groups :
       \/ teeRet' = "ok" /\ teeOut' = Whole(Groups[group]) /\ UNCHANGED teeFaults
       \/ TeeFault /\ teeRet' \in {"ok", "fail"} /\ teeOut' = <<>>
  /\ UNCHANGED <<teeBuild, teeFru, teeAsked, teeWalk, teeTokens, teeSession, teeBom, teeKeys>>

\* get-spid, get-ssn, get-part-id, get-lifetime, get-oem-id, the key requests:
\* one answer of the TEE, printed whole or not at all.
GetIdentity ==
  /\ TeeIdle
  /\ \/ teeRet' = "ok" /\ teeOut' = <<<<0, 1>>>> /\ UNCHANGED teeFaults
     \/ TeeFault /\ teeRet' = "fail" /\ teeOut' = <<>>
  /\ UNCHANGED <<teeBuild, teeFru, teeAsked, teeWalk, teeTokens, teeSession, teeBom, teeKeys>>
-----------------------------------------------------------------------------
(* Token updates *)

start_update ==
  /\ TeeIdle /\ teeBuild
  /\ \/ /\ ~teeSession.open /\ teeSession' = [open |-> TRUE, tokens |-> teeTokens] /\ teeRet' = "ok"
        /\ UNCHANGED teeFaults
     \/ /\ IF teeSession.open THEN UNCHANGED teeFaults ELSE TeeFault
        /\ teeRet' = "fail" /\ UNCHANGED teeSession
  /\ teeOut' = <<>> /\ UNCHANGED <<teeBuild, teeFru, teeAsked, teeWalk, teeTokens, teeBom, teeKeys>>

\* External: inside a session a token is committed by finalize.
Written(token) ==
  IF teeSession.open THEN teeSession' = [teeSession EXCEPT !.tokens = @ \cup {token}] /\ UNCHANGED teeTokens
  ELSE teeTokens' = teeTokens \cup {token} /\ UNCHANGED teeSession
Closed == teeSession' = NoSession

\* write_token, from fastboot "flash token" or teeprov -w.
write_token ==
  /\ TeeIdle /\ teeBuild
  /\ \/ Written("other") /\ teeRet' = "ok" /\ UNCHANGED teeFaults
     \/ TeeFault /\ teeRet' = "fail" /\ UNCHANGED <<teeTokens, teeSession>>
  /\ teeOut' = <<>> /\ UNCHANGED <<teeBuild, teeFru, teeAsked, teeWalk, teeBom, teeKeys>>

\* The Chaabi of builds without the TEE: a token that is too small is taken for
\* a placeholder and reported as written.
flash_token ==
  /\ TeeIdle /\ ~teeBuild
  /\ \/ teeTokens' \in {teeTokens \cup {"other"}, teeTokens} /\ teeRet' = "ok" /\ UNCHANGED teeFaults
     \/ TeeFault /\ teeRet' = "fail" /\ UNCHANGED teeTokens
  /\ teeOut' = <<>> /\ UNCHANGED <<teeBuild, teeFru, teeAsked, teeWalk, teeSession, teeBom, teeKeys>>

remove_token ==
  /\ TeeIdle /\ teeBuild
  /\ \/ /\ teeRet' = "ok" /\ UNCHANGED teeFaults
        /\ IF teeSession.open THEN teeSession' = [teeSession EXCEPT !.tokens = @ \ {"other"}] /\ UNCHANGED teeTokens
           ELSE teeTokens' = teeTokens \ {"other"} /\ UNCHANGED teeSession
     \/ TeeFault /\ teeRet' = "fail" /\ UNCHANGED <<teeTokens, teeSession>>
  /\ teeOut' = <<>> /\ UNCHANGED <<teeBuild, teeFru, teeAsked, teeWalk, teeBom, teeKeys>>

cancel_update ==
  /\ TeeIdle /\ teeBuild
  /\ \/ teeSession.open /\ Closed /\ teeRet' = "ok" /\ UNCHANGED teeFaults
     \/ /\ IF teeSession.open THEN TeeFault ELSE UNCHANGED teeFaults
        /\ teeRet' = "fail" /\ UNCHANGED teeSession
  /\ teeOut' = <<>> /\ UNCHANGED <<teeBuild, teeFru, teeAsked, teeWalk, teeTokens, teeBom, teeKeys>>

finalize_update ==
  /\ TeeIdle /\ teeBuild
  /\ \/ /\ teeSession.open /\ teeTokens' = teeSession.tokens /\ Closed /\ teeRet' = "ok"
        /\ UNCHANGED teeFaults
     \/ /\ IF teeSession.open THEN TeeFault ELSE UNCHANGED teeFaults
        /\ teeRet' = "fail" /\ UNCHANGED <<teeTokens, teeSession>>
  /\ teeOut' = <<>> /\ UNCHANGED <<teeBuild, teeFru, teeAsked, teeWalk, teeBom, teeKeys>>

\* flash_bom_token: for every IFWI of the archive that fits the board the token
\* of the same name is written; after a refused one the update is cancelled and
\* "fail" lets the edify script go on.  A broken entry aborts it.
FlashBomFn ==
  /\ TeeIdle /\ teeBuild
  /\ \E zip \in BomZips : teeBom' = [left |-> zip, on |-> TRUE]
  /\ teeOut' = <<>> /\ teeRet' = TeeRunning
  /\ UNCHANGED <<teeBuild, teeFru, teeAsked, teeWalk, teeTokens, teeSession, teeKeys, teeFaults>>

BomEnd(ret) == teeBom' = NoBom /\ teeRet' = ret
BomSkip(entry) == entry.kind = "other" \/ ~entry.fits \/ entry.token = "none"
FlashBomRefused ==
  /\ BomEnd("continue") /\ UNCHANGED teeTokens
  /\ \/ TeeFault /\ (IF teeSession.open THEN Closed ELSE UNCHANGED teeSession)
     \/ /\ teeSession.open /\ teeFaults + 2 <= MaxTeeFaults /\ teeFaults' = teeFaults + 2
        /\ UNCHANGED teeSession          \* what cancel_update returns is not looked at
FlashBomEntry ==
  /\ teeBom.on
  /\ \/ teeBom.left = <<>> /\ BomEnd("t") /\ UNCHANGED <<teeTokens, teeSession, teeFaults>>
     \/ /\ teeBom.left # <<>> /\ BomSkip(Head(teeBom.left))
        /\ teeBom' = [teeBom EXCEPT !.left = Tail(@)] /\ UNCHANGED <<teeTokens, teeSession, teeRet, teeFaults>>
     \/ /\ teeBom.left # <<>> /\ ~BomSkip(Head(teeBom.left))
        /\ \/ /\ Head(teeBom.left).token = "good" /\ Written("bom")
              /\ teeBom' = [teeBom EXCEPT !.left = Tail(@)] /\ UNCHANGED <<teeRet, teeFaults>>
           \/ Head(teeBom.left).token = "good" /\ FlashBomRefused
           \/ /\ Head(teeBom.left).token = "broken" /\ BomEnd("abort")
              /\ UNCHANGED <<teeTokens, teeSession, teeFaults>>
  /\ UNCHANGED <<teeBuild, teeFru, teeAsked, teeWalk, teeOut, teeKeys>>

\* generate_shared_rsa writes the public key file, then the private one.
generate_shared_rsa ==
  /\ TeeIdle /\ teeBuild /\ teeKeys.pub < 2
  /\ LET new == teeKeys.pub + 1
     IN \/ teeKeys' = [pub |-> new, prv |-> new] /\ teeRet' = "ok" /\ UNCHANGED teeFaults
        \/ TeeFault /\ teeKeys' \in {teeKeys, [teeKeys EXCEPT !.pub = new]} /\ teeRet' = "fail"
  /\ teeOut' = <<>> /\ UNCHANGED <<teeBuild, teeFru, teeAsked, teeWalk, teeTokens, teeSession, teeBom>>

TeeReadNext == oem_fru_handler \/ ParseStart \/ parse_token \/ read_token \/ GetIdentity
TeeUpdateNext ==
  \/ start_update \/ write_token \/ flash_token \/ remove_token \/ cancel_update \/ finalize_update
  \/ FlashBomFn \/ FlashBomEntry \/ generate_shared_rsa
TeeNext == TeeReadNext \/ TeeUpdateNext
TeeSpec == TeeInit /\ [][TeeNext]_teeVars
-----------------------------------------------------------------------------
(* Properties *)

(* A FRU that "oem fru set" took is printed by get-fru digit for digit: the    *)
(* nibbles turned round on the way in are turned round again on the way out.   *)
FruReadsBack ==
  teeWalk.group = "fru" /\ teeRet' = "ok" /\ teeAsked # NoFru
    => \A i \in 1..FruSize : teeOut'[i] = <<teeAsked[2 * i - 1], teeAsked[2 * i]>>

(* The FRU record of the PMDB always sums to zero modulo 256 with its          *)
(* checksum, which twoscomplement computes in one unsigned byte.               *)
FruChecksumHolds == ~teeBuild /\ teeFru # NoFru => (SumOf(teeFru.bytes) + teeFru.cs) % 256 = 0

(* A payload reported as read is the whole token, items in order, and what an  *)
(* error leaves to be printed is a beginning of it.                            *)
PayloadIsAPrefixOfTheToken ==
  teeWalk # NoWalk /\ teeRet' \in {"ok", "fail"}
    => /\ IsPrefix(teeOut', Printed(teeWalk.group, Whole(Token(teeWalk.group))))
       /\ teeRet' = "ok" => Len(teeOut') = Len(Whole(Token(teeWalk.group)))

(* When flash_bom_token answers "fail" and that refusal is the only call of    *)
(* the TEE that failed, no update session is left open with some of the        *)
(* tokens in it: FlashIfwiOrBomFn cancels the update.                          *)
RefusedBomLeavesNoSession == teeRet = "continue" /\ teeFaults <= 1 => ~teeSession.open
=============================================================================
