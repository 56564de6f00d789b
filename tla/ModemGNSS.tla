----------------------------- MODULE ModemGNSS -----------------------------
(***************************************************************************)
(* The receiver of positions.  It sends sentences all the time; the port   *)
(* keeps some characters and loses what comes when it is full.             *)
(* getGNSSData drains the port into a buffer that drops its oldest bytes   *)
(* (drainGNSSRx) and looks for one complete RMC sentence in it.  A word or *)
(* a value is one character here, and the position stands for all fields   *)
(* from the latitude to the mode.                                          *)
(***************************************************************************)
EXTENDS Strings

CONSTANTS Stream,      \* the sentences that are sent
          PORT_SIZE,   \* characters that the port keeps
          GNSS_BUFFER, \* MODEM_GNSS_RESPONSE_BUFFER_SIZE: 1024
          MaxWaits,    \* rounds of a call before its time-out: 5 s at 50 ms each
          MaxLost      \* bound: characters that a full port loses

VARIABLES ahead,       \* what the receiver has yet to send
          port,        \* what the port holds
          lost,        \* how many characters the port lost (history)
          buffer,      \* GNSS_response
          waits,       \* rounds so far
          doing,       \* where getGNSSData is
          fix          \* the record of its caller

gnssVars == <<ahead, port, lost, buffer, waits, doing, fix>>

NoFix == [time |-> "none", valid |-> FALSE, position |-> "none"]
MinOf(a, b) == IF a < b THEN a ELSE b

\* A sentence as the receiver writes it.
Sentence(s) ==
    <<"$", s.kind, ",">> \o (IF s.kind = "RMC"
                             THEN <<s.time, ",">> \o s.status \o <<",", s.position>> ELSE <<"x">>)
        \o <<"\r", "\n">>
Transmission == FlattenSeq([i \in DOMAIN Stream |-> Sentence(Stream[i])])

GNSSInit ==
    /\ ahead = Transmission /\ port = <<>> /\ lost = 0
    /\ buffer = <<>> /\ waits = 0 /\ doing = "idle" /\ fix = NoFix

\* The receiver does not wait for anyone.
Emit ==
    /\ ahead # <<>>
    /\ ahead' = Tail(ahead)
    /\ IF Len(port) < PORT_SIZE THEN port' = Append(port, Head(ahead)) /\ UNCHANGED lost
       ELSE lost < MaxLost /\ lost' = lost + 1 /\ UNCHANGED port
    /\ UNCHANGED <<buffer, waits, doing, fix>>

\* getGNSSData: the buffer is emptied, the port is not.
GetGNSSData ==
    /\ doing \in {"idle", "found", "timed out"}
    /\ doing' = "draining" /\ waits' = 0 /\ buffer' = <<>>
    /\ UNCHANGED <<ahead, port, lost, fix>>

\* drainGNSSRx, one round: room is made by dropping what is oldest, and then the
\* rest of the port has to wait.
Drain ==
    LET available == MinOf(Len(port), GNSS_BUFFER)
        shift == available - (GNSS_BUFFER - Len(buffer))
    IN  /\ doing = "draining" /\ port # <<>>
        /\ buffer' = SubSeq(buffer, IF shift > 0 THEN shift + 1 ELSE 1, Len(buffer))
                         \o SubSeq(port, 1, available)
        /\ port' = SubSeq(port, available + 1, Len(port))
        /\ doing' = IF shift > 0 THEN "looking" ELSE doing
        /\ UNCHANGED <<ahead, lost, waits, fix>>

Drained ==
    /\ doing = "draining" /\ port = <<>>
    /\ doing' = "looking"
    /\ UNCHANGED <<ahead, port, lost, buffer, waits, fix>>

-----------------------------------------------------------------------------
(* What is found in the buffer.                                            *)

\* The lines of a text, as places.
LineTokens(x) ==
    LET t[i \in 0 .. Len(x)] ==
            IF i = 0 THEN Null ELSE IF t[i - 1] = NoToken THEN NoToken ELSE StrTok(x, CRLF, t[i - 1])
    IN  SelectSeq([i \in 1 .. Len(x) |-> t[i]], LAMBDA u : u # NoToken)

\* Mutant of IsComplete: the last line counts although more of it may come.
IsCompleteAlways(t) == TRUE

\* Something follows a line that is complete.
IsComplete(t) == t.s + t.len <= Len(buffer)
IsRMC(t) == t.len >= 3 /\ StrEqualPrefix(TextOf(buffer, t), <<"$", "RMC", ",">>)

\* The fields of a line, which is kept from its first comma on.
FieldsOf(t) == Tokens(SkipOverPrefix(TextOf(buffer, t), <<"$", "RMC">>), {","}, StrTokWithEmptyTokens)

\* What a line's fields put into the caller's record, up to an empty status.
FilledIn(f) ==
    [time |-> IF f # <<>> /\ f[1] # <<>> THEN f[1][1] ELSE "none",
     valid |-> Len(f) > 1 /\ f[2] = <<"A">>,
     position |-> IF Len(f) > 2 /\ f[2] # <<>> /\ f[3] # <<>> THEN f[3][1] ELSE "none"]

\* An empty status ends the search, for the line comes first every time.
Look ==
    /\ doing = "looking"
    /\ \E found \in {SelectSeq(LineTokens(buffer), LAMBDA t : IsComplete(t) /\ IsRMC(t))} :
         /\ IF found = <<>> THEN UNCHANGED fix ELSE fix' = FilledIn(FieldsOf(found[1]))
         /\ IF found # <<>> /\ (Len(FieldsOf(found[1])) < 2 \/ FieldsOf(found[1])[2] # <<>>)
            THEN doing' = "found" /\ UNCHANGED waits
            ELSE /\ doing' = IF waits >= MaxWaits THEN "timed out" ELSE "draining"
                 /\ waits' = waits + 1
    /\ UNCHANGED <<ahead, port, lost, buffer>>

GNSSNext == Emit \/ GetGNSSData \/ Drain \/ Drained \/ Look

-----------------------------------------------------------------------------
\* Neither the port nor the buffer grows beyond its size.
GNSSTypeOK == Len(port) <= PORT_SIZE /\ Len(buffer) <= GNSS_BUFFER /\ waits <= MaxWaits + 1

Sent == {Stream[i] : i \in DOMAIN Stream}
Whole == \E s \in Sent :
    s.kind = "RMC" /\ fix = [time |-> s.time, valid |-> s.status = <<"A">>, position |-> s.position]

\* What is returned are the fields of one sentence that was sent, although the buffer
\* begins and ends anywhere, unless the port lost characters.
FixWhole == doing = "found" /\ lost = 0 => Whole

\* The same when the port lost some: the checksum of a sentence is not looked at.
FixAlwaysWhole == doing = "found" => Whole

FixRight == GNSSTypeOK /\ FixWhole
=============================================================================
