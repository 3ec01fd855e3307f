------------------------------ MODULE MCDispatch ------------------------------
(* Requests, reports and bands for Dispatch. *)
EXTENDS Dispatch

Body(kind) == [NoBody EXCEPT !.kind = kind]

Asking(head, path, body) ==
    [method |-> "GET", head |-> head, path |-> path, body |-> body]

Setting(head, path, body) ==
    [method |-> "POST", head |-> head, path |-> path, body |-> body]

GetOf(name) == Asking("/api/get", <<"api", "get", name>>, NoBody)

SetOf(name, body) == Setting("/api/set", <<"api", "set", name>>, body)

\* Bands of one and two digits, of three digits up to the limit, and too many.
Few == [lte |-> << <<"B", "3">>, <<"B", "2", "8">> >>, nr |-> << <<"N", "7", "8">> >>]
Full == [lte |-> <<>>, nr |-> << <<"N", "1", "0", "0">>, <<"N", "1", "0", "1">> >>]
Many == [lte |-> << <<"B", "3">>, <<"B", "2", "8">>, <<"B", "4", "1">> >>, nr |-> <<>>]
ResetLte == [lte |-> <<AllBands>>, nr |-> << <<"N", "1">> >>]

LockOf(bands) == SetOf("lockband", [kind |-> "bands", bands |-> bands])

MCFactory == [lte |-> <<"1", ":", "3">>, nr |-> <<"7", "8">>]

MCRequests ==
    {GetOf(n) : n \in {"GMI", "ethernet", "LOCKBAND", "signal"}}
    \cup {Asking("/api/get", <<"api", "get", "atraw">>, Body(k)) : k \in {"bad", "value"}}
    \cup {Asking("/", <<>>, NoBody)}
    \cup {LockOf(Full), SetOf("networkconnect", Body("value"))}

\* The signal in every network there is.
SignalRequests == {GetOf("signal")}

SearchingReport == <<Cell("servingcell", "SEARCH", "", FALSE)>>
LteReport == <<Cell("servingcell", "NOCONN", "LTE", TRUE)>>
SaReport == <<Cell("servingcell", "CONNECT", "NR5G-SA", TRUE)>>
\* On NSA the serving cell's line has no third word, the others another first.
NsaReport == <<Cell("servingcell", "NOCONN", "", FALSE), Cell("LTE", "FDD", "460", TRUE),
               Cell("NR5G-NSA", "460", "01", TRUE)>>

MCServings == {SearchingReport, LteReport, SaReport, NsaReport}

\* The bands are told in digits and colons, as the theorem BandsAreAsTold of
\* DispatchProofs takes them to be.
ASSUME BandsArePlain == PlainTexts

\* The documents name their bands as the theorem BandsAreNamed takes them to.
ASSUME BandsAreProper == ProperBands
=============================================================================
