----------------------------- MODULE DNSLookup ------------------------------
(***************************************************************************)
(* lookup.py: a lookup of the routes to a SIP server, of the servers of a  *)
(* service or of an XCAP server, query after query, each of which may time *)
(* out.  What the DNS holds of the domain is chosen together with what is  *)
(* looked up.                                                              *)
(***************************************************************************)
EXTENDS Naturals, Sequences, SequencesExt

CONSTANT Transports    \* of SIP, "udp" and "tls" among them

VARIABLE
  lookup   \* what, form, secure, transport and supported (the question), zone (what the DNS holds), at (the
           \* query), left (transports to try), routes, slow (a query timed out) and result

-----------------------------------------------------------------------------
(* The questions, and the DNS: NAPTR records in their order, SRV records   *)
(* of the transports, those of the service or for XCAP, and the A record.  *)

Orders == {<<>>} \cup {<<t>> : t \in Transports} \cup {s \in Transports \X Transports : s[1] # s[2]}
Question(what, form, secure, transport, supported, naptr, srv, service, a) ==
  [what |-> what, form |-> form, secure |-> secure, transport |-> transport, supported |-> supported,
   zone |-> [naptr |-> naptr, srv |-> srv, service |-> service, a |-> a],
   at |-> "start", left |-> <<>>, routes |-> <<>>, slow |-> FALSE, result |-> "none"]
LookupInit ==
  \E a \in BOOLEAN :
    \/ \E form \in {"address", "port", "transport", "plain"}, secure \in BOOLEAN, transport \in Transports :
         \E supported, naptr \in Orders, srv \in SUBSET Transports :
           lookup = Question("sip", form, secure, transport, supported, naptr, srv, FALSE, a)
    \/ \E what \in {"stun", "msrprelay", "xcap"}, form \in {"address", "plain"}, service \in BOOLEAN :
         lookup = Question(what, form, FALSE, "udp", <<>>, <<>>, {}, service, a)

\* a route, and what record it comes from
Route(transport, from) == [transport |-> transport, from |-> from]
\* post_dns_lookup_notifications: the outcome is told
Returns(routes) == lookup' = [lookup EXCEPT !.at = "done", !.result = "routes", !.routes = routes]
Fails == lookup' = [lookup EXCEPT !.at = "done", !.result = "error"]
Queries(at) == lookup' = [lookup EXCEPT !.at = at]
IsSupported(transport) == transport \in Range(lookup.supported)

-----------------------------------------------------------------------------
(* lookup_sip_proxy.                                                       *)

Starts(what) == lookup.at = "start" /\ lookup.what = what
\* what the URI itself asks for, with an address or a port
Dictated == IF lookup.secure THEN "tls" ELSE lookup.transport
StartsAtAddress ==
  /\ Starts("sip") /\ lookup.form = "address"
  /\ IF IsSupported(Dictated) THEN Returns(<<Route(Dictated, "uri")>>) ELSE Fails
StartsAtPort ==
  /\ Starts("sip") /\ lookup.form = "port"
  /\ IF IsSupported(Dictated) THEN lookup' = [lookup EXCEPT !.at = "a", !.left = <<Dictated>>] ELSE Fails
StartsAtTransport ==
  /\ Starts("sip") /\ lookup.form = "transport"
  /\ IF IsSupported(lookup.transport) /\ (lookup.secure => lookup.transport = "tls")
     THEN lookup' = [lookup EXCEPT !.at = "srv", !.left = <<lookup.transport>>] ELSE Fails
\* altered: a SIPS URI may lead to any transport
StartsPlainAnyway ==
  /\ Starts("sip") /\ lookup.form = "plain"
  /\ IF lookup.supported = <<>> \/ (lookup.secure /\ ~IsSupported("tls")) THEN Fails ELSE Queries("naptr")
StartsPlain ==
  /\ Starts("sip") /\ lookup.form = "plain"
  /\ IF lookup.supported = <<>> \/ (lookup.secure /\ ~IsSupported("tls")) THEN Fails
     ELSE lookup' = [lookup EXCEPT !.at = "naptr", !.supported = IF lookup.secure THEN <<"tls">> ELSE @]

\* _lookup_naptr_record, and then the SRV and A records that each of its records leads to
AsksNAPTR ==
  /\ lookup.at = "naptr" /\ lookup' = [lookup EXCEPT !.at = "pointers", !.left = lookup.zone.naptr]
AsksPointer ==
  /\ lookup.at = "pointers" /\ lookup.left # <<>>
  /\ lookup' = [lookup EXCEPT !.left = Tail(@),
                              !.routes = @ \o IF IsSupported(Head(lookup.left)) /\ Head(lookup.left) \in lookup.zone.srv
                                              THEN <<Route(Head(lookup.left), "naptr")>> ELSE <<>>]
AfterPointers ==
  /\ lookup.at = "pointers" /\ lookup.left = <<>>
  /\ IF lookup.routes # <<>> THEN Returns(lookup.routes)
     ELSE lookup' = [lookup EXCEPT !.at = "eachsrv", !.left = lookup.supported]
\* one query that times out is enough for all of them to be given up
NAPTRTimesOut ==
  /\ lookup.at \in {"naptr", "pointers"}
  /\ lookup' = [lookup EXCEPT !.at = "eachsrv", !.left = lookup.supported, !.routes = <<>>, !.slow = TRUE]

\* _lookup_srv_records for the transport that the URI names; else its A record
AsksSRV ==
  /\ lookup.at = "srv"
  /\ IF Head(lookup.left) \in lookup.zone.srv THEN Returns(<<Route(Head(lookup.left), "srv")>>) ELSE Queries("a")
\* for the next of the supported transports; one that times out is passed over
AsksEachSRV ==
  /\ lookup.at = "eachsrv" /\ lookup.left # <<>>
  /\ lookup' = [lookup EXCEPT !.left = Tail(@),
                              !.routes = @ \o IF Head(lookup.left) \in lookup.zone.srv
                                              THEN <<Route(Head(lookup.left), "srv")>> ELSE <<>>]
EachSRVTimesOut ==
  /\ lookup.at = "eachsrv" /\ lookup.left # <<>>
  /\ lookup' = [lookup EXCEPT !.left = Tail(@), !.slow = TRUE]
AfterEachSRV ==
  LET default == IF lookup.secure THEN "tls" ELSE "udp" IN
  /\ lookup.at = "eachsrv" /\ lookup.left = <<>>
  /\ IF lookup.routes # <<>> THEN Returns(lookup.routes)
     ELSE IF IsSupported(default) THEN lookup' = [lookup EXCEPT !.at = "a", !.left = <<default>>]
     ELSE Fails
\* _lookup_a_records
AsksA ==
  /\ lookup.at = "a"
  /\ IF lookup.zone.a THEN Returns(<<Route(Head(lookup.left), "a")>>) ELSE Fails
TimesOut ==
  /\ lookup.at \in {"srv", "a", "service"}
  /\ lookup' = [lookup EXCEPT !.at = "done", !.slow = TRUE, !.result = "error"]

-----------------------------------------------------------------------------
(* lookup_service and lookup_xcap_server.                                  *)

StartsService ==
  /\ Starts("stun") \/ Starts("msrprelay")
  /\ IF lookup.form = "address" THEN Returns(<<Route("service", "uri")>>) ELSE Queries("service")
StartsXCAP ==
  /\ Starts("xcap") /\ IF lookup.form = "address" THEN Fails ELSE Queries("service")
\* only the relay may be at the domain's own address
AsksService ==
  /\ lookup.at = "service"
  /\ IF lookup.zone.service THEN Returns(<<Route("service", "srv")>>)
     ELSE IF lookup.what = "msrprelay" THEN lookup' = [lookup EXCEPT !.at = "a", !.left = <<"service">>]
     ELSE Fails

LookupNext ==
  \/ StartsAtAddress \/ StartsAtPort \/ StartsAtTransport \/ StartsPlain
  \/ AsksNAPTR \/ AsksPointer \/ AfterPointers \/ NAPTRTimesOut
  \/ AsksSRV \/ AsksEachSRV \/ EachSRVTimesOut \/ AfterEachSRV \/ AsksA \/ TimesOut
  \/ StartsService \/ StartsXCAP \/ AsksService

-----------------------------------------------------------------------------
(* What RFC 3263 has it find.                                              *)

Allowed == {t \in Range(lookup.supported) : lookup.secure => t = "tls"}
Records == {"uri", "naptr", "srv", "a"}
Published == [record \in Records |->
  CASE record = "naptr" -> {t \in Range(lookup.zone.naptr) \cap lookup.zone.srv \cap Allowed : lookup.form = "plain"}
    [] record = "srv" -> {t \in lookup.zone.srv \cap Allowed : lookup.form = "plain" \/ (lookup.form = "transport" /\ t = lookup.transport)}
    [] record = "a" -> {t \in Allowed : /\ lookup.zone.a /\ lookup.form # "address"
                                        /\ \/ lookup.secure /\ lookup.form # "transport"
                                           \/ t = (IF lookup.form = "plain" THEN "udp" ELSE lookup.transport)}
    [] record = "uri" -> {t \in Allowed : lookup.form = "address" /\ (lookup.secure \/ t = lookup.transport)}]
Better == [r \in Records |->
             CASE r = "a" -> {"uri", "naptr", "srv"} [] r = "srv" -> {"uri", "naptr"} [] OTHER -> {}]

\* Routes that are found are published for transports that may be used, all of one kind of record, each
\* once and in the order of the domain or of the settings; and when no query timed out they are all there are
\* of the best kind, and a lookup only fails when there are none (lookup_sip_proxy).
RoutesAsPublished ==
  lookup.what = "sip" /\ lookup.at = "done" =>
    /\ \A i, j \in DOMAIN lookup.routes :
         /\ lookup.routes[i].from = lookup.routes[j].from
         /\ lookup.routes[i].transport \in Published[lookup.routes[i].from]
         /\ i < j => LET order == IF lookup.routes[i].from = "naptr" THEN lookup.zone.naptr ELSE lookup.supported IN
              \E m, n \in DOMAIN order : m < n /\ order[m] = lookup.routes[i].transport /\ order[n] = lookup.routes[j].transport
    /\ lookup.result = "routes" => lookup.routes # <<>>
    /\ ~lookup.slow =>
         LET found == {lookup.routes[i].transport : i \in DOMAIN lookup.routes} IN
         IF lookup.result = "error" THEN \A r \in Records : Published[r] = {}
         ELSE LET from == lookup.routes[1].from IN
              found = Published[from] /\ \A r \in Better[from] : Published[r] = {}
=============================================================================
