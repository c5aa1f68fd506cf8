-------------------------------- MODULE Lnurl --------------------------------
(***************************************************************************)
(* get_lnurl_invoice: parse the address, make the client, ask the service  *)
(* (external) for its limits, check the amount, ask it for an invoice.     *)
(* The caller counts in satoshis, the service in millisatoshis.            *)
(***************************************************************************)
EXTENDS Naturals

CONSTANTS
    Amounts,    \* amounts asked for, in satoshis
    Limits,     \* minSendable and maxSendable of services, in millisatoshis
    Word        \* bound: 2^64, made smaller

MsatsPerSat == 1000

VARIABLES
    pc,         \* the step the call is at
    amount,     \* amount_satoshis
    pay,        \* the service's pay response
    answer      \* the result

vars == <<pc, amount, pay, answer>>

Ok(msats) == [kind |-> "Ok", msats |-> msats]
Err(kind) == [kind |-> kind]
InvalidAmount(a, min, max) ==
    [kind |-> "InvalidAmount", amount_satoshis |-> a, min |-> min, max |-> max]

Init ==
    /\ pc = "idle"
    /\ amount = 0
    /\ pay = [min |-> 0, max |-> 0]
    /\ answer = Err("none")

get_lnurl_invoice(a) ==
    /\ pc = "idle"
    /\ amount' = a
    /\ \/ pc' = "client" /\ UNCHANGED answer
       \/ pc' = "idle" /\ answer' = Err("InvalidAddress")
    /\ UNCHANGED pay

create_async_client ==
    /\ pc = "client"
    /\ \/ pc' = "fetch" /\ UNCHANGED answer
       \/ pc' = "idle" /\ answer' = Err("ClientCreationFailed")
    /\ UNCHANGED <<amount, pay>>

\* Another LNURL than a pay response is InvalidResponse.
fetch_lnurl_pay_response ==
    /\ pc = "fetch"
    /\ \/ /\ \E min, max \in Limits : min <= max /\ pay' = [min |-> min, max |-> max]
          /\ pc' = "amount"
          /\ UNCHANGED answer
       \/ /\ pc' = "idle"
          /\ \E kind \in {"RequestFailed", "InvalidResponse"} : answer' = Err(kind)
          /\ UNCHANGED pay
    /\ UNCHANGED amount

\* The product wraps in a release build.
amount_msats == (amount * MsatsPerSat) % Word

ValidateAmount ==
    /\ pc = "amount"
    /\ IF amount_msats < pay.min \/ amount_msats > pay.max
       THEN /\ pc' = "idle"
            /\ answer' = InvalidAmount(amount, pay.min \div MsatsPerSat,
                                       pay.max \div MsatsPerSat)
       ELSE pc' = "invoice" /\ UNCHANGED answer
    /\ UNCHANGED <<amount, pay>>

generate_invoice ==
    /\ pc = "invoice"
    /\ pc' = "idle"
    /\ answer' \in {Ok(amount_msats), Err("InvoiceCreationFailed")}
    /\ UNCHANGED <<amount, pay>>

Next ==
    \/ \E a \in Amounts : get_lnurl_invoice(a)
    \/ create_async_client \/ fetch_lnurl_pay_response \/ ValidateAmount
    \/ generate_invoice

Spec == Init /\ [][Next]_vars

\* errors.rs says of InvalidAmount "Amount {amount_satoshis} is outside allowed
\* range ({min} - {max} sats)": the amount refused is outside the range told.
RefusedIsOutside ==
    answer.kind = "InvalidAmount" =>
        answer.amount_satoshis < answer.min \/ answer.amount_satoshis > answer.max
=============================================================================
