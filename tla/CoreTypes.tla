----------------------------- MODULE CoreTypes ------------------------------
(***************************************************************************)
(* The same types and functions as the Rust core declares them, in the     *)
(* order of its structs, enums and exported functions and with the names   *)
(* the binding generator gives them in Python: the layouts in which the    *)
(* core's scaffolding reads arguments and writes results.                  *)
(***************************************************************************)
EXTENDS UniffiTypes

AddressInfo == Record(<<"address" :> Str, "path" :> Str, "transfers" :> UInt32>>)
AccountAddresses == Record(<<
    "used" :> Sequence(AddressInfo), "unused" :> Sequence(AddressInfo),
    "change" :> Sequence(AddressInfo)>>)
AccountInfoDetails == Enum(<<"BASIC", "TOKENS", "TOKEN_BALANCES", "TXS">>)
AccountInfoResponse == Record(<<
    "id" :> UInt32, "path" :> Str, "descriptor" :> Str, "legacy_xpub" :> Optional(Str),
    "balance" :> Str, "available_balance" :> Str>>)
AccountUtxo == Record(<<
    "txid" :> Str, "vout" :> UInt32, "amount" :> Str, "block_height" :> Optional(UInt32),
    "address" :> Str, "path" :> Str, "confirmations" :> Optional(UInt32)>>)
PaymentType == Enum(<<"SENT", "RECEIVED">>)
OnchainActivity == Record(<<
    "id" :> Str, "tx_type" :> PaymentType, "tx_id" :> Str, "value" :> UInt64,
    "fee" :> UInt64, "fee_rate" :> UInt64, "address" :> Str, "confirmed" :> StrictBool,
    "timestamp" :> UInt64, "is_boosted" :> StrictBool, "is_transfer" :> StrictBool,
    "does_exist" :> StrictBool, "confirm_timestamp" :> Optional(UInt64),
    "channel_id" :> Optional(Str), "transfer_tx_id" :> Optional(Str),
    "created_at" :> Optional(UInt64), "updated_at" :> Optional(UInt64)>>)
PaymentState == Enum(<<"PENDING", "SUCCEEDED", "FAILED">>)
LightningActivity == Record(<<
    "id" :> Str, "tx_type" :> PaymentType, "status" :> PaymentState, "value" :> UInt64,
    "fee" :> Optional(UInt64), "invoice" :> Str, "message" :> Str, "timestamp" :> UInt64,
    "preimage" :> Optional(Str), "created_at" :> Optional(UInt64),
    "updated_at" :> Optional(UInt64)>>)
Activity == Union(<<
    "ONCHAIN" :> <<"0" :> OnchainActivity>>, "LIGHTNING" :> <<"0" :> LightningActivity>>>>)
ActivityError == Union(<<
    "InvalidActivity" :> <<"error_details" :> Str>>,
    "InitializationError" :> <<"error_details" :> Str>>,
    "InsertError" :> <<"error_details" :> Str>>,
    "RetrievalError" :> <<"error_details" :> Str>>,
    "DataError" :> <<"error_details" :> Str>>,
    "ConnectionError" :> <<"error_details" :> Str>>,
    "SerializationError" :> <<"error_details" :> Str>>>>)
ActivityFilter == Enum(<<"ALL", "LIGHTNING", "ONCHAIN">>)
ActivityType == Enum(<<"ONCHAIN", "LIGHTNING">>)
AddressError == Enum(<<
    "InvalidAddress", "InvalidNetwork", "MnemonicGenerationFailed", "InvalidMnemonic",
    "AddressDerivationFailed">>)
AddressResponse == Record(<<
    "address" :> Str, "path" :> Sequence(UInt32), "serialized_path" :> Str>>)
AddressType == Enum(<<"P2PKH", "P2SH", "P2WPKH", "P2WSH", "P2TR", "UNKNOWN">>)
AmountUnit == Enum(<<"BITCOIN", "MILLI_BITCOIN", "MICRO_BITCOIN", "SATOSHI">>)
BitcoinNetworkEnum == Enum(<<"MAINNET", "TESTNET", "SIGNET", "REGTEST">>)
BtChannelOrderErrorType == Enum(<<
    "WRONG_ORDER_STATE", "PEER_NOT_REACHABLE", "CHANNEL_REJECTED_BY_DESTINATION",
    "CHANNEL_REJECTED_BY_LSP", "BLOCKTANK_NOT_READY">>)
BlocktankError == Union(<<
    "HttpClient" :> <<"error_details" :> Str>>,
    "BlocktankClient" :> <<"error_details" :> Str>>,
    "InvalidBlocktank" :> <<"error_details" :> Str>>,
    "InitializationError" :> <<"error_details" :> Str>>,
    "InsertError" :> <<"error_details" :> Str>>,
    "RetrievalError" :> <<"error_details" :> Str>>,
    "DataError" :> <<"error_details" :> Str>>,
    "ConnectionError" :> <<"error_details" :> Str>>,
    "SerializationError" :> <<"error_details" :> Str>>,
    "ChannelOpen" :> <<"error_type" :> BtChannelOrderErrorType, "error_details" :> Str>>,
    "OrderState" :> <<"error_details" :> Str>>,
    "InvalidParameter" :> <<"error_details" :> Str>>,
    "DatabaseError" :> <<"error_details" :> Str>>>>)
BtBolt11InvoiceState == Enum(<<"PENDING", "HOLDING", "PAID", "CANCELED">>)
BtOpenChannelState == Enum(<<"OPENING", "OPEN", "CLOSED">>)
BtOrderState == Enum(<<"CREATED", "EXPIRED", "OPEN", "CLOSED">>)
BtOrderState2 == Enum(<<"CREATED", "EXPIRED", "EXECUTED", "PAID">>)
BtPaymentState == Enum(<<
    "CREATED", "PARTIALLY_PAID", "PAID", "REFUNDED", "REFUND_AVAILABLE">>)
BtPaymentState2 == Enum(<<"CREATED", "PAID", "REFUNDED", "REFUND_AVAILABLE", "CANCELED">>)
CJitStateEnum == Enum(<<"CREATED", "COMPLETED", "EXPIRED", "FAILED">>)
CoinPurchaseMemo == Record(<<
    "coin_type" :> UInt32, "amount" :> UInt64, "address" :> Str, "mac" :> Str>>)
DeviceParams == Record(<<"path" :> Optional(Str), "instance" :> Optional(UInt32)>>)
CommonParams == Record(<<
    "device" :> Optional(DeviceParams), "use_empty_passphrase" :> Optional(StrictBool),
    "allow_seedless_device" :> Optional(StrictBool), "skip_final_reload" :> Optional(StrictBool)>>)
ComposeAccount == Record(<<
    "path" :> Str, "addresses" :> AccountAddresses, "utxo" :> Sequence(AccountUtxo)>>)
ComposeOutput == Union(<<
    "REGULAR" :> <<"amount" :> Str, "address" :> Str>>, "SEND_MAX" :> <<"address" :> Str>>,
    "OP_RETURN" :> <<"data_hex" :> Str>>, "PAYMENT_NO_ADDRESS" :> <<"amount" :> Str>>,
    "SEND_MAX_NO_ADDRESS" :> <<>>>>)
SignedTransactionResponse == Record(<<
    "signatures" :> Sequence(Str), "serialized_tx" :> Str, "txid" :> Optional(Str)>>)
ScriptType == Enum(<<
    "SPEND_ADDRESS", "SPEND_MULTISIG", "SPEND_WITNESS", "SPEND_P2SH_WITNESS",
    "SPEND_TAPROOT", "EXTERNAL", "PAY_TO_ADDRESS", "PAY_TO_SCRIPT_HASH", "PAY_TO_MULTISIG",
    "PAY_TO_WITNESS", "PAY_TO_P2SH_WITNESS", "PAY_TO_TAPROOT", "PAY_TO_OP_RETURN">>)
PrecomposedInput == Record(<<
    "address_n" :> Sequence(UInt32), "amount" :> Str, "prev_hash" :> Str,
    "prev_index" :> UInt32, "script_type" :> ScriptType>>)
PrecomposedOutput == Record(<<
    "address_n" :> Optional(Sequence(UInt32)), "amount" :> Str, "address" :> Optional(Str),
    "script_type" :> ScriptType>>)
PrecomposedTransaction == Record(<<
    "tx_type" :> Str, "total_spent" :> Optional(Str), "fee" :> Optional(Str),
    "fee_per_byte" :> Optional(Str), "bytes" :> Optional(UInt32),
    "inputs" :> Optional(Sequence(PrecomposedInput)),
    "outputs" :> Optional(Sequence(PrecomposedOutput)),
    "outputs_permutation" :> Optional(Sequence(UInt32))>>)
ComposeTransactionResponse == Union(<<
    "SIGNED_TRANSACTION" :> <<"0" :> SignedTransactionResponse>>,
    "PRECOMPOSED_TRANSACTIONS" :> <<"0" :> Sequence(PrecomposedTransaction)>>>>)
CreateCjitOptions == Record(<<
    "source" :> Optional(Str), "discount_code" :> Optional(Str)>>)
CreateOrderOptions == Record(<<
    "client_balance_sat" :> UInt64, "lsp_node_id" :> Optional(Str), "coupon_code" :> Str,
    "source" :> Optional(Str), "discount_code" :> Optional(Str), "zero_conf" :> StrictBool,
    "zero_conf_payment" :> Optional(StrictBool), "zero_reserve" :> StrictBool,
    "client_node_id" :> Optional(Str), "signature" :> Optional(Str),
    "timestamp" :> Optional(Str), "refund_onchain_address" :> Optional(Str),
    "announce_channel" :> StrictBool>>)
DbError == Union(<<
    "DbActivityError" :> <<"error_details" :> ActivityError>>,
    "DbBlocktankError" :> <<"error_details" :> BlocktankError>>,
    "InitializationError" :> <<"error_details" :> Str>>>>)
DecodingError == Union(<<
    "InvalidFormat" :> <<>>, "InvalidNetwork" :> <<>>, "InvalidAmount" :> <<>>,
    "InvalidLnurlPayAmount" :> <<"amount_satoshis" :> UInt64, "min" :> UInt64, "max" :> UInt64>>,
    "InvalidTimestamp" :> <<>>, "InvalidChecksum" :> <<>>, "InvalidResponse" :> <<>>,
    "UnsupportedType" :> <<>>, "InvalidAddress" :> <<>>, "RequestFailed" :> <<>>,
    "ClientCreationFailed" :> <<>>, "InvoiceCreationFailed" :> <<"error_message" :> Str>>>>)
DeepLinkResult == Record(<<"url" :> Str, "request_id" :> Str>>)
DefaultAccountType == Enum(<<"NORMAL", "SEGWIT", "LEGACY">>)
ErrorData == Record(<<"error_details" :> Str>>)
FeatureResponse == Record(<<
    "vendor" :> Str, "major_version" :> UInt32, "minor_version" :> UInt32,
    "patch_version" :> UInt32, "device_id" :> Str,
    "capabilities" :> Optional(Sequence(Str))>>)
FeeLevel == Record(<<
    "fee_per_unit" :> Str, "base_fee" :> Optional(UInt32),
    "floor_base_fee" :> Optional(StrictBool)>>)
FeeRates == Record(<<"fast" :> UInt32, "mid" :> UInt32, "slow" :> UInt32>>)
FundingTx == Record(<<"id" :> Str, "vout" :> UInt64>>)
GetAddressResponse == Record(<<"address" :> Str, "path" :> Str, "public_key" :> Str>>)
GetAddressesResponse == Record(<<"addresses" :> Sequence(GetAddressResponse)>>)
HDNodeType == Record(<<
    "depth" :> UInt32, "fingerprint" :> UInt32, "child_num" :> UInt32, "chain_code" :> Str,
    "public_key" :> Str, "private_key" :> Optional(Str),
    "address_n" :> Optional(Sequence(UInt32))>>)
HDNodeTypeOrString == Union(<<
    "STRING" :> <<"0" :> Str>>, "NODE" :> <<"0" :> HDNodeType>>>>)
HDNodePathType == Record(<<
    "node" :> HDNodeTypeOrString, "address_n" :> Sequence(UInt32)>>)
IBt0ConfMinTxFeeWindow == Record(<<
    "sat_per_vbyte" :> Double, "validity_ends_at" :> Str>>)
IBtBolt11Invoice == Record(<<
    "request" :> Str, "state" :> BtBolt11InvoiceState, "expires_at" :> Str,
    "updated_at" :> Str>>)
IBtChannelClose == Record(<<
    "tx_id" :> Str, "close_type" :> Str, "initiator" :> Str, "registered_at" :> Str>>)
IBtChannel == Record(<<
    "state" :> BtOpenChannelState, "lsp_node_pubkey" :> Str, "client_node_pubkey" :> Str,
    "announce_channel" :> StrictBool, "funding_tx" :> FundingTx, "closing_tx_id" :> Optional(Str),
    "close" :> Optional(IBtChannelClose), "short_channel_id" :> Optional(Str)>>)
IBtEstimateFeeResponse == Record(<<
    "fee_sat" :> UInt64, "min_0_conf_tx_fee" :> IBt0ConfMinTxFeeWindow>>)
IBtEstimateFeeResponse2 == Record(<<
    "fee_sat" :> UInt64, "network_fee_sat" :> UInt64, "service_fee_sat" :> UInt64,
    "min_0_conf_tx_fee" :> IBt0ConfMinTxFeeWindow>>)
ILspNode == Record(<<
    "alias" :> Str, "pubkey" :> Str, "connection_strings" :> Sequence(Str),
    "readonly" :> Optional(StrictBool)>>)
IBtInfoOptions == Record(<<
    "min_channel_size_sat" :> UInt64, "max_channel_size_sat" :> UInt64,
    "min_expiry_weeks" :> UInt32, "max_expiry_weeks" :> UInt32,
    "min_payment_confirmations" :> UInt32, "min_high_risk_payment_confirmations" :> UInt32,
    "max_0_conf_client_balance_sat" :> UInt64, "max_client_balance_sat" :> UInt64>>)
IBtInfoVersions == Record(<<"http" :> Str, "btc" :> Str, "ln2" :> Str>>)
IBtInfoOnchain == Record(<<"network" :> BitcoinNetworkEnum, "fee_rates" :> FeeRates>>)
IBtInfo == Record(<<
    "version" :> UInt32, "nodes" :> Sequence(ILspNode), "options" :> IBtInfoOptions,
    "versions" :> IBtInfoVersions, "onchain" :> IBtInfoOnchain>>)
IBtOnchainTransaction == Record(<<
    "amount_sat" :> UInt64, "tx_id" :> Str, "vout" :> UInt32,
    "block_height" :> Optional(UInt32), "block_confirmation_count" :> UInt32,
    "fee_rate_sat_per_vbyte" :> Double, "confirmed" :> StrictBool,
    "suspicious_0_conf_reason" :> Str>>)
IBtOnchainTransactions == Record(<<
    "address" :> Str, "confirmed_sat" :> UInt64, "required_confirmations" :> UInt32,
    "transactions" :> Sequence(IBtOnchainTransaction)>>)
ManualRefundStateEnum == Enum(<<"CREATED", "APPROVED", "REJECTED", "SENT">>)
IManualRefund == Record(<<
    "amount_sat" :> UInt64, "target" :> Str, "state" :> ManualRefundStateEnum,
    "created_by_name" :> Str, "voted_by_name" :> Optional(Str), "reason" :> Optional(Str),
    "target_type" :> Str>>)
IBtPayment == Record(<<
    "state" :> BtPaymentState, "state2" :> BtPaymentState2, "paid_sat" :> UInt64,
    "bolt11_invoice" :> IBtBolt11Invoice, "onchain" :> IBtOnchainTransactions,
    "is_manually_paid" :> Optional(StrictBool),
    "manual_refunds" :> Optional(Sequence(IManualRefund))>>)
IDiscount == Record(<<
    "code" :> Str, "absolute_sat" :> UInt64, "relative" :> Double,
    "overall_sat" :> UInt64>>)
IBtOrder == Record(<<
    "id" :> Str, "state" :> BtOrderState, "state2" :> BtOrderState2, "fee_sat" :> UInt64,
    "network_fee_sat" :> UInt64, "service_fee_sat" :> UInt64, "lsp_balance_sat" :> UInt64,
    "client_balance_sat" :> UInt64, "zero_conf" :> StrictBool, "zero_reserve" :> StrictBool,
    "client_node_id" :> Optional(Str), "channel_expiry_weeks" :> UInt32,
    "channel_expires_at" :> Str, "order_expires_at" :> Str,
    "channel" :> Optional(IBtChannel), "lsp_node" :> ILspNode, "lnurl" :> Optional(Str),
    "payment" :> IBtPayment, "coupon_code" :> Optional(Str), "source" :> Optional(Str),
    "discount" :> Optional(IDiscount), "updated_at" :> Str, "created_at" :> Str>>)
ICJitEntry == Record(<<
    "id" :> Str, "state" :> CJitStateEnum, "fee_sat" :> UInt64, "network_fee_sat" :> UInt64,
    "service_fee_sat" :> UInt64, "channel_size_sat" :> UInt64,
    "channel_expiry_weeks" :> UInt32, "channel_open_error" :> Optional(Str),
    "node_id" :> Str, "invoice" :> IBtBolt11Invoice, "channel" :> Optional(IBtChannel),
    "lsp_node" :> ILspNode, "coupon_code" :> Str, "source" :> Optional(Str),
    "discount" :> Optional(IDiscount), "expires_at" :> Str, "updated_at" :> Str,
    "created_at" :> Str>>)
NetworkType == Enum(<<"BITCOIN", "TESTNET", "REGTEST", "SIGNET">>)
LightningInvoice == Record(<<
    "bolt11" :> Str, "payment_hash" :> Bytes, "amount_satoshis" :> UInt64,
    "timestamp_seconds" :> UInt64, "expiry_seconds" :> UInt64, "is_expired" :> StrictBool,
    "description" :> Optional(Str), "network_type" :> NetworkType,
    "payee_node_id" :> Optional(Bytes)>>)
LnurlAddressData == Record(<<"uri" :> Str, "domain" :> Str, "username" :> Str>>)
LnurlAuthData == Record(<<"uri" :> Str, "tag" :> Str, "k1" :> Str>>)
LnurlChannelData == Record(<<"uri" :> Str, "callback" :> Str, "k1" :> Str, "tag" :> Str>>)
LnurlError == Union(<<
    "InvalidAddress" :> <<>>, "ClientCreationFailed" :> <<>>, "RequestFailed" :> <<>>,
    "InvalidResponse" :> <<>>,
    "InvalidAmount" :> <<"amount_satoshis" :> UInt64, "min" :> UInt64, "max" :> UInt64>>,
    "InvoiceCreationFailed" :> <<"error_details" :> Str>>>>)
LnurlPayData == Record(<<
    "uri" :> Str, "callback" :> Str, "min_sendable" :> UInt64, "max_sendable" :> UInt64,
    "metadata_str" :> Str, "comment_allowed" :> Optional(UInt32), "allows_nostr" :> StrictBool,
    "nostr_pubkey" :> Optional(Bytes)>>)
LnurlWithdrawData == Record(<<
    "uri" :> Str, "callback" :> Str, "k1" :> Str, "default_description" :> Str,
    "min_withdrawable" :> Optional(UInt64), "max_withdrawable" :> UInt64, "tag" :> Str>>)
MessageSignatureResponse == Record(<<"address" :> Str, "signature" :> Str>>)
MultisigRedeemScriptType == Record(<<
    "pubkeys" :> Sequence(HDNodePathType), "signatures" :> Sequence(Str), "m" :> UInt32,
    "nodes" :> Optional(Sequence(HDNodeType)), "pubkeys_order" :> Optional(UInt8)>>)
Network == Enum(<<"BITCOIN", "TESTNET", "TESTNET4", "SIGNET", "REGTEST">>)
OnChainInvoice == Record(<<
    "address" :> Str, "amount_satoshis" :> UInt64, "label" :> Optional(Str),
    "message" :> Optional(Str), "params" :> Optional(MapStringString)>>)
TextMemo == Record(<<"text" :> Str>>)
RefundMemo == Record(<<"address" :> Str, "mac" :> Str>>)
PaymentRequestMemo == Record(<<
    "text_memo" :> Optional(TextMemo), "refund_memo" :> Optional(RefundMemo),
    "coin_purchase_memo" :> Optional(CoinPurchaseMemo)>>)
PubkyAuth == Record(<<"data" :> Str>>)
PublicKeyResponse == Record(<<
    "path" :> Sequence(UInt32), "serialized_path" :> Str, "xpub" :> Str,
    "xpub_segwit" :> Optional(Str), "chain_code" :> Str, "child_num" :> UInt32,
    "public_key" :> Str, "fingerprint" :> UInt32, "depth" :> UInt32,
    "descriptor" :> Optional(Str)>>)
RefTxInput == Record(<<
    "prev_hash" :> Str, "prev_index" :> UInt32, "script_sig" :> Str, "sequence" :> UInt32>>)
RefTxOutput == Record(<<"amount" :> UInt64, "script_pubkey" :> Str>>)
RefTransaction == Record(<<
    "hash" :> Str, "version" :> Optional(UInt32), "inputs" :> Sequence(RefTxInput),
    "bin_outputs" :> Sequence(RefTxOutput), "lock_time" :> Optional(UInt32),
    "expiry" :> Optional(UInt32), "version_group_id" :> Optional(UInt32),
    "overwintered" :> Optional(StrictBool), "timestamp" :> Optional(UInt32),
    "branch_id" :> Optional(UInt32), "extra_data" :> Optional(Str)>>)
Scanner == Union(<<
    "ON_CHAIN" :> <<"invoice" :> OnChainInvoice>>,
    "LIGHTNING" :> <<"invoice" :> LightningInvoice>>, "PUBKY_AUTH" :> <<"data" :> Str>>,
    "LNURL_CHANNEL" :> <<"data" :> LnurlChannelData>>,
    "LNURL_AUTH" :> <<"data" :> LnurlAuthData>>,
    "LNURL_WITHDRAW" :> <<"data" :> LnurlWithdrawData>>,
    "LNURL_ADDRESS" :> <<"data" :> LnurlAddressData>>,
    "LNURL_PAY" :> <<"data" :> LnurlPayData>>,
    "NODE_ID" :> <<"url" :> Str, "network" :> NetworkType>>,
    "TREASURE_HUNT" :> <<"chest_id" :> Str>>, "ORANGE_TICKET" :> <<"ticket_id" :> Str>>>>)
SortDirection == Enum(<<"ASC", "DESC">>)
TokenFilter == Enum(<<"NONZERO", "USED", "DERIVED">>)
TrezorConnectError == Union(<<
    "SerdeError" :> <<"error_details" :> Str>>, "UrlError" :> <<"error_details" :> Str>>,
    "EnvironmentError" :> <<"error_details" :> Str>>, "Other" :> <<"error_details" :> Str>>,
    "ClientError" :> <<"error_details" :> Str>>>>)
TrezorEnvironment == Enum(<<"PRODUCTION", "DEVELOPMENT", "LOCAL">>)
VerifyMessageResponse == Record(<<"message" :> Str>>)
TrezorResponsePayload == Union(<<
    "FEATURES" :> <<"0" :> FeatureResponse>>, "ADDRESS" :> <<"0" :> AddressResponse>>,
    "PUBLIC_KEY" :> <<"0" :> PublicKeyResponse>>,
    "ACCOUNT_INFO" :> <<"0" :> AccountInfoResponse>>,
    "COMPOSE_TRANSACTION" :> <<"0" :> ComposeTransactionResponse>>,
    "VERIFY_MESSAGE" :> <<"0" :> VerifyMessageResponse>>,
    "MESSAGE_SIGNATURE" :> <<"0" :> MessageSignatureResponse>>,
    "SIGNED_TRANSACTION" :> <<"0" :> SignedTransactionResponse>>>>)
TxAckPaymentRequest == Record(<<
    "nonce" :> Optional(Str), "recipient_name" :> Str,
    "memos" :> Optional(Sequence(PaymentRequestMemo)), "amount" :> Optional(UInt64),
    "signature" :> Str>>)
TxInputType == Record(<<
    "prev_hash" :> Str, "prev_index" :> UInt32, "amount" :> UInt64,
    "sequence" :> Optional(UInt32), "address_n" :> Optional(Sequence(UInt32)),
    "script_type" :> Optional(ScriptType), "multisig" :> Optional(MultisigRedeemScriptType),
    "script_pubkey" :> Optional(Str), "script_sig" :> Optional(Str),
    "witness" :> Optional(Str), "ownership_proof" :> Optional(Str),
    "commitment_data" :> Optional(Str), "orig_hash" :> Optional(Str),
    "orig_index" :> Optional(UInt32), "coinjoin_flags" :> Optional(UInt32)>>)
TxOutputType == Record(<<
    "address" :> Optional(Str), "address_n" :> Optional(Sequence(UInt32)),
    "amount" :> UInt64, "script_type" :> ScriptType,
    "multisig" :> Optional(MultisigRedeemScriptType), "op_return_data" :> Optional(Str),
    "orig_hash" :> Optional(Str), "orig_index" :> Optional(UInt32),
    "payment_req_index" :> Optional(UInt32)>>)
UnlockPath == Record(<<"address_n" :> Sequence(UInt32), "mac" :> Optional(Str)>>)
ValidationResult == Record(<<
    "address" :> Str, "network" :> NetworkType, "address_type" :> AddressType>>)
WordCount == Enum(<<"WORDS12", "WORDS15", "WORDS18", "WORDS21", "WORDS24">>)
XrpMarker == Record(<<"ledger" :> UInt64, "seq" :> UInt64>>)

(* Functions: arguments, result, error. *)

add_tags == Function(<<"activity_id" :> Str, "tags" :> Sequence(Str)>>, Void, ActivityError)
create_cjit_entry == AsyncFunction(<<
    "channel_size_sat" :> UInt64, "invoice_sat" :> UInt64, "invoice_description" :> Str,
    "node_id" :> Str, "channel_expiry_weeks" :> UInt32,
    "options" :> Optional(CreateCjitOptions)>>, ICJitEntry, BlocktankError)
create_order == AsyncFunction(<<
    "lsp_balance_sat" :> UInt64, "channel_expiry_weeks" :> UInt32,
    "options" :> Optional(CreateOrderOptions)>>, IBtOrder, BlocktankError)
decode == AsyncFunction(<<"invoice" :> Str>>, Scanner, DecodingError)
delete_activity_by_id == Function(<<"activity_id" :> Str>>, StrictBool, ActivityError)
derive_bitcoin_address == Function(<<
    "mnemonic_phrase" :> Str, "derivation_path_str" :> Optional(Str),
    "network" :> Optional(Network),
    "bip39_passphrase" :> Optional(Str)>>, GetAddressResponse, AddressError)
derive_bitcoin_addresses == Function(<<
    "mnemonic_phrase" :> Str, "derivation_path_str" :> Optional(Str),
    "network" :> Optional(Network), "bip39_passphrase" :> Optional(Str),
    "is_change" :> Optional(StrictBool), "start_index" :> Optional(UInt32),
    "count" :> Optional(UInt32)>>, GetAddressesResponse, AddressError)
derive_private_key == Function(<<
    "mnemonic_phrase" :> Str, "derivation_path_str" :> Optional(Str),
    "network" :> Optional(Network),
    "bip39_passphrase" :> Optional(Str)>>, Str, AddressError)
estimate_order_fee == AsyncFunction(<<
    "lsp_balance_sat" :> UInt64, "channel_expiry_weeks" :> UInt32,
    "options" :> Optional(CreateOrderOptions)>>, IBtEstimateFeeResponse, BlocktankError)
estimate_order_fee_full == AsyncFunction(<<
    "lsp_balance_sat" :> UInt64, "channel_expiry_weeks" :> UInt32,
    "options" :> Optional(CreateOrderOptions)>>, IBtEstimateFeeResponse2, BlocktankError)
generate_mnemonic == Function(<<"word_count" :> Optional(WordCount)>>, Str, AddressError)
get_activities == Function(<<
    "filter" :> Optional(ActivityFilter), "tx_type" :> Optional(PaymentType),
    "tags" :> Optional(Sequence(Str)), "search" :> Optional(Str),
    "min_date" :> Optional(UInt64), "max_date" :> Optional(UInt64),
    "limit" :> Optional(UInt32),
    "sort_direction" :> Optional(SortDirection)>>, Sequence(Activity), ActivityError)
get_activities_by_tag == Function(<<
    "tag" :> Str, "limit" :> Optional(UInt32),
    "sort_direction" :> Optional(SortDirection)>>, Sequence(Activity), ActivityError)
get_activity_by_id == Function(<<"activity_id" :> Str>>, Optional(Activity), ActivityError)
get_all_unique_tags == Function(<<>>, Sequence(Str), ActivityError)
get_cjit_entries == AsyncFunction(<<
    "entry_ids" :> Optional(Sequence(Str)), "filter" :> Optional(CJitStateEnum),
    "refresh" :> StrictBool>>, Sequence(ICJitEntry), BlocktankError)
get_info == AsyncFunction(<<
    "refresh" :> Optional(StrictBool)>>, Optional(IBtInfo), BlocktankError)
get_lnurl_invoice == AsyncFunction(<<
    "address" :> Str, "amount_satoshis" :> UInt64>>, Str, LnurlError)
get_min_zero_conf_tx_fee == AsyncFunction(<<
    "order_id" :> Str>>, IBt0ConfMinTxFeeWindow, BlocktankError)
get_orders == AsyncFunction(<<
    "order_ids" :> Optional(Sequence(Str)), "filter" :> Optional(BtOrderState2),
    "refresh" :> StrictBool>>, Sequence(IBtOrder), BlocktankError)
get_tags == Function(<<"activity_id" :> Str>>, Sequence(Str), ActivityError)
init_db == Function(<<"base_path" :> Str>>, Str, DbError)
insert_activity == Function(<<"activity" :> Activity>>, Void, ActivityError)
open_channel == AsyncFunction(<<
    "order_id" :> Str, "connection_string" :> Str>>, IBtOrder, BlocktankError)
refresh_active_cjit_entries == AsyncFunction(<<>>, Sequence(ICJitEntry), BlocktankError)
refresh_active_orders == AsyncFunction(<<>>, Sequence(IBtOrder), BlocktankError)
register_device == AsyncFunction(<<
    "device_token" :> Str, "public_key" :> Str, "features" :> Sequence(Str),
    "node_id" :> Str, "iso_timestamp" :> Str, "signature" :> Str,
    "is_production" :> Optional(StrictBool),
    "custom_url" :> Optional(Str)>>, Str, BlocktankError)
regtest_close_channel == AsyncFunction(<<
    "funding_tx_id" :> Str, "vout" :> UInt32,
    "force_close_after_s" :> Optional(UInt64)>>, Str, BlocktankError)
regtest_deposit == AsyncFunction(<<
    "address" :> Str, "amount_sat" :> Optional(UInt64)>>, Str, BlocktankError)
regtest_get_payment == AsyncFunction(<<
    "payment_id" :> Str>>, IBtBolt11Invoice, BlocktankError)
regtest_mine == AsyncFunction(<<"count" :> Optional(UInt32)>>, Void, BlocktankError)
regtest_pay == AsyncFunction(<<
    "invoice" :> Str, "amount_sat" :> Optional(UInt64)>>, Str, BlocktankError)
remove_tags == Function(<<
    "activity_id" :> Str, "tags" :> Sequence(Str)>>, Void, ActivityError)
test_notification == AsyncFunction(<<
    "device_token" :> Str, "secret_message" :> Str, "notification_type" :> Optional(Str),
    "custom_url" :> Optional(Str)>>, Str, BlocktankError)
trezor_compose_transaction == Function(<<
    "outputs" :> Sequence(ComposeOutput), "coin" :> Str, "callback_url" :> Str,
    "request_id" :> Optional(Str), "trezor_environment" :> Optional(TrezorEnvironment),
    "push" :> Optional(StrictBool), "sequence" :> Optional(UInt32),
    "account" :> Optional(ComposeAccount), "fee_levels" :> Optional(Sequence(FeeLevel)),
    "skip_permutation" :> Optional(StrictBool),
    "common" :> Optional(CommonParams)>>, DeepLinkResult, TrezorConnectError)
trezor_get_account_info == Function(<<
    "coin" :> Str, "callback_url" :> Str, "request_id" :> Optional(Str),
    "trezor_environment" :> Optional(TrezorEnvironment), "path" :> Optional(Str),
    "descriptor" :> Optional(Str), "details" :> Optional(AccountInfoDetails),
    "tokens" :> Optional(TokenFilter), "page" :> Optional(UInt32),
    "page_size" :> Optional(UInt32), "from" :> Optional(UInt32), "to" :> Optional(UInt32),
    "gap" :> Optional(UInt32), "contract_filter" :> Optional(Str),
    "marker" :> Optional(XrpMarker), "default_account_type" :> Optional(DefaultAccountType),
    "suppress_backup_warning" :> Optional(StrictBool),
    "common" :> Optional(CommonParams)>>, DeepLinkResult, TrezorConnectError)
trezor_get_address == Function(<<
    "path" :> Str, "callback_url" :> Str, "request_id" :> Optional(Str),
    "trezor_environment" :> Optional(TrezorEnvironment), "address" :> Optional(Str),
    "show_on_trezor" :> Optional(StrictBool), "chunkify" :> Optional(StrictBool),
    "use_event_listener" :> Optional(StrictBool), "coin" :> Optional(Str),
    "cross_chain" :> Optional(StrictBool), "multisig" :> Optional(MultisigRedeemScriptType),
    "script_type" :> Optional(Str), "unlock_path" :> Optional(UnlockPath),
    "common" :> Optional(CommonParams)>>, DeepLinkResult, TrezorConnectError)
trezor_get_features == Function(<<
    "callback_url" :> Str, "request_id" :> Optional(Str),
    "trezor_environment" :> Optional(TrezorEnvironment)>>, DeepLinkResult, TrezorConnectError)
trezor_handle_deep_link == Function(<<
    "callback_url" :> Str>>, TrezorResponsePayload, TrezorConnectError)
trezor_sign_message == Function(<<
    "path" :> Str, "message" :> Str, "callback_url" :> Str, "request_id" :> Optional(Str),
    "trezor_environment" :> Optional(TrezorEnvironment), "coin" :> Optional(Str),
    "hex" :> Optional(StrictBool), "no_script_type" :> Optional(StrictBool),
    "common" :> Optional(CommonParams)>>, DeepLinkResult, TrezorConnectError)
trezor_sign_transaction == Function(<<
    "coin" :> Str, "inputs" :> Sequence(TxInputType), "outputs" :> Sequence(TxOutputType),
    "callback_url" :> Str, "request_id" :> Optional(Str),
    "trezor_environment" :> Optional(TrezorEnvironment),
    "ref_txs" :> Optional(Sequence(RefTransaction)),
    "payment_requests" :> Optional(Sequence(TxAckPaymentRequest)),
    "locktime" :> Optional(UInt32), "version" :> Optional(UInt32),
    "expiry" :> Optional(UInt32), "version_group_id" :> Optional(UInt32),
    "overwintered" :> Optional(StrictBool), "timestamp" :> Optional(UInt32),
    "branch_id" :> Optional(UInt32), "push" :> Optional(StrictBool),
    "amount_unit" :> Optional(AmountUnit), "unlock_path" :> Optional(UnlockPath),
    "serialize" :> Optional(StrictBool), "chunkify" :> Optional(StrictBool),
    "common" :> Optional(CommonParams)>>, DeepLinkResult, TrezorConnectError)
trezor_verify_message == Function(<<
    "address" :> Str, "signature" :> Str, "message" :> Str, "coin" :> Str,
    "callback_url" :> Str, "request_id" :> Optional(Str),
    "trezor_environment" :> Optional(TrezorEnvironment), "hex" :> Optional(StrictBool),
    "common" :> Optional(CommonParams)>>, DeepLinkResult, TrezorConnectError)
update_activity == Function(<<
    "activity_id" :> Str, "activity" :> Activity>>, Void, ActivityError)
update_blocktank_url == AsyncFunction(<<"new_url" :> Str>>, Void, BlocktankError)
upsert_activity == Function(<<"activity" :> Activity>>, Void, ActivityError)
validate_bitcoin_address == Function(<<"address" :> Str>>, ValidationResult, AddressError)

Functions == [add_tags |-> add_tags, create_cjit_entry |-> create_cjit_entry,
    create_order |-> create_order, decode |-> decode,
    delete_activity_by_id |-> delete_activity_by_id,
    derive_bitcoin_address |-> derive_bitcoin_address,
    derive_bitcoin_addresses |-> derive_bitcoin_addresses,
    derive_private_key |-> derive_private_key, estimate_order_fee |-> estimate_order_fee,
    estimate_order_fee_full |-> estimate_order_fee_full,
    generate_mnemonic |-> generate_mnemonic, get_activities |-> get_activities,
    get_activities_by_tag |-> get_activities_by_tag,
    get_activity_by_id |-> get_activity_by_id, get_all_unique_tags |-> get_all_unique_tags,
    get_cjit_entries |-> get_cjit_entries, get_info |-> get_info,
    get_lnurl_invoice |-> get_lnurl_invoice,
    get_min_zero_conf_tx_fee |-> get_min_zero_conf_tx_fee, get_orders |-> get_orders,
    get_tags |-> get_tags, init_db |-> init_db, insert_activity |-> insert_activity,
    open_channel |-> open_channel,
    refresh_active_cjit_entries |-> refresh_active_cjit_entries,
    refresh_active_orders |-> refresh_active_orders, register_device |-> register_device,
    regtest_close_channel |-> regtest_close_channel, regtest_deposit |-> regtest_deposit,
    regtest_get_payment |-> regtest_get_payment, regtest_mine |-> regtest_mine,
    regtest_pay |-> regtest_pay, remove_tags |-> remove_tags,
    test_notification |-> test_notification,
    trezor_compose_transaction |-> trezor_compose_transaction,
    trezor_get_account_info |-> trezor_get_account_info,
    trezor_get_address |-> trezor_get_address, trezor_get_features |-> trezor_get_features,
    trezor_handle_deep_link |-> trezor_handle_deep_link,
    trezor_sign_message |-> trezor_sign_message,
    trezor_sign_transaction |-> trezor_sign_transaction,
    trezor_verify_message |-> trezor_verify_message, update_activity |-> update_activity,
    update_blocktank_url |-> update_blocktank_url, upsert_activity |-> upsert_activity,
    validate_bitcoin_address |-> validate_bitcoin_address]
=============================================================================
