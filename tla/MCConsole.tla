------------------------------ MODULE MCConsole ------------------------------
(***************************************************************************)
(* Instances of the parts behind the admin API: accounts, the catalogue of *)
(* keys, channels and proxies, the route table, the settings, prices and   *)
(* exchange rates, and the export and import of prices.  The parts share   *)
(* no state, so a behaviour follows one of them.                           *)
(***************************************************************************)
EXTENDS AdminAuth, Catalog, RouteTable, Settings, MCPricing, PriceTransfer, TLC

VARIABLE focus

-----------------------------------------------------------------------------
\* PriceTransfer
Price(channel, unit, currency, dim, price, segments, basis) ==
    [channel |-> channel, unit |-> unit, currency |-> currency, dim |-> dim, price |-> price,
     segments |-> segments, basis |-> basis, enabled |-> TRUE]
Prices == {Price("c", "token_in", "CNY", "", 1, "plain", "prompt_tokens"),
           Price("c", "token_in", "CNY", "text", 2, "none", "prompt_tokens"),
           Price("c", "token_out", "USD", "", 1, "loose", "total_tokens"),
           Price("c", "image", "CNY", "text", 1, "plain", "prompt_tokens"),
           Price("c", "image", "CNY", "number", 2, "none", "prompt_tokens"),
           Price("d", "video_second", "CNY", "", 1, "none", "prompt_tokens")}

Column(in, out) ==
    [u \in TokenColumns |-> [price |-> CASE u = "token_in" -> in [] u = "token_out" -> out [] OTHER -> NoPrice,
                             segments |-> "none"]]
Item(channel, in, out) == [channel |-> channel, currency |-> "CNY", column |-> Column(in, out), media |-> <<>>]
WithImage(item, dim, segments) == [item EXCEPT !.media = <<[unit |-> "image", price |-> 3, dim |-> dim, segments |-> segments]>>]
WrittenByHand == {<<Item("c", 3, -1), Item("c", 4, 5)>>,
                  <<WithImage(Item("c", 3, -1), "text", "plain"), WithImage(Item("c", 4, -1), Scalar, "none"),
                    WithImage(Item("c", 5, -1), "text", Scalar)>>,
                  <<Item("c", 3, -2), Item("c", -1, 4)>>,
                  <<Item("c", 3, 4), Item("c", 5, -1)>>, <<Item("x", 3, -1), Item("c", -1, -1)>>}

-----------------------------------------------------------------------------
ConsoleInit ==
    /\ focus \in {"auth", "catalog", "routes", "settings", "pricing", "transfer"}
    /\ AuthInit /\ CatalogInit /\ RouteInit /\ TransferInit
    /\ SettingsInit /\ (focus = "settings" \/ secretSet = "a")
    /\ PricingInit /\ (focus = "pricing" \/ (rules = NoRules /\ fx = {}))

\* The parts other than x stay as they are.
Others(x) ==
    /\ focus = x /\ UNCHANGED focus
    /\ x # "auth" => UNCHANGED authVars
    /\ x # "catalog" => UNCHANGED catalogVars
    /\ x # "routes" => UNCHANGED routeVars
    /\ x # "settings" => UNCHANGED settingsVars
    /\ x # "pricing" => UNCHANGED pricingVars
    /\ x # "transfer" => UNCHANGED transferVars

ConsoleNext ==
    \/ Others("auth") /\ AuthNext
    \/ Others("catalog") /\ CatalogNext
    \/ Others("routes") /\ RouteNext
    \/ Others("settings") /\ SettingsNext
    \/ Others("pricing") /\ PricingNext
    \/ Others("transfer") /\ TransferNext

ConsoleSpec == ConsoleInit /\ [][ConsoleNext]_<<focus, authVars, catalogVars, routeVars, settingsVars, pricingVars, transferVars>>

\* The tables behind the admin API are sound among concurrent administrators: at rest the
\* snapshot is what they hold unless a reload failed or an overtaken one put old rows back
\* (cache.rs), and neither two aliases of a name nor two managed routes of a model on one
\* upstream come about.
TablesSound == CatalogTypeOK /\ StaleExplained /\ RouteTypeOK
=============================================================================
