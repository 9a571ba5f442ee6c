INIT Init
NEXT Next
INVARIANTS TypeOK ScriptSucceeds InstalledCatalogSound CommutatorConverse SymbolsMatch
