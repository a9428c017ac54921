\* The api and the command at once, one account.
CONSTANTS
  a1 = a1
  Accounts = {a1}
  MaxCommands = 2
  Processes <- Both
SPECIFICATION MigrationFairSpec
INVARIANT MigrationInv
PROPERTIES BackfillSparesTheFlow ServesUnlessStuck
