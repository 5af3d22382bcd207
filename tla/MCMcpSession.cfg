SPECIFICATION McpSpec
CONSTANTS
  Chats = {c1, c2}
  Startup = startup
  MaxAttempts = 2
  MaxRestarts = 1
INVARIANT HeldIsOpened
PROPERTY LoadsLazily
