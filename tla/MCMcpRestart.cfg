SPECIFICATION McpSpec
CONSTANTS
  Chats = {c1}
  Startup = startup
  MaxAttempts = 2
  MaxRestarts = 1
PROPERTY LoadsWheneverUp
